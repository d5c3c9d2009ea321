---------------------------- MODULE AccessProofs ----------------------------
(***************************************************************************)
(* Proofs about Access and Policy together, for every set of mailboxes,    *)
(* sessions, states and requests: what PolicySpec can do to the variables  *)
(* of Access is a step of Access, or the step of a tool call.              *)
(***************************************************************************)
EXTENDS Policy, TLAPS, FiniteSetTheorems

-----------------------------------------------------------------------------
(* The inductive invariant.                                                 *)

AskedOK == \A t \in Tasks : AskOK(asked[t]) /\ InputOK(asked[t])

\* Who has consumed a one-use state, and what for.
Holds(t) ==
  \/ asked[t].kind = "callback" /\ task[t].pc \notin {"start", "failed"}
  \/ asked[t].kind = "connect" /\ (task[t].pc \in {"exchange", "verify"} \/ task[t].grant # None)
  \/ asked[t].kind = "decide" /\ task[t].pc \in {"complete", "done"}

HeldBy(t) ==
  Holds(t) =>
    /\ state[asked[t].state].used /\ ~state[asked[t].state].expired
    /\ state[asked[t].state].kind \in Serves[asked[t].kind]
    /\ \A u \in Tasks \ {t} : Holds(u) => asked[u].state # asked[t].state

HeldStates == \A t \in Tasks : HeldBy(t)

\* A callback is where the kind of its state leads.
LoggingInBy(t) ==
  asked[t].kind = "callback" =>
    /\ task[t].pc \in {"login", "reauth"} => state[asked[t].state].kind = task[t].pc
    /\ task[t].pc = "create" => state[asked[t].state].kind = "login"
    /\ task[t].pc = "mark" =>
         /\ state[asked[t].state].kind = "reauth"
         /\ state[asked[t].state].session = task[t].session
         /\ task[t].session \in Sessions
         /\ session[task[t].session].user = asked[t].sub

LoggingIn == \A t \in Tasks : LoggingInBy(t)

Web == HeldStates /\ LoggingIn

\* The companion's client is created once, by the request whose attempt was first.
Attempted ==
  /\ setting = NoAttempt => clients = {}
  /\ setting.id # None => \E c \in clients : c.id = setting.id
  /\ \A c, d \in clients : c = d

RegisteringBy(t) ==
  asked[t].kind = "companion" =>
    /\ task[t].pc = "create" =>
         /\ setting # NoAttempt /\ clients = {}
         /\ \A u \in Tasks \ {t} : ~At(u, {"companion"}, "create")
    /\ task[t].pc \in {"create", "claim", "list", "record"} => task[t].seen.id = None
    /\ task[t].pc = "record" => \E c \in clients : c.id = task[t].grant
    /\ task[t].pc = "compare" => task[t].grant \in Tasks
    /\ task[t].pc = "done" => setting.id # None /\ task[t].grant = setting.id

Registering == \A t \in Tasks : RegisteringBy(t)

Companion == Attempted /\ Registering

\* A version of a row names the grant it was stored with, and is never used again.
RowsOK ==
  \A m \in Mailboxes :
    /\ account[m].status = "absent" => account[m] = NoAccount
    /\ account[m].status = "active" => account[m].refresh # None
    /\ account[m].status = "revoked" => account[m].refresh = None
    /\ account[m].access \in {None, account[m].refresh}

Versions ==
  /\ \A x, y \in minted : x[1] = y[1] /\ x[2] = y[2] => x = y
  /\ \A x \in minted : x[2] <= account[x[1]].version /\ account[x[1]].status # "absent"
  /\ \A m \in Mailboxes : account[m].refresh # None => <<m, account[m].version, account[m].refresh>> \in minted

\* What a request for a token read is what its version stands for.
TokenBy(t) ==
  asked[t].kind = "token" =>
    /\ task[t].pc \in {"rewrap", "pinned", "refresh", "reject", "write", "last", "done"} =>
         /\ <<asked[t].mailbox, task[t].row.version, task[t].row.refresh>> \in minted
         /\ asked[t].pin \in {None, task[t].row.version}
         /\ task[t].row.access \in {None, task[t].row.refresh}
    /\ task[t].pc \in {"rewrap", "write", "last", "done"} => task[t].grant = task[t].row.refresh

Tokens == \A t \in Tasks : TokenBy(t)

\* A revocation that may wipe has read the credential it wipes.
RevocationBy(t) ==
  asked[t].kind = "revoke" =>
    /\ task[t].pc = "wipe" =>
         /\ account[asked[t].mailbox].status # "absent"
         /\ task[t].row.version <= account[asked[t].mailbox].version
         /\ task[t].row.version = account[asked[t].mailbox].version =>
              task[t].row.refresh = account[asked[t].mailbox].refresh
    /\ task[t].pc = "tell" => task[t].row.refresh # None

Revocations == \A t \in Tasks : RevocationBy(t)

DefaultBy(t) == At(t, {"default"}, "set") => account[asked[t].mailbox].status # "absent"
Defaults == \A t \in Tasks : DefaultBy(t)

\* A connect has the grant it exchanged its code for.
ConnectBy(t) ==
  asked[t].kind = "connect" =>
    /\ task[t].pc \in {"start", "consume", "exchange"} => task[t].grant = None
    /\ task[t].pc \in {"verify", "lookup", "insert", "reconnect", "record", "undo"} => task[t].grant # None
    /\ task[t].grant # None => task[t].grant \in 0..grants

Connects == \A t \in Tasks : ConnectBy(t)

Credentials == RowsOK /\ Versions /\ Tokens /\ Revocations /\ Defaults /\ Connects

\* A grant a finished request may forget.
Carries(t, g) == asked[t].kind = "connect" /\ Running(t) /\ task[t].grant = g
Records(t, g) == At(t, {"connect"}, "record") /\ task[t].grant = g
Tells(t, g) == At(t, {"revoke"}, "tell") /\ task[t].row.refresh = g
Stands(g) == \E m \in Mailboxes : account[m].refresh = g

Kept(g) == g \in abandoned \/ Stands(g) \/ \E t \in Tasks : Tells(t, g)

Live ==
  /\ \A g \in live : Kept(g) \/ \E t \in Tasks : Carries(t, g)
  /\ \A t \in Tasks, g \in live : Records(t, g) => Kept(g)

AccessInv == TypeOK /\ AskedOK /\ Web /\ Companion /\ Credentials /\ Live

\* A call in the hands of the gate: what it was planned as, and that what is in force is
\* noted for the decision that comes.
DecidedBy(t) ==
  IsTool(t) =>
    /\ task[t].pc \in {"planned", "asked", "approved", "claimed"} => call[t].mods = Plan(t).mods
    /\ task[t].pc = "planned" /\ Permits(t, rows, FALSE) => call[t].permitted
    /\ task[t].pc = "claimed" /\ Permits(t, rows, TRUE) => call[t].permitted
    /\ task[t].pc \in {"start", "planned", "asked", "approved"} => ~call[t].approved
    /\ task[t].pc = "claimed" => call[t].approved
    /\ task[t].pc \in {"run", "sending"} => call[t].permitted

Decisions == \A t \in Tasks : DecidedBy(t)

DraftBy(t) ==
  IsTool(t) =>
    /\ task[t].pc \notin Over => call[t].sent = 0
    /\ task[t].pc = "sending" =>
         draft[asked[t].mailbox] \in {0, call[t].draft} \/ call[t].moved
    /\ call[t].sent # 0 => call[t].sent = call[t].draft \/ call[t].moved

Drafts == \A t \in Tasks : DraftBy(t)

\* A form that will be saved has levels only.
PostedBy(t) ==
  At(t, {"policy"}, "edit") /\ ~asked[t].preset =>
    \A f \in DOMAIN asked[t].form : read[t][f] # "none" => asked[t].form[f] \in Levels \cup {"inherit"}

Posted == \A t \in Tasks : PostedBy(t)

PolicyInv == PolicyTypeOK /\ Decisions /\ Drafts /\ Posted

-----------------------------------------------------------------------------
(* The steps, by what they belong to.                                       *)

TokenStep(t) ==
  \/ TokenLoad(t) \/ Rewrap(t) \/ CheckPinned(t) \/ Refresh(t) \/ NeedsReconnect(t) \/ WriteToken(t)
  \/ ReturnToken(t)
PageStep(t) ==
  \/ StartLogin(t) \/ StartAuthorize(t) \/ StartReauth(t) \/ StartConnect(t) \/ Enter(t) \/ Logout(t)
  \/ ReadPolicy(t) \/ EditPolicy(t)
CallbackStep(t) == Callback(t) \/ Identify(t) \/ Reauth(t) \/ Mark(t) \/ Login(t) \/ CreateSession(t)
DecideStep(t) == Decide(t) \/ Complete(t)
ConnectStep(t) ==
  \/ ConnectConsume(t) \/ Exchange(t) \/ Verify(t) \/ Lookup(t) \/ StoreFails(t) \/ Reconnect(t)
  \/ Insert(t) \/ Record(t) \/ Undo(t)
RevokeStep(t) == RevokeLoad(t) \/ RevokeWipe(t) \/ RevokeTell(t) \/ RevokeOthers(t)
DefaultStep(t) == ReadDefault(t) \/ SetDefault(t)
CompanionStep(t) ==
  \/ CompanionLook(t) \/ Reserve(t) \/ CreateClient(t) \/ Found(t) \/ Wait(t) \/ Claim(t) \/ ListClients(t)
  \/ RecordClient(t) \/ CompareClient(t)

\* What a tool call does to the variables of Access: it goes on.
ToolMoves(t) ==
  /\ asked[t].kind = "tool"
  /\ \E pc \in Places : Go(t, pc)
  /\ UNCHANGED <<account, google, web, registration, asked, minted>>

LEMMA StepAreas ==
  ASSUME NEW t, Step(t)
  PROVE  \/ TokenStep(t) \/ PageStep(t) \/ CallbackStep(t) \/ DecideStep(t) \/ ConnectStep(t)
         \/ RevokeStep(t) \/ DefaultStep(t) \/ CompanionStep(t)
BY Zenon DEF Step, TokenStep, PageStep, CallbackStep, DecideStep, ConnectStep, RevokeStep, DefaultStep,
   CompanionStep

LEMMA NoneIsNothing ==
  /\ None \notin Nat /\ None \notin Tasks /\ None \notin Identities /\ None \notin Sessions
  /\ None \notin Mailboxes /\ None \notin Aliases
BY AccessAssumption

-----------------------------------------------------------------------------
(* What a step does to the records of the requests.                         *)

\* Every other request is where it was.
Alone(t) == \A u \in Tasks \ {t} : task'[u] = task[u]

LEMMA CallFields ==
  ASSUME task \in [Tasks -> Calls], NEW t \in Tasks
  PROVE  /\ task[t].pc \in Places /\ task[t].session \in Sessions \cup {None}
         /\ task[t].row \in Accounts /\ task[t].grant \in Nat \cup Tasks \cup {None}
         /\ task[t].tries \in Nat /\ task[t].seen \in Registrations
BY DEF Calls

LEMMA RowFields ==
  ASSUME NEW row \in Accounts
  PROVE  /\ row.status \in {"absent", "active", "needs_reconnect", "revoked"} /\ row.version \in Nat
         /\ row.refresh \in Nat \cup {None} /\ row.access \in Nat \cup {None}
BY DEF Accounts

LEMMA GoIs ==
  ASSUME task \in [Tasks -> Calls], NEW t \in Tasks, NEW pc \in Places, Go(t, pc)
  PROVE  /\ task' \in [Tasks -> Calls] /\ Alone(t)
         /\ task'[t].pc = pc /\ task'[t].session = task[t].session /\ task'[t].row = task[t].row
         /\ task'[t].grant = task[t].grant /\ task'[t].seen = task[t].seen
BY DEF Go, Calls, Alone

LEMMA GrantIs ==
  ASSUME task \in [Tasks -> Calls], NEW t \in Tasks, NEW pc \in Places, NEW g \in Nat \cup Tasks \cup {None},
         task' = [task EXCEPT ![t].pc = pc, ![t].grant = g]
  PROVE  /\ task' \in [Tasks -> Calls] /\ Alone(t)
         /\ task'[t].pc = pc /\ task'[t].session = task[t].session /\ task'[t].row = task[t].row
         /\ task'[t].grant = g /\ task'[t].seen = task[t].seen
BY DEF Calls, Alone

LEMMA SessionIs ==
  ASSUME task \in [Tasks -> Calls], NEW t \in Tasks, NEW pc \in Places, NEW s \in Sessions \cup {None},
         task' = [task EXCEPT ![t].pc = pc, ![t].session = s]
  PROVE  /\ task' \in [Tasks -> Calls] /\ Alone(t)
         /\ task'[t].pc = pc /\ task'[t].session = s /\ task'[t].row = task[t].row
         /\ task'[t].grant = task[t].grant /\ task'[t].seen = task[t].seen
BY DEF Calls, Alone

LEMMA SeenIs ==
  ASSUME task \in [Tasks -> Calls], NEW t \in Tasks, NEW pc \in Places, NEW a \in Registrations,
         task' = [task EXCEPT ![t].pc = pc, ![t].seen = a]
  PROVE  /\ task' \in [Tasks -> Calls] /\ Alone(t)
         /\ task'[t].pc = pc /\ task'[t].session = task[t].session /\ task'[t].row = task[t].row
         /\ task'[t].grant = task[t].grant /\ task'[t].seen = a
BY DEF Calls, Alone

LEMMA TokenLoadIs ==
  ASSUME task \in [Tasks -> Calls], account \in [Mailboxes -> Accounts], NEW t \in Tasks,
         asked[t].mailbox \in Mailboxes, TokenLoad(t)
  PROVE  /\ task' \in [Tasks -> Calls] /\ Alone(t)
         /\ task'[t].row = account[asked[t].mailbox]
         /\ task'[t].pc \in {"failed", "rewrap", "last", "pinned"}
         /\ task'[t].pc # "failed" =>
              /\ account[asked[t].mailbox].status = "active"
              /\ asked[t].pin \in {None, account[asked[t].mailbox].version}
         /\ task'[t].pc \in {"rewrap", "last"} =>
              /\ account[asked[t].mailbox].access # None
              /\ task'[t].grant = account[asked[t].mailbox].access
<1> DEFINE row == account[asked[t].mailbox]
           next == IF row.status # "active" \/ asked[t].pin \notin {None, row.version} THEN "failed"
                   ELSE IF Cached(t, row) THEN (IF row.old THEN "rewrap" ELSE "last")
                   ELSE IF row.refresh = None THEN "failed"
                   ELSE "pinned"
           g == IF next \in {"rewrap", "last"} THEN row.access ELSE None
<1>1. row \in Accounts /\ row.access \in Nat \cup {None}
  BY RowFields
<1>2. task' = [task EXCEPT ![t].pc = next, ![t].row = row, ![t].grant = g]
  BY DEF TokenLoad
<1>3. /\ next \in {"failed", "rewrap", "last", "pinned"} /\ g \in Nat \cup {None}
      /\ next # "failed" => row.status = "active" /\ asked[t].pin \in {None, row.version}
      /\ next \in {"rewrap", "last"} => row.access # None /\ g = row.access
  BY <1>1 DEF Cached
<1>5. next \in Places
  BY <1>3 DEF Places
<1> HIDE DEF next, g, row
<1>4. /\ task' \in [Tasks -> Calls] /\ Alone(t)
      /\ task'[t].pc = next /\ task'[t].row = row /\ task'[t].grant = g
  BY <1>1, <1>2, <1>3, <1>5 DEF Calls, Alone
<1> QED
  BY <1>3, <1>4 DEF row

LEMMA RevokeLoadIs ==
  ASSUME task \in [Tasks -> Calls], account \in [Mailboxes -> Accounts], NEW t \in Tasks,
         asked[t].mailbox \in Mailboxes, RevokeLoad(t)
  PROVE  /\ task' \in [Tasks -> Calls] /\ Alone(t)
         /\ task'[t].row = account[asked[t].mailbox]
         /\ task'[t].pc = IF account[asked[t].mailbox] = NoAccount THEN "failed" ELSE "wipe"
<1> DEFINE row == account[asked[t].mailbox]
           pc == IF account[asked[t].mailbox] = NoAccount THEN "failed" ELSE "wipe"
<1>1. row \in Accounts /\ pc \in Places
  BY DEF Places
<1>2. task' = [task EXCEPT ![t].row = row, ![t].tries = @ + 1, ![t].pc = pc]
  BY DEF RevokeLoad
<1> HIDE DEF row, pc
<1>3. task' \in [Tasks -> Calls] /\ Alone(t) /\ task'[t].row = row /\ task'[t].pc = pc
  BY <1>1, <1>2 DEF Calls, Alone
<1> QED
  BY <1>3 DEF row, pc

-----------------------------------------------------------------------------
(* Types.                                                                   *)

LEMMA AccountIs ==
  ASSUME account \in [Mailboxes -> Accounts], NEW m \in Mailboxes, NEW new \in Accounts,
         account' = [account EXCEPT ![m] = new]
  PROVE  /\ account' \in [Mailboxes -> Accounts] /\ account'[m] = new
         /\ \A b \in Mailboxes \ {m} : account'[b] = account[b]
OBVIOUS

LEMMA RewrappedIs ==
  ASSUME task \in [Tasks -> Calls], NEW t \in Tasks, NEW row \in Accounts
  PROVE  /\ Rewrapped(t, row) \in Accounts /\ Rewrapped(t, row).refresh = task[t].row.refresh
         /\ Rewrapped(t, row).access = task[t].row.access /\ Rewrapped(t, row).version = row.version
         /\ Rewrapped(t, row).status = row.status
<1> DEFINE r == task[t].row.refresh
           a == task[t].row.access
<1>1. r \in Nat \cup {None} /\ a \in Nat \cup {None}
  BY CallFields, RowFields
<1>2. Rewrapped(t, row) = [row EXCEPT !.access = a, !.refresh = r, !.old = FALSE]
  BY DEF Rewrapped
<1> HIDE DEF r, a
<1>3. /\ Rewrapped(t, row) \in Accounts /\ Rewrapped(t, row).refresh = r /\ Rewrapped(t, row).access = a
      /\ Rewrapped(t, row).version = row.version /\ Rewrapped(t, row).status = row.status
  BY <1>1, <1>2 DEF Accounts
<1> QED
  BY <1>3 DEF r, a

LEMMA RefreshedIs ==
  ASSUME task \in [Tasks -> Calls], NEW t \in Tasks, NEW row \in Accounts,
         task[t].grant = task[t].row.refresh
  PROVE  /\ Refreshed(t, row) \in Accounts
         /\ Refreshed(t, row).refresh \in {row.refresh, task[t].row.refresh}
         /\ Refreshed(t, row).access = task[t].row.refresh /\ Refreshed(t, row).version = row.version
         /\ Refreshed(t, row).status = row.status
<1> DEFINE r == IF task[t].row.old THEN task[t].row.refresh ELSE row.refresh
           a == task[t].row.refresh
<1>1. r \in {row.refresh, a} /\ r \in Nat \cup {None} /\ a \in Nat \cup {None}
  BY CallFields, RowFields
<1>2. Refreshed(t, row) = [row EXCEPT !.access = a, !.fresh = TRUE, !.refresh = r, !.old = FALSE]
  BY DEF Refreshed
<1> HIDE DEF r, a
<1>3. /\ Refreshed(t, row) \in Accounts /\ Refreshed(t, row).refresh = r /\ Refreshed(t, row).access = a
      /\ Refreshed(t, row).version = row.version /\ Refreshed(t, row).status = row.status
  BY <1>1, <1>2 DEF Accounts
<1> QED
  BY <1>1, <1>3 DEF a

LEMMA GuardedIs ==
  ASSUME TypeOK, NEW t \in Tasks, asked[t].mailbox \in Mailboxes, NEW new \in Accounts, GuardedWrite(t, new)
  PROVE  /\ task' \in [Tasks -> Calls] /\ Alone(t) /\ account' \in [Mailboxes -> Accounts]
         /\ task'[t].row = task[t].row /\ task'[t].grant = task[t].grant
         /\ \/ /\ task'[t].pc = "last" /\ Unchanged(t) /\ account'[asked[t].mailbox] = new
               /\ \A b \in Mailboxes \ {asked[t].mailbox} : account'[b] = account[b]
            \/ task'[t].pc = "failed" /\ account' = account
<1>1. account \in [Mailboxes -> Accounts] /\ task \in [Tasks -> Calls]
  BY DEF TypeOK
<1>2. CASE Unchanged(t)
  <2>1. account' = [account EXCEPT ![asked[t].mailbox] = new] /\ Go(t, "last")
    BY <1>2 DEF GuardedWrite
  <2> QED
    BY <1>1, <1>2, <2>1, GoIs, AccountIs DEF Places
<1>3. CASE ~Unchanged(t)
  <2>1. Go(t, "failed") /\ account' = account
    BY <1>3 DEF GuardedWrite
  <2> QED
    BY <1>1, <2>1, GoIs DEF Places
<1> QED
  BY <1>2, <1>3

\* What a request for a token does: it may write the row of its mailbox, of which the
\* version stays, and with the version the refresh token.
TokenWrites(t) ==
  LET m == asked[t].mailbox
  IN  /\ account' \in [Mailboxes -> Accounts]
      /\ \A b \in Mailboxes \ {m} : account'[b] = account[b]
      /\ \/ account'[m] = account[m]
         \/ /\ account[m].status = "active" /\ account[m].version = task[t].row.version
            /\ account'[m].status \in {"active", "needs_reconnect"}
            /\ account'[m].version = account[m].version
            /\ account'[m].refresh = account[m].refresh
            /\ account'[m].access \in {None, account[m].refresh}

\* The refresh token a request read is that of the row it writes.
LEMMA SameGrant ==
  ASSUME TypeOK, AskedOK, RowsOK, Versions, Tokens, NEW t \in Tasks, asked[t].kind = "token",
         task[t].pc \in {"rewrap", "write", "last", "done", "reject"}, Unchanged(t)
  PROVE  /\ account[asked[t].mailbox].status = "active"
         /\ account[asked[t].mailbox].version = task[t].row.version
         /\ account[asked[t].mailbox].refresh = task[t].row.refresh
<1> DEFINE m == asked[t].mailbox
<1>1. m \in Mailboxes
  BY DEF AskedOK, AskOK
<1>2. account[m].status = "active" /\ account[m].version = task[t].row.version
  BY DEF Unchanged
<1>3. <<m, account[m].version, account[m].refresh>> \in minted
  BY <1>1, <1>2 DEF RowsOK, Versions
<1>4. <<m, task[t].row.version, task[t].row.refresh>> \in minted
  BY DEF Tokens, TokenBy
<1>5. <<m, account[m].version, account[m].refresh>> = <<m, task[t].row.version, task[t].row.refresh>>
  BY <1>2, <1>3, <1>4 DEF Versions
<1> QED
  BY <1>2, <1>5

LEMMA TokenDoes ==
  ASSUME TypeOK, AskedOK, RowsOK, Versions, Tokens, NEW t \in Tasks, TokenStep(t)
  PROVE  /\ asked[t].kind = "token" /\ asked[t].mailbox \in Mailboxes
         /\ task' \in [Tasks -> Calls] /\ Alone(t) /\ TokenWrites(t)
         /\ UNCHANGED <<google, web, registration, asked, minted>>
<1> DEFINE m == asked[t].mailbox
<1>1. account \in [Mailboxes -> Accounts] /\ task \in [Tasks -> Calls]
  BY DEF TypeOK
<1>2. asked[t].kind = "token" /\ UNCHANGED <<google, web, registration, asked, minted>>
  BY DEF TokenStep, TokenLoad, Rewrap, CheckPinned, Refresh, NeedsReconnect, WriteToken, ReturnToken, At, google,
     web, registration
<1>3. m \in Mailboxes /\ account[m] \in Accounts
  BY <1>1, <1>2 DEF AskedOK, AskOK
<1>4. account' = account => TokenWrites(t)
  BY <1>1 DEF TokenWrites
<1>5. CASE TokenLoad(t)
  BY <1>1, <1>2, <1>3, <1>4, <1>5, TokenLoadIs DEF TokenLoad
<1>6. CASE Rewrap(t)
  <2>1. GuardedWrite(t, Rewrapped(t, account[m])) /\ task[t].pc = "rewrap"
    BY <1>6 DEF Rewrap, At
  <2>2. /\ Rewrapped(t, account[m]) \in Accounts /\ Rewrapped(t, account[m]).refresh = task[t].row.refresh
        /\ Rewrapped(t, account[m]).access = task[t].row.access
        /\ Rewrapped(t, account[m]).version = account[m].version
        /\ Rewrapped(t, account[m]).status = account[m].status
    BY <1>1, <1>3, RewrappedIs
  <2>3. task[t].row.access \in {None, task[t].row.refresh}
    BY <1>2, <2>1 DEF Tokens, TokenBy
  <2>4. Unchanged(t) => /\ account[m].status = "active" /\ account[m].version = task[t].row.version
                        /\ account[m].refresh = task[t].row.refresh
    BY <1>2, <2>1, SameGrant
  <2>5. /\ task' \in [Tasks -> Calls] /\ Alone(t) /\ account' \in [Mailboxes -> Accounts]
        /\ \/ /\ Unchanged(t) /\ account'[m] = Rewrapped(t, account[m])
              /\ \A b \in Mailboxes \ {m} : account'[b] = account[b]
           \/ account' = account
    BY <1>3, <2>1, <2>2, GuardedIs
  <2>6. TokenWrites(t)
    BY <1>4, <2>2, <2>3, <2>4, <2>5 DEF TokenWrites
  <2> QED
    BY <1>2, <1>3, <2>5, <2>6
<1>7. CASE CheckPinned(t)
  <2>1. \E pc \in Places : Go(t, pc)
    BY <1>7 DEF CheckPinned, Places
  <2> QED
    BY <1>1, <1>2, <1>3, <1>4, <1>7, <2>1, GoIs DEF CheckPinned
<1>8. CASE Refresh(t)
  <2>1. \/ \E pc \in Places : Go(t, pc)
        \/ task' = [task EXCEPT ![t].pc = "write", ![t].grant = task[t].row.refresh]
    BY <1>8 DEF Refresh, Places
  <2>2. task[t].row.refresh \in Nat \cup Tasks \cup {None} /\ "write" \in Places
    BY <1>1, CallFields, RowFields DEF Places
  <2>3. task' \in [Tasks -> Calls] /\ Alone(t)
    BY <1>1, <2>1, <2>2, GoIs, GrantIs
  <2> QED
    BY <1>2, <1>3, <1>4, <1>8, <2>3 DEF Refresh
<1>9. CASE NeedsReconnect(t)
  <2>1. Go(t, "failed") /\ task[t].pc = "reject"
    BY <1>9 DEF NeedsReconnect, At
  <2>2. task' \in [Tasks -> Calls] /\ Alone(t)
    BY <1>1, <2>1, GoIs DEF Places
  <2>3. CASE Unchanged(t)
    <3> DEFINE new == [account[m] EXCEPT !.status = "needs_reconnect", !.access = None, !.fresh = FALSE]
    <3>1. account' = [account EXCEPT ![m] = new]
      BY <1>1, <1>3, <1>9, <2>3 DEF NeedsReconnect
    <3>2. /\ new \in Accounts /\ new.status = "needs_reconnect" /\ new.version = account[m].version
          /\ new.refresh = account[m].refresh /\ new.access = None
      BY <1>3 DEF Accounts
    <3> HIDE DEF new
    <3>3. /\ account' \in [Mailboxes -> Accounts] /\ account'[m] = new
          /\ \A b \in Mailboxes \ {m} : account'[b] = account[b]
      BY <1>1, <1>3, <3>1, <3>2, AccountIs
    <3>4. account[m].status = "active" /\ account[m].version = task[t].row.version
      BY <2>3 DEF Unchanged
    <3> QED
      BY <1>2, <1>3, <2>2, <3>2, <3>3, <3>4 DEF TokenWrites
  <2>4. CASE ~Unchanged(t)
    BY <1>2, <1>3, <1>4, <1>9, <2>2, <2>4 DEF NeedsReconnect
  <2> QED
    BY <2>3, <2>4
<1>10. CASE WriteToken(t)
  <2>1. GuardedWrite(t, Refreshed(t, account[m])) /\ task[t].pc = "write"
    BY <1>10 DEF WriteToken, At
  <2>2. task[t].grant = task[t].row.refresh
    BY <1>2, <2>1 DEF Tokens, TokenBy
  <2>3. /\ Refreshed(t, account[m]) \in Accounts
        /\ Refreshed(t, account[m]).refresh \in {account[m].refresh, task[t].row.refresh}
        /\ Refreshed(t, account[m]).access = task[t].row.refresh
        /\ Refreshed(t, account[m]).version = account[m].version
        /\ Refreshed(t, account[m]).status = account[m].status
    BY <1>1, <1>3, <2>2, RefreshedIs
  <2>4. Unchanged(t) => /\ account[m].status = "active" /\ account[m].version = task[t].row.version
                        /\ account[m].refresh = task[t].row.refresh
    BY <1>2, <2>1, SameGrant
  <2>5. /\ task' \in [Tasks -> Calls] /\ Alone(t) /\ account' \in [Mailboxes -> Accounts]
        /\ \/ /\ Unchanged(t) /\ account'[m] = Refreshed(t, account[m])
              /\ \A b \in Mailboxes \ {m} : account'[b] = account[b]
           \/ account' = account
    BY <1>3, <2>1, <2>3, GuardedIs
  <2>6. TokenWrites(t)
    BY <1>4, <2>3, <2>4, <2>5 DEF TokenWrites
  <2> QED
    BY <1>2, <1>3, <2>5, <2>6
<1>11. CASE ReturnToken(t)
  <2>1. \E pc \in Places : Go(t, pc)
    BY <1>11 DEF ReturnToken, Places
  <2> QED
    BY <1>1, <1>2, <1>3, <1>4, <1>11, <2>1, GoIs DEF ReturnToken
<1> QED
  BY <1>5, <1>6, <1>7, <1>8, <1>9, <1>10, <1>11 DEF TokenStep


-----------------------------------------------------------------------------
(* Sessions and states.                                                     *)

\* No session gets another user, and none becomes recent.
NoLogin == \A s \in Sessions : session'[s].user = session[s].user /\ (session'[s].recent => session[s].recent)

LEMMA SessionEnds ==
  ASSUME session \in [Sessions -> WebSessions], NEW s, session' = [session EXCEPT ![s].alive = FALSE]
  PROVE  session' \in [Sessions -> WebSessions] /\ NoLogin
BY DEF WebSessions, NoLogin

LEMMA OthersEnd ==
  ASSUME session \in [Sessions -> WebSessions], NEW keep, session' = OthersRevoked(keep)
  PROVE  /\ session' \in [Sessions -> WebSessions] /\ NoLogin
         /\ \A s \in Sessions \ {keep} :
              IF session[s].user = session[keep].user THEN ~session'[s].alive ELSE session'[s] = session[s]
BY DEF WebSessions, NoLogin, OthersRevoked

LEMMA StaysNoLogin ==
  ASSUME session' = session
  PROVE  NoLogin
BY DEF NoLogin

\* A state that a start page put, or that was consumed.
LEMMA UsedIs ==
  ASSUME state \in [States -> OneUseStates], NEW x \in States, state' = Used(x)
  PROVE  /\ state' \in [States -> OneUseStates]
         /\ state'[x].used /\ state'[x].kind = state[x].kind /\ state'[x].session = state[x].session
         /\ state'[x].expired = state[x].expired
         /\ \A y \in States \ {x} : state'[y] = state[y]
BY DEF Used, OneUseStates

LEMMA PutIs ==
  ASSUME TypeOK, AskedOK, NEW t \in Tasks, NEW kind \in {"login", "reauth", "connect", "authreq"},
         NEW cookie \in Sessions \cup {None}, NEW user \in Identities \cup {None},
         NEW alias \in Aliases \cup {None}, asked[t].state \in States, Put(t, kind, cookie, user, alias)
  PROVE  /\ state' \in [States -> OneUseStates] /\ state[asked[t].state] = NoState
         /\ \A y \in States \ {asked[t].state} : state'[y] = state[y]
         /\ Go(t, "done")
<1> DEFINE x == asked[t].state
           new == [NoState EXCEPT !.kind = kind, !.session = cookie, !.user = user, !.alias = alias]
<1>1. new \in OneUseStates
  BY DEF NoState, OneUseStates
<1>2. state[x] = NoState /\ state' = [state EXCEPT ![x] = new] /\ Go(t, "done")
  BY DEF Put
<1>3. state \in [States -> OneUseStates]
  BY DEF TypeOK
<1> HIDE DEF new
<1> QED
  BY <1>1, <1>2, <1>3

StartKinds == {"login_start", "authorize_start", "reauth_start", "connect_start"}

\* What a page that reads no Google does: it puts a state, lets a request in, or ends sessions.
PageMoves(t) ==
  \/ /\ asked[t].kind \in StartKinds
     /\ session' = session
     /\ state' = state \/ (/\ state[asked[t].state] = NoState
                           /\ \A y \in States \ {asked[t].state} : state'[y] = state[y])
  \/ /\ asked[t].kind \in DOMAIN FirstStep /\ task[t].pc = "start"
     /\ task'[t].pc \in {"failed", FirstStep[asked[t].kind]} /\ task'[t].grant = task[t].grant
     /\ UNCHANGED web
  \/ asked[t].kind \in {"logout", "policy"} /\ state' = state

PageFrame(t) ==
  /\ task' \in [Tasks -> Calls] /\ Alone(t)
  /\ state' \in [States -> OneUseStates] /\ session' \in [Sessions -> WebSessions] /\ NoLogin
  /\ PageMoves(t)
  /\ UNCHANGED <<account, google, registration, asked, minted>>

LEMMA PageDoes ==
  ASSUME TypeOK, AskedOK, NEW t \in Tasks, PageStep(t)
  PROVE  PageFrame(t)
<1> USE DEF web
<1>1. /\ session \in [Sessions -> WebSessions] /\ task \in [Tasks -> Calls] /\ state \in [States -> OneUseStates]
      /\ UNCHANGED <<account, google, registration, asked, minted>>
  BY DEF TypeOK, PageStep, StartLogin, StartAuthorize, StartReauth, StartConnect, Enter, Logout, ReadPolicy, EditPolicy
<1>2. ASSUME asked[t].kind \in StartKinds, session' = session, asked[t].state \in States,
             \/ \E kind \in {"login", "reauth", "connect", "authreq"}, cookie \in Sessions \cup {None},
                   user \in Identities \cup {None}, alias \in Aliases \cup {None} : Put(t, kind, cookie, user, alias)
             \/ Go(t, "failed") /\ UNCHANGED state
      PROVE  PageFrame(t)
  <2>1. Go(t, "done") \/ Go(t, "failed")
    BY <1>2 DEF Put
  <2>2. task' \in [Tasks -> Calls] /\ Alone(t)
    BY <1>1, <2>1, GoIs DEF Places
  <2>3. /\ state' \in [States -> OneUseStates]
        /\ state' = state \/ (/\ state[asked[t].state] = NoState
                              /\ \A y \in States \ {asked[t].state} : state'[y] = state[y])
    BY <1>1, <1>2, PutIs
  <2> QED
    BY <1>1, <1>2, <2>2, <2>3, StaysNoLogin DEF PageFrame, PageMoves
<1>3. CASE StartLogin(t)
  <2>1. asked[t].state \in States
    BY <1>3 DEF StartLogin, At, AskedOK, AskOK
  <2> QED
    BY <1>2, <1>3, <2>1 DEF StartLogin, At, StartKinds
<1>4. CASE StartAuthorize(t)
  <2>1. asked[t].state \in States
    BY <1>4 DEF StartAuthorize, At, AskedOK, AskOK
  <2> QED
    BY <1>2, <1>4, <2>1 DEF StartAuthorize, At, StartKinds
<1>5. CASE StartReauth(t)
  <2>1. asked[t].state \in States /\ asked[t].cookie \in Sessions \cup {None}
    BY <1>5 DEF StartReauth, At, AskedOK, AskOK
  <2> QED
    BY <1>2, <1>5, <2>1 DEF StartReauth, At, StartKinds
<1>6. CASE StartConnect(t)
  <2>1. asked[t].state \in States /\ asked[t].cookie \in Sessions \cup {None} /\ asked[t].alias \in Aliases
    BY <1>6 DEF StartConnect, At, AskedOK, AskOK
  <2>2. Readable(asked[t].cookie) => session[asked[t].cookie].user \in Identities \cup {None}
    BY <1>1, <2>1 DEF Readable, WebSessions
  <2> QED
    BY <1>2, <1>6, <2>1, <2>2 DEF StartConnect, At, StartKinds
<1>7. CASE Enter(t)
  <2> DEFINE c == asked[t].cookie
             admitted == Readable(c) /\ (asked[t].kind \in Recent => session[c].recent)
             pc == IF admitted THEN FirstStep[asked[t].kind] ELSE "failed"
             s == IF admitted THEN c ELSE None
  <2>1. asked[t].kind \in DOMAIN FirstStep /\ task[t].pc = "start" /\ UNCHANGED web
    BY <1>7 DEF Enter, At
  <2>2. c \in Sessions \cup {None}
    BY <2>1 DEF AskedOK, AskOK, FirstStep
  <2>3. pc \in Places /\ pc \in {"failed", FirstStep[asked[t].kind]} /\ s \in Sessions \cup {None}
    BY <2>1, <2>2 DEF FirstStep, Places
  <2>4. task' = [task EXCEPT ![t].pc = pc, ![t].session = s]
    BY <1>7 DEF Enter
  <2> HIDE DEF pc, s
  <2>5. task' \in [Tasks -> Calls] /\ Alone(t) /\ task'[t].pc = pc /\ task'[t].grant = task[t].grant
    BY <1>1, <2>3, <2>4, SessionIs
  <2> QED
    BY <1>1, <2>1, <2>3, <2>5, StaysNoLogin DEF PageFrame, PageMoves
<1>8. CASE Logout(t)
  <2>1. asked[t].kind = "logout" /\ Go(t, "done") /\ state' = state
    BY <1>8 DEF Logout, At
  <2>2. session' \in [Sessions -> WebSessions] /\ NoLogin
    BY <1>1, <1>8, SessionEnds DEF Logout
  <2>3. task' \in [Tasks -> Calls] /\ Alone(t)
    BY <1>1, <2>1, GoIs DEF Places
  <2> QED
    BY <1>1, <2>1, <2>2, <2>3 DEF PageFrame, PageMoves
<1>9. CASE ReadPolicy(t)
  <2>1. asked[t].kind = "policy" /\ (Go(t, "edit") \/ Go(t, "failed")) /\ state' = state /\ session' = session
    BY <1>9 DEF ReadPolicy, At
  <2>2. task' \in [Tasks -> Calls] /\ Alone(t)
    BY <1>1, <2>1, GoIs DEF Places
  <2> QED
    BY <1>1, <2>1, <2>2, StaysNoLogin DEF PageFrame, PageMoves
<1>10. CASE EditPolicy(t)
  <2>1. asked[t].kind = "policy" /\ Go(t, "done") /\ state' = state
    BY <1>10 DEF EditPolicy, At
  <2>2. session' \in [Sessions -> WebSessions] /\ NoLogin
    BY <1>1, <1>10, OthersEnd DEF EditPolicy
  <2>3. task' \in [Tasks -> Calls] /\ Alone(t)
    BY <1>1, <2>1, GoIs DEF Places
  <2> QED
    BY <1>1, <2>1, <2>2, <2>3 DEF PageFrame, PageMoves
<1> QED
  BY <1>3, <1>4, <1>5, <1>6, <1>7, <1>8, <1>9, <1>10 DEF PageStep

\* A request that holds its state, and the kind of the state it leads on from.
LEMMA HeldKind ==
  ASSUME HeldStates, NEW t \in Tasks, asked[t].kind = "callback", task[t].pc \notin {"start", "failed"}
  PROVE  state[asked[t].state].kind \in {"login", "reauth"} /\ state[asked[t].state].used
<1>1. Holds(t)
  BY DEF Holds
<1> QED
  BY <1>1 DEF HeldStates, HeldBy, Serves

\* A step of a login: types, and how a session may become recent.
CallbackFrame(t) ==
  /\ asked[t].kind = "callback" /\ asked[t].state \in States
  /\ task' \in [Tasks -> Calls] /\ Alone(t)
  /\ state' \in [States -> OneUseStates] /\ session' \in [Sessions -> WebSessions]
  /\ UNCHANGED <<account, google, registration, asked, minted>>

LEMMA CallbackDoes ==
  ASSUME TypeOK, AskedOK, Web, NEW t \in Tasks, CallbackStep(t)
  PROVE  CallbackFrame(t)
<1>1. /\ session \in [Sessions -> WebSessions] /\ task \in [Tasks -> Calls] /\ state \in [States -> OneUseStates]
      /\ asked[t].kind = "callback"
      /\ UNCHANGED <<account, google, registration, asked, minted>>
  BY DEF TypeOK, CallbackStep, Callback, Identify, Reauth, Mark, Login, CreateSession, web, At
<1>2. /\ asked[t].state \in States /\ asked[t].cookie \in Sessions \cup {None} /\ asked[t].sub \in Identities
  BY <1>1 DEF AskedOK, AskOK
<1>3. CASE Callback(t)
  <2>1. (Go(t, "identify") /\ state' = Used(asked[t].state)) \/ (Go(t, "failed") /\ state' = state)
    BY <1>3 DEF Callback
  <2>2. session' = session
    BY <1>3 DEF Callback
  <2>3. state' \in [States -> OneUseStates]
    BY <1>1, <1>2, <2>1, UsedIs
  <2>4. task' \in [Tasks -> Calls] /\ Alone(t)
    BY <1>1, <2>1, GoIs DEF Places
  <2> QED
    BY <1>1, <1>2, <2>2, <2>3, <2>4 DEF CallbackFrame
<1>4. CASE Identify(t)
  <2>1. Go(t, state[asked[t].state].kind) \/ Go(t, "failed")
    BY <1>4 DEF Identify
  <2>2. state[asked[t].state].kind \in {"login", "reauth"}
    BY <1>1, <1>4, HeldKind DEF Identify, At, Web
  <2>3. task' \in [Tasks -> Calls] /\ Alone(t)
    BY <1>1, <2>1, <2>2, GoIs DEF Places
  <2> QED
    BY <1>1, <1>2, <1>4, <2>3 DEF CallbackFrame, Identify, web
<1>5. CASE Reauth(t)
  <2>1. \E pc \in Places : task' = [task EXCEPT ![t].pc = pc, ![t].session = asked[t].cookie]
    BY <1>5 DEF Reauth, Places
  <2>2. task' \in [Tasks -> Calls] /\ Alone(t)
    BY <1>1, <1>2, <2>1, SessionIs
  <2> QED
    BY <1>1, <1>2, <1>5, <2>2 DEF CallbackFrame, Reauth, web
<1>6. CASE Mark(t)
  <2>1. task' \in [Tasks -> Calls] /\ Alone(t)
    BY <1>1, <1>6, GoIs DEF Mark, Places
  <2>2. session' \in [Sessions -> WebSessions]
    BY <1>1, <1>6 DEF Mark, WebSessions
  <2> QED
    BY <1>1, <1>2, <1>6, <2>1, <2>2 DEF CallbackFrame, Mark
<1>7. CASE Login(t)
  <2>1. task' \in [Tasks -> Calls] /\ Alone(t)
    BY <1>1, <1>7, GoIs DEF Login, Places
  <2>2. session' \in [Sessions -> WebSessions]
    BY <1>1, <1>7 DEF Login, WebSessions
  <2> QED
    BY <1>1, <1>2, <1>7, <2>1, <2>2 DEF CallbackFrame, Login
<1>8. CASE CreateSession(t)
  <2>1. task' \in [Tasks -> Calls] /\ Alone(t)
    BY <1>1, <1>8, GoIs DEF CreateSession, Places
  <2>2. session' \in [Sessions -> WebSessions]
    BY <1>1, <1>2, <1>8 DEF CreateSession, WebSessions
  <2> QED
    BY <1>1, <1>2, <1>8, <2>1, <2>2 DEF CallbackFrame, CreateSession
<1> QED
  BY <1>3, <1>4, <1>5, <1>6, <1>7, <1>8 DEF CallbackStep

LEMMA DecideDoes ==
  ASSUME TypeOK, AskedOK, NEW t \in Tasks, DecideStep(t)
  PROVE  /\ asked[t].kind = "decide" /\ asked[t].state \in States
         /\ task' \in [Tasks -> Calls] /\ Alone(t) /\ state' \in [States -> OneUseStates]
         /\ UNCHANGED <<account, google, session, registration, asked, minted>>
<1>1. /\ task \in [Tasks -> Calls] /\ state \in [States -> OneUseStates] /\ asked[t].kind = "decide"
      /\ UNCHANGED <<account, google, session, registration, asked, minted>>
  BY DEF TypeOK, DecideStep, Decide, Complete, web, At
<1>2. asked[t].state \in States
  BY <1>1 DEF AskedOK, AskOK
<1>3. CASE Decide(t)
  <2>1. \E pc \in Places : Go(t, pc)
    BY <1>3 DEF Decide, Places
  <2>2. state' = Used(asked[t].state) \/ state' = state
    BY <1>3 DEF Decide
  <2> QED
    BY <1>1, <1>2, <2>1, <2>2, GoIs, UsedIs
<1>4. CASE Complete(t)
  <2>1. Go(t, "done") \/ Go(t, "failed")
    BY <1>4 DEF Complete
  <2>2. task' \in [Tasks -> Calls] /\ Alone(t)
    BY <1>1, <2>1, GoIs DEF Places
  <2> QED
    BY <1>1, <1>2, <1>4, <2>2 DEF Complete, web
<1> QED
  BY <1>3, <1>4 DEF DecideStep


-----------------------------------------------------------------------------
(* Mailboxes connected, revoked and made the default.                       *)

\* What a connect may do to the row of its mailbox: it stores its grant, under a
\* version the mailbox never had, and notes the grant it replaces.
ConnectWrites(t) ==
  LET m == asked[t].mailbox
  IN  \/ account' = account /\ minted' = minted /\ task'[t].pc # "record"
      \/ /\ task[t].pc \in {"insert", "reconnect"}
         /\ \A b \in Mailboxes \ {m} : account'[b] = account[b]
         /\ account'[m].status = "active" /\ account'[m].refresh = task[t].grant
         /\ account'[m].access = task[t].grant
         /\ account[m].status = "absent" \/ account'[m].version = account[m].version + 1
         /\ minted' = minted \cup {<<m, account'[m].version, task[t].grant>>}
         /\ live' = live /\ abandoned \subseteq abandoned'
         /\ account[m].refresh \in abandoned' \cup {None}

ConnectFrame(t) ==
  /\ asked[t].kind = "connect" /\ asked[t].mailbox \in Mailboxes /\ asked[t].state \in States
  /\ task' \in [Tasks -> Calls] /\ Alone(t) /\ state' \in [States -> OneUseStates]
  /\ account' \in [Mailboxes -> Accounts] /\ minted' \subseteq Mailboxes \X Nat \X Nat
  /\ live' \subseteq Nat /\ abandoned' \subseteq Nat /\ grants' \in Nat
  /\ ConnectWrites(t)
  /\ UNCHANGED <<session, registration, asked>>

LEMMA WithDefaultIs ==
  ASSUME NEW row \in Accounts, NEW d \in BOOLEAN
  PROVE  LET new == [row EXCEPT !.default = d]
         IN  /\ new \in Accounts /\ new.status = row.status /\ new.version = row.version
             /\ new.refresh = row.refresh /\ new.access = row.access
BY DEF Accounts

LEMMA StoredIs ==
  ASSUME TypeOK, NEW t \in Tasks, asked[t].mailbox \in Mailboxes, NEW row \in Accounts,
         task[t].grant \in Nat, row.refresh = task[t].grant, Stored(t, row)
  PROVE  /\ task' \in [Tasks -> Calls] /\ Alone(t)
         /\ account' \in [Mailboxes -> Accounts] /\ account'[asked[t].mailbox] = row
         /\ \A b \in Mailboxes \ {asked[t].mailbox} : account'[b] = account[b]
         /\ minted' \subseteq Mailboxes \X Nat \X Nat
         /\ minted' = minted \cup {<<asked[t].mailbox, row.version, task[t].grant>>}
<1>1. /\ account \in [Mailboxes -> Accounts] /\ task \in [Tasks -> Calls]
      /\ minted \subseteq Mailboxes \X Nat \X Nat
  BY DEF TypeOK
<1>2. /\ account' = [account EXCEPT ![asked[t].mailbox] = row]
      /\ minted' = minted \cup {<<asked[t].mailbox, row.version, row.refresh>>}
      /\ Go(t, "record") \/ Go(t, "undo")
  BY DEF Stored
<1>3. task' \in [Tasks -> Calls] /\ Alone(t)
  BY <1>1, <1>2, GoIs DEF Places
<1>4. row.version \in Nat
  BY RowFields
<1> QED
  BY <1>1, <1>2, <1>3, <1>4, AccountIs

LEMMA NewRowIs ==
  ASSUME TypeOK, NEW t \in Tasks, asked[t].state \in States, task[t].grant \in Nat
  PROVE  /\ NewRow(t) \in Accounts /\ NewRow(t).status = "active"
         /\ NewRow(t).refresh = task[t].grant /\ NewRow(t).access = task[t].grant
<1> DEFINE a == state[asked[t].state].alias
           g == task[t].grant
           d == ~\E m \in Mailboxes : account[m].default
<1>1. a \in Aliases \cup {None} /\ g \in Nat /\ d \in BOOLEAN
  BY DEF TypeOK, OneUseStates
<1>2. NewRow(t) = [NoAccount EXCEPT !.status = "active", !.refresh = g, !.access = g, !.fresh = TRUE,
                     !.alias = a, !.default = d]
  BY DEF NewRow
<1> HIDE DEF a, g, d
<1> DEFINE r == [status |-> "active", version |-> 0, refresh |-> g, access |-> g, fresh |-> TRUE, old |-> FALSE,
                 default |-> d, alias |-> a]
<1>4. NewRow(t) = r
  BY <1>2 DEF NoAccount
<1>5. r \in Accounts /\ r.status = "active" /\ r.refresh = g /\ r.access = g
  BY <1>1 DEF Accounts
<1>3. NewRow(t) \in Accounts /\ NewRow(t).status = "active" /\ NewRow(t).refresh = g /\ NewRow(t).access = g
  BY <1>4, <1>5
<1> QED
  BY <1>3 DEF g

LEMMA ConnectDoes ==
  ASSUME TypeOK, AskedOK, RowsOK, Connects, NEW t \in Tasks, ConnectStep(t)
  PROVE  ConnectFrame(t)
<1> DEFINE m == asked[t].mailbox
<1>1. /\ account \in [Mailboxes -> Accounts] /\ task \in [Tasks -> Calls] /\ state \in [States -> OneUseStates]
      /\ minted \subseteq Mailboxes \X Nat \X Nat
      /\ live \subseteq Nat /\ abandoned \subseteq Nat /\ grants \in Nat
  BY DEF TypeOK
<1>2. asked[t].kind = "connect" /\ UNCHANGED <<session, registration, asked>>
  BY DEF ConnectStep, ConnectConsume, Exchange, Verify, Lookup, StoreFails, Reconnect, Insert, Record, Undo, At, web
<1>3. m \in Mailboxes /\ asked[t].state \in States
  BY <1>2 DEF AskedOK, AskOK
<1>4. task[t].pc \in {"insert", "reconnect", "undo"} => task[t].grant \in Nat
  BY <1>1, <1>2 DEF Connects, ConnectBy
<1>5. ASSUME account' = account, minted' = minted, UNCHANGED google, state' \in [States -> OneUseStates],
             \E pc \in Places \ {"record"} : Go(t, pc)
      PROVE  ConnectFrame(t)
  BY <1>1, <1>2, <1>3, <1>5, GoIs DEF ConnectFrame, ConnectWrites, google
<1>6. CASE ConnectConsume(t)
  <2>1. state' = Used(asked[t].state) \/ state' = state
    BY <1>6 DEF ConnectConsume
  <2>2. state' \in [States -> OneUseStates]
    BY <1>1, <1>3, <2>1, UsedIs
  <2>3. \E pc \in Places \ {"record"} : Go(t, pc)
    BY <1>6 DEF ConnectConsume, Places
  <2> QED
    BY <1>5, <1>6, <2>2, <2>3 DEF ConnectConsume
<1>7. CASE Exchange(t)
  <2>1. \/ Go(t, "failed") /\ UNCHANGED google
        \/ /\ grants' = grants + 1 /\ live' = live \cup {grants + 1}
           /\ \/ /\ task' = [task EXCEPT ![t].pc = "verify", ![t].grant = grants + 1]
                 /\ abandoned' = abandoned
              \/ Go(t, "failed") /\ abandoned' = abandoned \cup {grants + 1}
    BY <1>7 DEF Exchange
  <2>2. grants' \in Nat /\ live' \subseteq Nat /\ abandoned' \subseteq Nat
    BY <1>1, <2>1 DEF google
  <2>3. task' \in [Tasks -> Calls] /\ Alone(t) /\ task'[t].pc # "record"
    <3>1. "verify" \in Places /\ "failed" \in Places /\ grants + 1 \in Nat
      BY <1>1 DEF Places
    <3> QED
      BY <1>1, <2>1, <3>1, GoIs, GrantIs
  <2> QED
    BY <1>1, <1>2, <1>3, <1>7, <2>2, <2>3 DEF ConnectFrame, ConnectWrites, Exchange, web
<1>8. CASE Verify(t)
  BY <1>1, <1>5, <1>8 DEF Verify, web, Places
<1>9. CASE Lookup(t)
  BY <1>1, <1>5, <1>9 DEF Lookup, web, Places
<1>10. CASE StoreFails(t)
  BY <1>1, <1>5, <1>10 DEF StoreFails, web, Places
<1>11. CASE Record(t)
  BY <1>1, <1>5, <1>11 DEF Record, web, Places
<1>12. CASE Undo(t)
  <2>1. Go(t, "failed") /\ Tell(task[t].grant) /\ task[t].pc = "undo" /\ UNCHANGED <<account, grants, web, minted>>
    BY <1>12 DEF Undo, At
  <2>2. live' \subseteq Nat /\ abandoned' \subseteq Nat
    BY <1>1, <1>4, <2>1 DEF Tell
  <2>3. task' \in [Tasks -> Calls] /\ Alone(t) /\ task'[t].pc # "record"
    BY <1>1, <2>1, GoIs DEF Places
  <2> QED
    BY <1>1, <1>2, <1>3, <2>1, <2>2, <2>3 DEF ConnectFrame, ConnectWrites, web
<1>13. CASE Reconnect(t)
  <2> DEFINE row == account[m]
             g == task[t].grant
             new == [row EXCEPT !.status = "active", !.version = @ + 1, !.refresh = g,
                                !.access = g, !.fresh = TRUE, !.old = FALSE]
  <2>1. /\ Stored(t, new) /\ abandoned' = abandoned \cup ({row.refresh} \ {None})
        /\ UNCHANGED <<live, grants, web>> /\ task[t].pc = "reconnect"
    BY <1>13 DEF Reconnect, At
  <2>2. row \in Accounts /\ g \in Nat /\ row.refresh \in Nat \cup {None}
    BY <1>1, <1>3, <1>4, <2>1, RowFields
  <2> DEFINE v == row.version + 1
  <2>6. v \in Nat
    BY <2>2, RowFields
  <2> HIDE DEF g, row, v
  <2>7. new = [row EXCEPT !.status = "active", !.version = v, !.refresh = g, !.access = g, !.fresh = TRUE, !.old = FALSE]
    BY DEF v
  <2> HIDE DEF new
  <2>3. new \in Accounts /\ new.refresh = g /\ new.access = g /\ new.status = "active" /\ new.version = v
    BY <2>2, <2>6, <2>7 DEF Accounts
  <2> HIDE DEF new
  <2>4. /\ task' \in [Tasks -> Calls] /\ Alone(t)
        /\ account' \in [Mailboxes -> Accounts] /\ account'[m] = new
        /\ \A b \in Mailboxes \ {m} : account'[b] = account[b]
        /\ minted' \subseteq Mailboxes \X Nat \X Nat
        /\ minted' = minted \cup {<<m, new.version, g>>}
    BY <1>3, <2>1, <2>2, <2>3, StoredIs DEF g
  <2>5. abandoned' \subseteq Nat /\ row.refresh \in abandoned' \cup {None}
    BY <1>1, <2>1, <2>2
  <2> QED
    BY <1>1, <1>2, <1>3, <2>1, <2>3, <2>4, <2>5 DEF ConnectFrame, ConnectWrites, web, g, row, v
<1>14. CASE Insert(t)
  <2>1. task[t].pc = "insert" /\ UNCHANGED <<google, web>>
    BY <1>14 DEF Insert, At
  <2>2. CASE account[m] = NoAccount /\ ~AliasTaken(t)
    <3>1. Stored(t, NewRow(t))
      BY <1>14, <2>2 DEF Insert
    <3>2. /\ NewRow(t) \in Accounts /\ NewRow(t).status = "active"
          /\ NewRow(t).refresh = task[t].grant /\ NewRow(t).access = task[t].grant
      BY <1>3, <1>4, <2>1, NewRowIs
    <3>3. /\ task' \in [Tasks -> Calls] /\ Alone(t)
          /\ account' \in [Mailboxes -> Accounts] /\ account'[m] = NewRow(t)
          /\ \A b \in Mailboxes \ {m} : account'[b] = account[b]
          /\ minted' \subseteq Mailboxes \X Nat \X Nat
          /\ minted' = minted \cup {<<m, NewRow(t).version, task[t].grant>>}
      BY <1>3, <1>4, <2>1, <3>1, <3>2, StoredIs
    <3>4. account[m].status = "absent" /\ account[m].refresh = None
      BY <2>2 DEF NoAccount
    <3> QED
      BY <1>1, <1>2, <1>3, <2>1, <3>2, <3>3, <3>4 DEF ConnectFrame, ConnectWrites, google, web
  <2>3. CASE ~(account[m] = NoAccount /\ ~AliasTaken(t))
    <3>1. UNCHANGED <<account, minted>> /\ (Go(t, "undo") \/ Go(t, "lookup"))
      BY <1>14, <2>3 DEF Insert
    <3> QED
      BY <1>1, <1>5, <2>1, <3>1 DEF web, Places
  <2> QED
    BY <2>2, <2>3
<1> QED
  BY <1>6, <1>7, <1>8, <1>9, <1>10, <1>11, <1>12, <1>13, <1>14 DEF ConnectStep

\* What a revocation may do to the row of its mailbox.
RevokeWrites(t) ==
  LET m == asked[t].mailbox
  IN  \/ account' = account
      \/ /\ task[t].pc = "wipe" /\ account[m].version = task[t].row.version
         /\ \/ task'[t].pc = IF task[t].row.refresh = None THEN "others" ELSE "tell"
            \/ task'[t].pc = "failed" /\ task[t].row.refresh \in abandoned' \cup {None}
         /\ task'[t].row = task[t].row
         /\ \A b \in Mailboxes \ {m} : account'[b] = account[b]
         /\ account'[m].status = "revoked" /\ account'[m].version = account[m].version + 1
         /\ account'[m].refresh = None /\ account'[m].access = None

RevokeFrame(t) ==
  /\ asked[t].kind = "revoke" /\ asked[t].mailbox \in Mailboxes
  /\ task' \in [Tasks -> Calls] /\ Alone(t)
  /\ session' \in [Sessions -> WebSessions] /\ NoLogin
  /\ account' \in [Mailboxes -> Accounts] /\ live' \subseteq Nat /\ abandoned' \subseteq Nat
  /\ RevokeWrites(t)
  /\ task[t].pc # "tell" => live' = live /\ abandoned \subseteq abandoned'
  /\ task[t].pc \notin {"wipe", "tell"} => abandoned' = abandoned
  /\ UNCHANGED <<grants, state, registration, asked, minted>>

LEMMA RevokeDoes ==
  ASSUME TypeOK, AskedOK, Revocations, NEW t \in Tasks, RevokeStep(t)
  PROVE  RevokeFrame(t)
<1> DEFINE m == asked[t].mailbox
<1>1. /\ account \in [Mailboxes -> Accounts] /\ task \in [Tasks -> Calls] /\ session \in [Sessions -> WebSessions]
      /\ live \subseteq Nat /\ abandoned \subseteq Nat
  BY DEF TypeOK
<1>2. asked[t].kind = "revoke" /\ UNCHANGED <<grants, state, registration, asked, minted>>
  BY DEF RevokeStep, RevokeLoad, RevokeWipe, RevokeTell, RevokeOthers, At, web, google
<1>3. m \in Mailboxes
  BY <1>2 DEF AskedOK, AskOK
<1>4. CASE RevokeLoad(t)
  <2>1. UNCHANGED <<account, google, web>>
    BY <1>4 DEF RevokeLoad
  <2>2. task' \in [Tasks -> Calls] /\ Alone(t)
    BY <1>1, <1>3, <1>4, RevokeLoadIs
  <2> QED
    BY <1>1, <1>2, <1>3, <2>1, <2>2, StaysNoLogin DEF RevokeFrame, RevokeWrites, google, web
<1>5. CASE RevokeWipe(t)
  <2>1. UNCHANGED <<live, grants, web>> /\ task[t].pc = "wipe"
    BY <1>5 DEF RevokeWipe, At
  <2>2. CASE MayWipe(t)
    <3> DEFINE next == IF task[t].row.refresh = None THEN "others" ELSE "tell"
               v == account[m].version + 1
               most == [account[m] EXCEPT !.status = "revoked", !.version = v, !.refresh = None, !.access = None,
                           !.fresh = FALSE, !.old = FALSE]
               new == [most EXCEPT !.default = FALSE]
    <3>0. PICK pc \in {next, "failed"} :
            /\ Go(t, pc)
            /\ \/ pc = next /\ abandoned' = abandoned
               \/ pc = "failed" /\ abandoned' = abandoned \cup ({task[t].row.refresh} \ {None})
      BY <1>5, <2>2 DEF RevokeWipe
    <3>10. abandoned \subseteq abandoned' /\ abandoned' \subseteq Nat
      <4>1. task[t].row \in Accounts
        BY <1>1, CallFields
      <4>2. task[t].row.refresh \in Nat \cup {None}
        BY <4>1, RowFields
      <4> QED
        BY <1>1, <3>0, <4>2
    <3>1. account' = [account EXCEPT ![m] =
             [account[m] EXCEPT !.status = "revoked", !.version = v, !.default = FALSE,
                                !.refresh = None, !.access = None, !.fresh = FALSE, !.old = FALSE]]
      BY <1>5, <2>2 DEF RevokeWipe, Wiped
    <3>2. account[m] \in Accounts /\ v \in Nat
      BY <1>1, <1>3, RowFields
    <3> HIDE DEF v
    <3>8. /\ most \in Accounts /\ most.status = "revoked" /\ most.version = v
          /\ most.refresh = None /\ most.access = None
      BY <3>2 DEF Accounts
    <3>9. new = [account[m] EXCEPT !.status = "revoked", !.version = v, !.default = FALSE,
                                   !.refresh = None, !.access = None, !.fresh = FALSE, !.old = FALSE]
      BY <3>2 DEF Accounts
    <3> HIDE DEF most
    <3>3. /\ new \in Accounts /\ new.status = "revoked" /\ new.version = v
          /\ new.refresh = None /\ new.access = None
      BY <3>8, WithDefaultIs
    <3> HIDE DEF new
    <3>4. /\ account' \in [Mailboxes -> Accounts] /\ account'[m] = new
          /\ \A b \in Mailboxes \ {m} : account'[b] = account[b]
      BY <1>1, <1>3, <3>1, <3>3, <3>9, AccountIs
    <3>5. pc \in Places
      BY DEF Places
    <3> HIDE DEF next
    <3>6. task' \in [Tasks -> Calls] /\ Alone(t) /\ task'[t].pc = pc /\ task'[t].row = task[t].row
      BY <1>1, <3>0, <3>5, GoIs
    <3>7. RevokeWrites(t)
      BY <2>1, <2>2, <3>0, <3>3, <3>4, <3>6 DEF RevokeWrites, MayWipe, next, v
    <3> QED
      BY <1>1, <1>2, <1>3, <2>1, <3>4, <3>6, <3>7, <3>10, StaysNoLogin DEF RevokeFrame, web
  <2>3. CASE ~MayWipe(t)
    <3>1. account' = account /\ abandoned' = abandoned /\ (Go(t, "failed") \/ Go(t, "load"))
      BY <1>5, <2>3 DEF RevokeWipe
    <3>2. task' \in [Tasks -> Calls] /\ Alone(t)
      BY <1>1, <3>1, GoIs DEF Places
    <3> QED
      BY <1>1, <1>2, <1>3, <2>1, <3>1, <3>2, StaysNoLogin DEF RevokeFrame, RevokeWrites, web
  <2> QED
    BY <2>2, <2>3
<1>6. CASE RevokeTell(t)
  <2>1. /\ Go(t, "others") /\ Tell(task[t].row.refresh) /\ UNCHANGED <<account, web>> /\ task[t].pc = "tell"
    BY <1>6 DEF RevokeTell, At
  <2>2. task[t].row.refresh \in Nat
    BY <1>1, <1>2, <2>1, CallFields, RowFields DEF Revocations, RevocationBy
  <2>3. live' \subseteq Nat /\ abandoned' \subseteq Nat
    BY <1>1, <2>1, <2>2 DEF Tell
  <2>4. task' \in [Tasks -> Calls] /\ Alone(t)
    BY <1>1, <2>1, GoIs DEF Places
  <2> QED
    BY <1>1, <1>2, <1>3, <2>1, <2>3, <2>4, StaysNoLogin DEF RevokeFrame, RevokeWrites, web
<1>7. CASE RevokeOthers(t)
  <2>1. /\ Go(t, "done") /\ UNCHANGED <<account, google>> /\ session' = OthersRevoked(task[t].session)
    BY <1>7 DEF RevokeOthers
  <2>2. task' \in [Tasks -> Calls] /\ Alone(t)
    BY <1>1, <2>1, GoIs DEF Places
  <2>3. session' \in [Sessions -> WebSessions] /\ NoLogin
    BY <1>1, <2>1, OthersEnd
  <2> QED
    BY <1>1, <1>2, <1>3, <2>1, <2>2, <2>3 DEF RevokeFrame, RevokeWrites, google
<1> QED
  BY <1>4, <1>5, <1>6, <1>7 DEF RevokeStep

\* The rows keep their credentials.
Unmoved ==
  \A m \in Mailboxes :
    /\ account'[m].status = account[m].status /\ account'[m].version = account[m].version
    /\ account'[m].refresh = account[m].refresh /\ account'[m].access = account[m].access
    /\ account[m] = NoAccount => account'[m] = NoAccount

LEMMA NoDefault == [NoAccount EXCEPT !.default = FALSE] = NoAccount
<1>1. /\ NoAccount.default = FALSE /\ "default" \in DOMAIN NoAccount
      /\ NoAccount = [y \in DOMAIN NoAccount |-> NoAccount[y]]
  BY DEF NoAccount
<1> QED
  BY <1>1

LEMMA DefaultDoes ==
  ASSUME TypeOK, AskedOK, Defaults, RowsOK, NEW t \in Tasks, DefaultStep(t)
  PROVE  /\ asked[t].kind = "default" /\ asked[t].mailbox \in Mailboxes
         /\ task' \in [Tasks -> Calls] /\ Alone(t) /\ account' \in [Mailboxes -> Accounts] /\ Unmoved
         /\ task'[t].pc = "set" => account[asked[t].mailbox].status = "active"
         /\ UNCHANGED <<google, web, registration, asked, minted>>
<1> DEFINE m == asked[t].mailbox
<1>1. /\ account \in [Mailboxes -> Accounts] /\ task \in [Tasks -> Calls]
      /\ asked[t].kind = "default" /\ UNCHANGED <<google, web, registration, asked, minted>>
  BY DEF TypeOK, DefaultStep, ReadDefault, SetDefault, At
<1>2. m \in Mailboxes
  BY <1>1 DEF AskedOK, AskOK
<1>3. CASE ReadDefault(t)
  <2>1. account' = account /\ (Go(t, "failed") \/ (Go(t, "set") /\ account[m].status = "active"))
    BY <1>3 DEF ReadDefault
  <2>2. /\ task' \in [Tasks -> Calls] /\ Alone(t)
        /\ task'[t].pc = "failed" \/ account[m].status = "active"
    BY <1>1, <2>1, GoIs DEF Places
  <2> QED
    BY <1>1, <1>2, <2>1, <2>2 DEF Unmoved
<1>4. CASE SetDefault(t)
  <2>1. /\ Go(t, "done") /\ At(t, {"default"}, "set")
        /\ account' = [b \in Mailboxes |-> [account[b] EXCEPT !.default = (b = m)]]
    BY <1>4 DEF SetDefault
  <2>2. task' \in [Tasks -> Calls] /\ Alone(t) /\ task'[t].pc = "done"
    BY <1>1, <2>1, GoIs DEF Places
  <2>3. account[m].status # "absent"
    BY <2>1 DEF Defaults, DefaultBy
  <2>4. ASSUME NEW b \in Mailboxes
        PROVE  /\ account'[b] \in Accounts
               /\ account'[b].status = account[b].status /\ account'[b].version = account[b].version
               /\ account'[b].refresh = account[b].refresh /\ account'[b].access = account[b].access
               /\ account[b] = NoAccount => account'[b] = NoAccount
    <3>1. account[b] \in Accounts /\ account'[b] = [account[b] EXCEPT !.default = (b = m)]
      BY <1>1, <2>1
    <3>2. account[b] = NoAccount => b # m
      BY <2>3 DEF NoAccount
    <3>3. /\ account'[b] \in Accounts
          /\ account'[b].status = account[b].status /\ account'[b].version = account[b].version
          /\ account'[b].refresh = account[b].refresh /\ account'[b].access = account[b].access
      BY <3>1 DEF Accounts
    <3>4. account[b] = NoAccount => account'[b] = NoAccount
      <4>1. account[b] = NoAccount => account'[b] = [NoAccount EXCEPT !.default = FALSE]
        BY <3>1, <3>2
      <4> QED
        BY <4>1, NoDefault
    <3> QED
      BY <3>3, <3>4
  <2>5. account' \in [Mailboxes -> Accounts] /\ Unmoved
    BY <2>1, <2>4 DEF Unmoved
  <2> QED
    BY <1>1, <1>2, <2>2, <2>5
<1> QED
  BY <1>3, <1>4 DEF DefaultStep


-----------------------------------------------------------------------------
(* The companion.                                                           *)

LEMMA CompanionDoes ==
  ASSUME TypeOK, Companion, NEW t \in Tasks, CompanionStep(t)
  PROVE  /\ asked[t].kind = "companion" /\ task' \in [Tasks -> Calls] /\ Alone(t)
         /\ setting' \in Registrations /\ leased' \in BOOLEAN /\ clients' \subseteq [id : Tasks, name : Tasks]
         /\ Companion'
         /\ UNCHANGED <<account, google, web, asked, minted>>
<1>1. /\ task \in [Tasks -> Calls] /\ setting \in Registrations /\ leased \in BOOLEAN
      /\ clients \subseteq [id : Tasks, name : Tasks]
      /\ task[t].grant \in Nat \cup Tasks \cup {None} /\ task[t].seen \in Registrations
  BY CallFields DEF TypeOK
<1>2. asked[t].kind = "companion" /\ UNCHANGED <<account, google, web, asked, minted>>
  BY DEF CompanionStep, CompanionLook, Reserve, CreateClient, Found, Wait, Claim, ListClients, RecordClient,
     CompareClient, At
<1>3. /\ RegisteringBy(t) /\ Attempted
      /\ setting.id \in Tasks \cup {None}
  BY <1>1 DEF Companion, Registering, Registrations
<1>4. ASSUME Alone(t), Attempted', RegisteringBy(t)',
             \A u \in Tasks \ {t} : asked[u].kind = "companion" =>
               /\ task[u].pc = "create" => /\ setting' # NoAttempt /\ clients' = {}
                                           /\ asked[t].kind = "companion" => task'[t].pc # "create"
               /\ task[u].pc = "record" => \E c \in clients' : c.id = task[u].grant
               /\ task[u].pc = "done" => setting'.id = setting.id
      PROVE  Companion'
  <2>1. ASSUME NEW u \in Tasks \ {t}
        PROVE  RegisteringBy(u)'
    <3>1. RegisteringBy(u) /\ task'[u] = task[u] /\ asked' = asked
      BY <1>2, <1>4 DEF Companion, Registering, Alone
    <3>2. asked[u].kind = "companion" /\ task[u].pc = "create" =>
            \A v \in Tasks \ {u} : ~(asked[v].kind = "companion" /\ task'[v].pc = "create")
      BY <1>4, <3>1 DEF RegisteringBy, At, Alone
    <3> QED
      BY <1>4, <3>1, <3>2 DEF RegisteringBy, At
  <2> QED
    BY <1>4, <2>1 DEF Companion, Registering
\* A step that only goes on.
<1>5. ASSUME UNCHANGED registration, task' \in [Tasks -> Calls], Alone(t),
             task'[t].pc \in {"reserve", "failed", "found", "wait", "claim", "list", "record", "compare", "done"},
             task'[t].pc \in {"claim", "list", "record"} => task'[t].seen.id = None,
             task'[t].pc = "record" => \E c \in clients : c.id = task'[t].grant,
             task'[t].pc = "compare" => task'[t].grant \in Tasks,
             task'[t].pc = "done" => setting.id # None /\ task'[t].grant = setting.id
      PROVE  /\ setting' \in Registrations /\ leased' \in BOOLEAN /\ clients' \subseteq [id : Tasks, name : Tasks]
             /\ Companion'
  <2>1. Attempted' /\ setting' = setting /\ leased' = leased /\ clients' = clients
    BY <1>3, <1>5 DEF Attempted, registration
  <2>2. RegisteringBy(t)'
    BY <1>2, <1>5, <2>1 DEF RegisteringBy
  <2>3. \A u \in Tasks \ {t} : asked[u].kind = "companion" =>
               /\ task[u].pc = "create" => /\ setting' # NoAttempt /\ clients' = {}
                                           /\ asked[t].kind = "companion" => task'[t].pc # "create"
               /\ task[u].pc = "record" => \E c \in clients' : c.id = task[u].grant
               /\ task[u].pc = "done" => setting'.id = setting.id
    BY <1>5, <2>1 DEF Companion, Registering, RegisteringBy
  <2> QED
    BY <1>1, <1>4, <1>5, <2>1, <2>2, <2>3
<1>6. CASE CompanionLook(t)
  <2>1. UNCHANGED registration /\ (Go(t, "reserve") \/ (setting.id # None /\ Answer(t, setting.id)))
    BY <1>6 DEF CompanionLook
  <2>2. /\ task' \in [Tasks -> Calls] /\ Alone(t)
        /\ \/ task'[t].pc = "reserve"
           \/ setting.id # None /\ task'[t].pc = "done" /\ task'[t].grant = setting.id
    <3>1. "reserve" \in Places /\ "done" \in Places /\ setting.id \in Nat \cup Tasks \cup {None}
      BY <1>3 DEF Places
    <3> QED
      BY <1>1, <2>1, <3>1, GoIs, GrantIs DEF Answer
  <2> QED
    BY <1>2, <1>5, <2>1, <2>2
<1>7. CASE Reserve(t)
  <2>1. CASE setting = NoAttempt
    <3>1. /\ setting' = Own(t) /\ leased' = TRUE /\ clients' = clients
          /\ task' = [task EXCEPT ![t].pc = "create", ![t].seen = Own(t)]
      BY <1>7, <2>1 DEF Reserve
    <3>2. Own(t) \in Registrations /\ Own(t).id = None /\ Own(t) # NoAttempt /\ Own(t).marker = t
      BY NoneIsNothing DEF Own, Registrations, NoAttempt
    <3>3. "create" \in Places
      BY DEF Places
    <3>4. task' \in [Tasks -> Calls] /\ Alone(t) /\ task'[t].pc = "create" /\ task'[t].seen = Own(t)
      <4>1. /\ task \in [Tasks -> Calls] /\ Own(t) \in Registrations
            /\ task' = [task EXCEPT ![t].pc = "create", ![t].seen = Own(t)]
        BY <1>1, <3>1, <3>2
      <4> QED
        BY <3>3, <4>1 DEF Calls, Alone
    <3>5. clients = {} /\ setting.id = None
      BY <1>3, <2>1 DEF Attempted, NoAttempt
    <3>6. \A u \in Tasks : asked[u].kind = "companion" => task[u].pc \notin {"create", "record", "done"}
      BY <2>1, <3>5 DEF Companion, Registering, RegisteringBy
    <3>7. Attempted'
      BY <3>1, <3>2, <3>5 DEF Attempted
    <3>8. \A u \in Tasks \ {t} : ~At(u, {"companion"}, "create")'
      BY <1>2, <3>4, <3>6 DEF Alone, At
    <3>9. RegisteringBy(t)'
      BY <3>1, <3>2, <3>4, <3>5, <3>8 DEF RegisteringBy
    <3> QED
      BY <1>1, <1>2, <1>4, <3>1, <3>2, <3>4, <3>6, <3>7, <3>9
  <2>2. CASE setting # NoAttempt
    <3>1. UNCHANGED registration /\ Go(t, "found")
      BY <1>7, <2>2 DEF Reserve, registration
    <3>2. task' \in [Tasks -> Calls] /\ Alone(t) /\ task'[t].pc = "found"
      BY <1>1, <3>1, GoIs DEF Places
    <3> QED
      BY <1>2, <1>5, <3>1, <3>2
  <2> QED
    BY <2>1, <2>2
<1>8. CASE CreateClient(t)
  <2>1. task[t].pc = "create" /\ setting' = setting /\ leased' = leased
    BY <1>8 DEF CreateClient, At
  <2>2. setting # NoAttempt /\ clients = {} /\ \A u \in Tasks \ {t} : ~At(u, {"companion"}, "create")
    BY <1>2, <1>3, <2>1 DEF RegisteringBy
  <2>3. setting.id = None
    BY <1>3, <2>2 DEF Attempted
  <2>4. \A u \in Tasks : asked[u].kind = "companion" => task[u].pc \notin {"record", "done"}
    BY <2>2, <2>3 DEF Companion, Registering, RegisteringBy
  <2>5. CASE clients' = clients
    <3>1. Go(t, "failed")
      <4>1. clients # clients \cup {[id |-> t, name |-> t]}
        BY <2>2
      <4> QED
        BY <1>8, <2>5, <4>1 DEF CreateClient
    <3>2. task' \in [Tasks -> Calls] /\ Alone(t) /\ task'[t].pc = "failed"
      BY <1>1, <3>1, GoIs DEF Places
    <3> QED
      BY <1>2, <1>5, <2>1, <2>5, <3>2 DEF registration
  <2>6. CASE clients' # clients
    <3>1. /\ clients' = {[id |-> t, name |-> t]}
          /\ \/ task' = [task EXCEPT ![t].pc = "record", ![t].grant = t]
             \/ Go(t, "failed")
      BY <1>8, <2>2, <2>6 DEF CreateClient
    <3>2. clients' \subseteq [id : Tasks, name : Tasks] /\ \E c \in clients' : c.id = t
      BY <3>1
    <3>3. "record" \in Places /\ "failed" \in Places /\ t \in Nat \cup Tasks \cup {None}
      BY DEF Places
    <3>4. /\ task' \in [Tasks -> Calls] /\ Alone(t)
          /\ task'[t].pc = "failed" \/ (task'[t].pc = "record" /\ task'[t].grant = t /\ task'[t].seen = task[t].seen)
      BY <1>1, <3>1, <3>3, GoIs, GrantIs
    <3>5. Attempted'
      BY <2>1, <2>2, <2>3, <3>1 DEF Attempted
    <3>6. task[t].seen.id = None
      BY <1>2, <1>3, <2>1 DEF RegisteringBy
    <3>7. RegisteringBy(t)'
      BY <3>2, <3>4, <3>6 DEF RegisteringBy
    <3>8. \A u \in Tasks \ {t} : asked[u].kind = "companion" => task[u].pc \notin {"create", "record", "done"}
      BY <2>2, <2>4 DEF At
    <3> QED
      BY <1>1, <1>2, <1>4, <2>1, <3>2, <3>4, <3>5, <3>7, <3>8
  <2> QED
    BY <2>5, <2>6
<1>9. CASE Found(t)
  <2>1. UNCHANGED registration
    BY <1>9 DEF Found
  <2>2. CASE setting.id # None
    <3>1. Answer(t, setting.id)
      BY <1>9, <2>2 DEF Found
    <3>2. "done" \in Places /\ setting.id \in Nat \cup Tasks \cup {None}
      BY <1>3 DEF Places
    <3>3. task' \in [Tasks -> Calls] /\ Alone(t) /\ task'[t].pc = "done" /\ task'[t].grant = setting.id
      BY <1>1, <3>1, <3>2 DEF Calls, Alone, Answer
    <3> QED
      BY <1>2, <1>5, <2>1, <2>2, <3>3
  <2>3. CASE setting.id = None
    <3> DEFINE pc == IF leased THEN "wait" ELSE "claim"
    <3>1. task' = [task EXCEPT ![t].pc = pc, ![t].seen = setting]
      BY <1>9, <2>3 DEF Found
    <3>2. pc \in Places /\ pc \in {"wait", "claim"}
      BY DEF Places
    <3> HIDE DEF pc
    <3>3. task' \in [Tasks -> Calls] /\ Alone(t) /\ task'[t].pc = pc /\ task'[t].seen = setting
      BY <1>1, <3>1, <3>2 DEF Calls, Alone
    <3> QED
      BY <1>2, <1>5, <2>1, <2>3, <3>2, <3>3
  <2> QED
    BY <2>2, <2>3
<1>10. CASE Wait(t)
  <2>1. UNCHANGED registration /\ (Go(t, "failed") \/ (setting.id # None /\ Answer(t, setting.id)))
    BY <1>10 DEF Wait
  <2>2. /\ task' \in [Tasks -> Calls] /\ Alone(t)
        /\ \/ task'[t].pc = "failed"
           \/ setting.id # None /\ task'[t].pc = "done" /\ task'[t].grant = setting.id
    <3>1. "failed" \in Places /\ "done" \in Places /\ setting.id \in Nat \cup Tasks \cup {None}
      BY <1>3 DEF Places
    <3> QED
      BY <1>1, <2>1, <3>1, GoIs, GrantIs DEF Answer
  <2> QED
    BY <1>2, <1>5, <2>1, <2>2
<1>11. CASE Claim(t)
  <2> DEFINE new == [setting EXCEPT !.fence = t]
  <2>1. CASE setting = task[t].seen
    <3>1. /\ setting' = new /\ leased' = TRUE /\ clients' = clients
          /\ task' = [task EXCEPT ![t].pc = "list", ![t].seen = new] /\ task[t].pc = "claim"
      BY <1>11, <2>1 DEF Claim, At
    <3>2. setting.id = None
      BY <1>2, <1>3, <2>1, <3>1 DEF RegisteringBy
    <3>3. new \in Registrations /\ new.id = None /\ new.fence = t
      BY <1>1, <3>2 DEF Registrations
    <3>4. new # NoAttempt
      BY <3>3, NoneIsNothing DEF NoAttempt
    <3> HIDE DEF new
    <3>5. "list" \in Places
      BY DEF Places
    <3>6. task' \in [Tasks -> Calls] /\ Alone(t) /\ task'[t].pc = "list" /\ task'[t].seen = new
      <4>1. /\ task \in [Tasks -> Calls] /\ new \in Registrations
            /\ task' = [task EXCEPT ![t].pc = "list", ![t].seen = new]
        BY <1>1, <3>1, <3>3
      <4> QED
        BY <3>5, <4>1 DEF Calls, Alone
    <3>7. Attempted'
      BY <1>3, <3>1, <3>3, <3>4 DEF Attempted
    <3>8. RegisteringBy(t)'
      BY <3>3, <3>6 DEF RegisteringBy
    <3>9. \A u \in Tasks \ {t} : asked[u].kind = "companion" =>
            /\ task[u].pc = "create" => clients = {}
            /\ task[u].pc = "record" => \E c \in clients : c.id = task[u].grant
            /\ task[u].pc # "done"
      BY <3>2 DEF Companion, Registering, RegisteringBy
    <3> QED
      BY <1>1, <1>2, <1>4, <3>1, <3>3, <3>4, <3>6, <3>7, <3>8, <3>9
  <2>2. CASE setting # task[t].seen
    <3>1. UNCHANGED registration /\ Go(t, "failed")
      BY <1>11, <2>2 DEF Claim, registration
    <3>2. task' \in [Tasks -> Calls] /\ Alone(t) /\ task'[t].pc = "failed"
      BY <1>1, <3>1, GoIs DEF Places
    <3> QED
      BY <1>2, <1>5, <3>1, <3>2
  <2> QED
    BY <2>1, <2>2
<1>12. CASE ListClients(t)
  <2>1. UNCHANGED registration /\ task[t].pc = "list"
    BY <1>12 DEF ListClients, At
  <2>2. task[t].seen.id = None
    BY <1>2, <1>3, <2>1 DEF RegisteringBy
  <2>3. CASE Go(t, "failed")
    <3>1. task' \in [Tasks -> Calls] /\ Alone(t) /\ task'[t].pc = "failed"
      BY <1>1, <2>3, GoIs DEF Places
    <3> QED
      BY <1>2, <1>5, <2>1, <3>1
  <2>4. CASE ~Go(t, "failed")
    <3>1. PICK c \in clients : task' = [task EXCEPT ![t].pc = "record", ![t].grant = c.id]
      BY <1>12, <2>4 DEF ListClients
    <3>2. "record" \in Places /\ c.id \in Nat \cup Tasks \cup {None}
      BY <1>1 DEF Places
    <3>3. /\ task' \in [Tasks -> Calls] /\ Alone(t) /\ task'[t].pc = "record"
          /\ task'[t].grant = c.id /\ task'[t].seen = task[t].seen
      BY <1>1, <3>1, <3>2 DEF Calls, Alone
    <3> QED
      BY <1>2, <1>5, <2>1, <2>2, <3>3
  <2> QED
    BY <2>3, <2>4
<1>13. CASE RecordClient(t)
  <2>1. task[t].pc = "record" /\ leased' = leased /\ clients' = clients
    BY <1>13 DEF RecordClient, At
  <2>2. PICK c \in clients : c.id = task[t].grant
    BY <1>2, <1>3, <2>1 DEF RegisteringBy
  <2>3. task[t].grant \in Tasks
    BY <1>1, <2>2
  <2>4. CASE setting = task[t].seen
    <3> DEFINE new == [NoAttempt EXCEPT !.id = task[t].grant]
    <3>1. setting' = new /\ Go(t, "done")
      BY <1>13, <2>4 DEF RecordClient
    <3>2. setting.id = None
      BY <1>2, <1>3, <2>1, <2>4 DEF RegisteringBy
    <3>3. new \in Registrations /\ new.id = task[t].grant
      BY <2>3 DEF Registrations, NoAttempt
    <3>4. new # NoAttempt /\ new.id # None
      BY <2>3, <3>3, NoneIsNothing DEF NoAttempt
    <3> HIDE DEF new
    <3>5. task' \in [Tasks -> Calls] /\ Alone(t) /\ task'[t].pc = "done" /\ task'[t].grant = task[t].grant
      BY <1>1, <3>1, GoIs DEF Places
    <3>6. Attempted'
      BY <1>3, <2>1, <2>2, <3>1, <3>3, <3>4 DEF Attempted
    <3>7. RegisteringBy(t)'
      BY <3>1, <3>3, <3>4, <3>5 DEF RegisteringBy
    <3>8. \A u \in Tasks \ {t} : asked[u].kind = "companion" =>
            /\ task[u].pc # "create"
            /\ task[u].pc = "record" => \E d \in clients : d.id = task[u].grant
            /\ task[u].pc # "done"
      BY <2>2, <3>2 DEF Companion, Registering, RegisteringBy
    <3> QED
      BY <1>1, <1>2, <1>4, <2>1, <3>1, <3>3, <3>5, <3>6, <3>7, <3>8
  <2>5. CASE setting # task[t].seen
    <3>1. UNCHANGED registration /\ Go(t, "compare")
      BY <1>13, <2>5 DEF RecordClient, registration
    <3>2. task' \in [Tasks -> Calls] /\ Alone(t) /\ task'[t].pc = "compare" /\ task'[t].grant = task[t].grant
      BY <1>1, <3>1, GoIs DEF Places
    <3> QED
      BY <1>2, <1>5, <2>3, <3>1, <3>2
  <2> QED
    BY <2>4, <2>5
<1>14. CASE CompareClient(t)
  <2>1. /\ UNCHANGED registration /\ task[t].pc = "compare"
        /\ Go(t, "failed") \/ (setting.id = task[t].grant /\ Go(t, "done"))
    BY <1>14 DEF CompareClient, At
  <2>2. task[t].grant # None
    BY <1>2, <1>3, <2>1, NoneIsNothing DEF RegisteringBy
  <2>3. /\ task' \in [Tasks -> Calls] /\ Alone(t) /\ task'[t].grant = task[t].grant
        /\ task'[t].pc = "failed" \/ (task'[t].pc = "done" /\ setting.id = task[t].grant)
    BY <1>1, <2>1, GoIs DEF Places
  <2> QED
    BY <1>2, <1>5, <2>1, <2>2, <2>3
<1> QED
  BY <1>6, <1>7, <1>8, <1>9, <1>10, <1>11, <1>12, <1>13, <1>14 DEF CompanionStep

LEMMA TimeDoes ==
  ASSUME TypeOK, Time
  PROVE  /\ account' \in [Mailboxes -> Accounts] /\ Unmoved
         /\ session' \in [Sessions -> WebSessions] /\ NoLogin /\ state' \in [States -> OneUseStates]
         /\ \A x \in States : state'[x].kind = state[x].kind /\ state'[x].used = state[x].used
                              /\ state'[x].session = state[x].session
                              /\ (state[x].used => state'[x].expired = state[x].expired)
         /\ leased' \in BOOLEAN /\ live' \subseteq live
         /\ UNCHANGED <<grants, abandoned, setting, clients, asked, task, minted>>
<1>1. /\ account \in [Mailboxes -> Accounts] /\ session \in [Sessions -> WebSessions]
      /\ state \in [States -> OneUseStates] /\ leased \in BOOLEAN
  BY DEF TypeOK
<1>2. account' = account => Unmoved
  BY DEF Unmoved
<1>3. CASE AccessTokenAges
  <2>1. PICK m \in Mailboxes : account[m].fresh /\ account' = [account EXCEPT ![m].fresh = FALSE]
    BY <1>3 DEF AccessTokenAges
  <2>2. account' \in [Mailboxes -> Accounts]
    BY <1>1, <2>1 DEF Accounts
  <2>3. ASSUME NEW b \in Mailboxes
        PROVE  /\ account'[b].status = account[b].status /\ account'[b].version = account[b].version
               /\ account'[b].refresh = account[b].refresh /\ account'[b].access = account[b].access
               /\ account[b] = NoAccount => account'[b] = NoAccount
    <3>1. account[b] \in Accounts
      BY <1>1
    <3>2. account[b] = NoAccount => b # m
      BY <2>1 DEF NoAccount
    <3> QED
      BY <1>1, <2>1, <3>1, <3>2 DEF Accounts
  <2>4. Unmoved
    BY <2>3 DEF Unmoved
  <2> QED
    BY <1>1, <1>3, <2>2, <2>4, StaysNoLogin DEF AccessTokenAges, google, web, registration
<1>4. CASE SessionAges
  <2>2. PICK s \in Sessions : \/ session' = [session EXCEPT ![s].alive = FALSE]
                              \/ session' = [session EXCEPT ![s].recent = FALSE]
    BY <1>4 DEF SessionAges
  <2>1. session' \in [Sessions -> WebSessions] /\ NoLogin
    <3>1. CASE session' = [session EXCEPT ![s].alive = FALSE]
      BY <1>1, <3>1, SessionEnds
    <3>2. CASE session' = [session EXCEPT ![s].recent = FALSE]
      BY <1>1, <3>2 DEF WebSessions, NoLogin
    <3> QED
      BY <2>2, <3>1, <3>2
  <2> QED
    BY <1>1, <1>2, <1>4, <2>1 DEF SessionAges, google, registration
<1>5. CASE StateExpires
  <2>1. /\ state' \in [States -> OneUseStates]
        /\ \A x \in States : state'[x].kind = state[x].kind /\ state'[x].used = state[x].used
                             /\ state'[x].session = state[x].session
                             /\ (state[x].used => state'[x].expired = state[x].expired)
    <3>1. PICK s \in States : ~state[s].used /\ state' = [state EXCEPT ![s].expired = TRUE]
      BY <1>5 DEF StateExpires
    <3>2. \A x \in States : state[x].used => state'[x] = state[x]
      BY <1>1, <3>1
    <3>3. /\ state' \in [States -> OneUseStates]
          /\ \A x \in States : state'[x].kind = state[x].kind /\ state'[x].used = state[x].used
                               /\ state'[x].session = state[x].session
      BY <1>1, <3>1 DEF OneUseStates
    <3> QED
      BY <3>2, <3>3
  <2> QED
    BY <1>1, <1>2, <1>5, <2>1, StaysNoLogin DEF StateExpires, google, registration
<1>6. CASE LeaseEnds
  BY <1>1, <1>2, <1>6, StaysNoLogin DEF LeaseEnds, google, web
<1>7. CASE GoogleRevokes
  <2>1. live' \subseteq live
    BY <1>7 DEF GoogleRevokes
  <2> QED
    BY <1>1, <1>2, <1>7, <2>1, StaysNoLogin DEF GoogleRevokes, web, registration
<1> QED
  BY <1>3, <1>4, <1>5, <1>6, <1>7 DEF Time


-----------------------------------------------------------------------------
(* One-use states.                                                          *)

\* A consumed state stays what it is, and so does the user of a session.
StatesStay ==
  \A x \in States : state[x].used =>
    /\ state'[x].used /\ state'[x].kind = state[x].kind /\ state'[x].session = state[x].session
    /\ state'[x].expired = state[x].expired
UsersStay == \A s \in Sessions : session[s].user # None => session'[s].user = session[s].user

LEMMA NoLoginUsers ==
  ASSUME NoLogin
  PROVE  UsersStay
BY DEF NoLogin, UsersStay

LEMMA SameStates ==
  ASSUME state' = state
  PROVE  StatesStay
BY DEF StatesStay

\* A request that holds a state goes on, or takes one that was free.
LEMMA WebStep ==
  ASSUME Web, AskedOK, NEW t \in Tasks, Alone(t), asked' = asked, StatesStay, UsersStay,
         Holds(t)' => \/ Holds(t)
                      \/ /\ ~state[asked[t].state].used /\ state'[asked[t].state].used
                         /\ ~state'[asked[t].state].expired
                         /\ state'[asked[t].state].kind \in Serves[asked[t].kind],
         LoggingInBy(t)'
  PROVE  Web'
<1>1. \A u \in Tasks : HeldBy(u) /\ LoggingInBy(u)
  BY DEF Web, HeldStates, LoggingIn
<1>2. \A u \in Tasks : Holds(u) \/ Holds(u)' => asked[u].state \in States
  BY DEF Holds, AskedOK, AskOK
<1>3. \A u \in Tasks \ {t} : Holds(u)' <=> Holds(u)
  BY DEF Alone, Holds
<1>4. ASSUME NEW u \in Tasks
      PROVE  HeldBy(u)'
  <2>1. CASE u # t
    BY <1>1, <1>2, <1>3, <2>1 DEF HeldBy, StatesStay
  <2>2. CASE u = t
    BY <1>1, <1>2, <1>3, <2>2 DEF HeldBy, StatesStay
  <2> QED
    BY <2>1, <2>2
<1>5. ASSUME NEW u \in Tasks \ {t}
      PROVE  LoggingInBy(u)'
  <2>1. CASE asked[u].kind = "callback" /\ task[u].pc \in {"login", "reauth", "create", "mark"}
    <3>1. state[asked[u].state].used /\ asked[u].state \in States
      BY <1>1, <1>2, <2>1 DEF Holds, HeldBy
    <3>2. asked[u].sub # None
      BY <2>1, NoneIsNothing DEF AskedOK, AskOK
    <3> QED
      BY <1>1, <2>1, <3>1, <3>2 DEF LoggingInBy, Alone, StatesStay, UsersStay
  <2>2. CASE ~(asked[u].kind = "callback" /\ task[u].pc \in {"login", "reauth", "create", "mark"})
    BY <2>2 DEF LoggingInBy, Alone
  <2> QED
    BY <2>1, <2>2
<1> QED
  BY <1>4, <1>5 DEF Web, HeldStates, LoggingIn

\* A step of a request that holds no state.
LEMMA WebStays ==
  ASSUME Web, AskedOK, NEW t \in Tasks, Alone(t), asked' = asked, StatesStay, UsersStay,
         asked[t].kind \notin {"callback", "connect", "decide"}
  PROVE  Web'
<1>1. ~Holds(t)' /\ LoggingInBy(t)'
  BY DEF Holds, LoggingInBy
<1> QED
  BY <1>1, WebStep

LEMMA PageWeb ==
  ASSUME TypeOK, AskedOK, Web, Connects, NEW t \in Tasks, PageFrame(t)
  PROVE  Web'
<1>1. Alone(t) /\ asked' = asked /\ UsersStay
  BY NoLoginUsers DEF PageFrame
<1>2. CASE asked[t].kind \in StartKinds
  <2>1. StatesStay
    <3>1. state' = state \/ (/\ state[asked[t].state] = NoState
                             /\ \A y \in States \ {asked[t].state} : state'[y] = state[y])
      BY <1>2 DEF PageFrame, PageMoves, StartKinds, FirstStep
    <3> QED
      BY <3>1 DEF StatesStay, NoState
  <2> QED
    BY <1>1, <1>2, <2>1, WebStays DEF StartKinds
<1>3. CASE asked[t].kind \in {"logout", "policy"} /\ state' = state
  BY <1>1, <1>3, WebStays, SameStates
<1>4. CASE /\ asked[t].kind \in DOMAIN FirstStep /\ task[t].pc = "start"
           /\ task'[t].pc \in {"failed", FirstStep[asked[t].kind]} /\ task'[t].grant = task[t].grant
           /\ UNCHANGED web
  <2>1. state' = state
    BY <1>4 DEF web
  <2>2. asked[t].kind = "connect" => task[t].grant = None
    BY <1>4 DEF Connects, ConnectBy
  <2>3. ~Holds(t)' /\ LoggingInBy(t)'
    BY <1>1, <1>4, <2>2 DEF Holds, LoggingInBy, FirstStep
  <2> QED
    BY <1>1, <2>1, <2>3, WebStep, SameStates
<1> QED
  BY <1>2, <1>3, <1>4 DEF PageFrame, PageMoves

LEMMA CallbackWeb ==
  ASSUME TypeOK, AskedOK, Web, NEW t \in Tasks, CallbackStep(t)
  PROVE  Web'
<1>1. /\ task \in [Tasks -> Calls] /\ state \in [States -> OneUseStates] /\ session \in [Sessions -> WebSessions]
      /\ LoggingInBy(t)
  BY DEF TypeOK, Web, LoggingIn
<1>2. asked[t].kind = "callback" /\ asked[t].state \in States /\ Alone(t) /\ asked' = asked
  BY CallbackDoes DEF CallbackFrame
<1>3. asked[t].cookie \in Sessions \cup {None} /\ asked[t].sub \in Identities
  BY <1>2 DEF AskedOK, AskOK
<1>4. session' = session => UsersStay
  BY DEF UsersStay
<1>5. task[t].pc \notin {"start", "failed"} => Holds(t)
  BY <1>2 DEF Holds
<1>6. CASE Callback(t)
  <2>1. task[t].pc = "start" /\ UsersStay
    BY <1>4, <1>6 DEF Callback, At
  <2>2. CASE state' = Used(asked[t].state) /\ Go(t, "identify") /\ \E k \in {"login", "reauth"} : Consumable(asked[t].state, k)
    <3>1. /\ state'[asked[t].state].used /\ state'[asked[t].state].kind = state[asked[t].state].kind
          /\ state'[asked[t].state].session = state[asked[t].state].session
          /\ state'[asked[t].state].expired = state[asked[t].state].expired
          /\ \A y \in States \ {asked[t].state} : state'[y] = state[y]
      BY <1>1, <1>2, <2>2, UsedIs
    <3>2. StatesStay
      BY <3>1 DEF StatesStay
    <3>3. task'[t].pc = "identify"
      BY <1>1, <2>2, GoIs DEF Places
    <3>4. LoggingInBy(t)'
      BY <3>3 DEF LoggingInBy
    <3>5. /\ ~state[asked[t].state].used /\ ~state'[asked[t].state].expired
          /\ state'[asked[t].state].kind \in Serves[asked[t].kind]
      BY <1>2, <2>2, <3>1 DEF Consumable, Serves
    <3> QED
      BY <1>2, <2>1, <3>1, <3>2, <3>4, <3>5, WebStep
  <2>3. CASE state' = state /\ Go(t, "failed")
    <3>1. task'[t].pc = "failed"
      BY <1>1, <2>3, GoIs DEF Places
    <3>2. LoggingInBy(t)' /\ ~Holds(t)'
      BY <1>2, <3>1 DEF LoggingInBy, Holds
    <3> QED
      BY <1>2, <2>1, <2>3, <3>2, WebStep, SameStates
  <2> QED
    BY <1>6, <2>2, <2>3 DEF Callback
<1>7. CASE Identify(t)
  <2>1. /\ Go(t, state[asked[t].state].kind) \/ Go(t, "failed")
        /\ task[t].pc = "identify" /\ state' = state /\ session' = session
    BY <1>7 DEF Identify, At, web
  <2>2. state[asked[t].state].kind \in {"login", "reauth"}
    BY <1>2, <2>1, HeldKind DEF Web
  <2>3. task'[t].pc \in {"failed", state[asked[t].state].kind}
    BY <1>1, <2>1, <2>2, GoIs DEF Places
  <2>4. LoggingInBy(t)'
    BY <1>2, <2>1, <2>2, <2>3 DEF LoggingInBy
  <2> QED
    BY <1>2, <1>4, <1>5, <2>1, <2>4, WebStep, SameStates
<1>8. CASE Reauth(t)
  <2> DEFINE pc == IF MayMark(t) THEN "mark" ELSE "failed"
  <2>1. /\ task' = [task EXCEPT ![t].pc = pc, ![t].session = asked[t].cookie]
        /\ task[t].pc = "reauth" /\ state' = state /\ session' = session
    BY <1>8 DEF Reauth, At, web
  <2>2. pc \in Places /\ ((pc = "mark" /\ MayMark(t)) \/ pc = "failed")
    BY DEF Places
  <2> HIDE DEF pc
  <2>3. task'[t].pc = pc /\ task'[t].session = asked[t].cookie
    BY <1>1, <1>3, <2>1, <2>2 DEF Calls
  <2>4. state[asked[t].state].kind = "reauth"
    BY <1>1, <1>2, <2>1 DEF LoggingInBy
  <2>5. LoggingInBy(t)'
    BY <1>2, <1>3, <2>1, <2>2, <2>3, <2>4 DEF LoggingInBy, MayMark, Readable
  <2> QED
    BY <1>2, <1>4, <1>5, <2>1, <2>5, WebStep, SameStates
<1>9. CASE Mark(t)
  <2>1. task[t].pc = "mark" /\ state' = state /\ Go(t, "done")
    BY <1>9 DEF Mark, At
  <2>2. UsersStay
    BY <1>1, <1>9 DEF Mark, UsersStay, WebSessions
  <2>3. task'[t].pc = "done"
    BY <1>1, <2>1, GoIs DEF Places
  <2>4. LoggingInBy(t)'
    BY <2>3 DEF LoggingInBy
  <2> QED
    BY <1>2, <1>5, <2>1, <2>2, <2>4, WebStep, SameStates
<1>10. CASE Login(t)
  <2>1. task[t].pc = "login" /\ state' = state /\ Go(t, "create")
    BY <1>10 DEF Login, At
  <2>2. UsersStay
    BY <1>1, <1>10 DEF Login, UsersStay, WebSessions
  <2>3. task'[t].pc = "create"
    BY <1>1, <2>1, GoIs DEF Places
  <2>4. LoggingInBy(t)'
    BY <1>1, <1>2, <2>1, <2>3 DEF LoggingInBy
  <2> QED
    BY <1>2, <1>5, <2>1, <2>2, <2>4, WebStep, SameStates
<1>11. CASE CreateSession(t)
  <2>1. task[t].pc = "create" /\ state' = state /\ Go(t, "done")
    BY <1>11 DEF CreateSession, At
  <2>2. UsersStay
    BY <1>1, <1>11 DEF CreateSession, UsersStay, WebSessions, NoSession
  <2>3. task'[t].pc = "done"
    BY <1>1, <2>1, GoIs DEF Places
  <2>4. LoggingInBy(t)'
    BY <2>3 DEF LoggingInBy
  <2> QED
    BY <1>2, <1>5, <2>1, <2>2, <2>4, WebStep, SameStates
<1> QED
  BY <1>6, <1>7, <1>8, <1>9, <1>10, <1>11 DEF CallbackStep

LEMMA DecideWeb ==
  ASSUME TypeOK, AskedOK, Web, NEW t \in Tasks, DecideStep(t)
  PROVE  Web'
<1>1. task \in [Tasks -> Calls] /\ state \in [States -> OneUseStates]
  BY DEF TypeOK
<1>2. asked[t].kind = "decide" /\ asked[t].state \in States /\ Alone(t) /\ asked' = asked /\ session' = session
  BY DecideDoes
<1>3. UsersStay /\ LoggingInBy(t)'
  BY <1>2 DEF UsersStay, LoggingInBy
<1>4. CASE Decide(t)
  <2>1. CASE Consumable(asked[t].state, "authreq")
    <3>1. state' = Used(asked[t].state)
      BY <1>4, <2>1 DEF Decide
    <3>2. /\ state'[asked[t].state].used /\ state'[asked[t].state].kind = state[asked[t].state].kind
          /\ state'[asked[t].state].session = state[asked[t].state].session
          /\ state'[asked[t].state].expired = state[asked[t].state].expired
          /\ \A y \in States \ {asked[t].state} : state'[y] = state[y]
      BY <1>1, <1>2, <3>1, UsedIs
    <3>3. StatesStay
      BY <3>2 DEF StatesStay
    <3>4. /\ ~state[asked[t].state].used /\ ~state'[asked[t].state].expired
          /\ state'[asked[t].state].kind \in Serves[asked[t].kind]
      BY <1>2, <2>1, <3>2 DEF Consumable, Serves
    <3> QED
      BY <1>2, <1>3, <3>2, <3>3, <3>4, WebStep
  <2>2. CASE ~Consumable(asked[t].state, "authreq")
    <3>1. state' = state /\ Go(t, "failed")
      BY <1>4, <2>2 DEF Decide
    <3>2. task'[t].pc = "failed"
      BY <1>1, <3>1, GoIs DEF Places
    <3>3. ~Holds(t)'
      BY <1>2, <3>2 DEF Holds
    <3> QED
      BY <1>2, <1>3, <3>1, <3>3, WebStep, SameStates
  <2> QED
    BY <2>1, <2>2
<1>5. CASE Complete(t)
  <2>1. task[t].pc = "complete" /\ state' = state
    BY <1>5 DEF Complete, At, web
  <2>2. Holds(t)
    BY <1>2, <2>1 DEF Holds
  <2> QED
    BY <1>2, <1>3, <2>1, <2>2, WebStep, SameStates
<1> QED
  BY <1>4, <1>5 DEF DecideStep

LEMMA ConnectWeb ==
  ASSUME TypeOK, AskedOK, Web, RowsOK, Connects, NEW t \in Tasks, ConnectStep(t)
  PROVE  Web'
<1>1. task \in [Tasks -> Calls] /\ state \in [States -> OneUseStates]
  BY DEF TypeOK
<1>2. asked[t].kind = "connect" /\ asked[t].state \in States /\ Alone(t) /\ asked' = asked /\ session' = session
  BY ConnectDoes DEF ConnectFrame
<1>3. UsersStay /\ LoggingInBy(t)'
  BY <1>2 DEF UsersStay, LoggingInBy
<1>4. CASE ConnectConsume(t)
  <2>1. task[t].pc = "consume" /\ task[t].grant = None
    BY <1>2, <1>4 DEF ConnectConsume, At, Connects, ConnectBy
  <2>2. CASE Consumable(asked[t].state, "connect")
    <3>1. state' = Used(asked[t].state)
      BY <1>4, <2>2 DEF ConnectConsume
    <3>2. /\ state'[asked[t].state].used /\ state'[asked[t].state].kind = state[asked[t].state].kind
          /\ state'[asked[t].state].session = state[asked[t].state].session
          /\ state'[asked[t].state].expired = state[asked[t].state].expired
          /\ \A y \in States \ {asked[t].state} : state'[y] = state[y]
      BY <1>1, <1>2, <3>1, UsedIs
    <3>3. StatesStay
      BY <3>2 DEF StatesStay
    <3>4. /\ ~state[asked[t].state].used /\ ~state'[asked[t].state].expired
          /\ state'[asked[t].state].kind \in Serves[asked[t].kind]
      BY <1>2, <2>2, <3>2 DEF Consumable, Serves
    <3> QED
      BY <1>2, <1>3, <3>2, <3>3, <3>4, WebStep
  <2>3. CASE ~Consumable(asked[t].state, "connect")
    <3>1. state' = state /\ Go(t, "failed")
      BY <1>4, <2>3 DEF ConnectConsume
    <3>2. task'[t].pc = "failed" /\ task'[t].grant = None
      BY <1>1, <2>1, <3>1, GoIs DEF Places
    <3>3. ~Holds(t)'
      BY <1>2, <3>2 DEF Holds
    <3> QED
      BY <1>2, <1>3, <3>1, <3>3, WebStep, SameStates
  <2> QED
    BY <2>2, <2>3
<1>5. CASE ~ConnectConsume(t)
  <2>1. task[t].pc \in {"exchange", "verify", "lookup", "insert", "reconnect", "record", "undo"} /\ state' = state
    BY <1>5 DEF ConnectStep, Exchange, Verify, Lookup, StoreFails, Reconnect, Insert, Record, Undo, At, web
  <2>2. Holds(t)
    BY <1>2, <2>1 DEF Connects, ConnectBy, Holds
  <2> QED
    BY <1>2, <1>3, <2>1, <2>2, WebStep, SameStates
<1> QED
  BY <1>4, <1>5


-----------------------------------------------------------------------------
(* Credentials.                                                             *)

\* A row once stored stays, its version grows, and a version keeps its grant.
Grows ==
  \A m \in Mailboxes :
    /\ account[m].version <= account'[m].version
    /\ account[m].status # "absent" =>
         /\ account'[m].status # "absent"
         /\ account'[m].version = account[m].version => account'[m].refresh = account[m].refresh

\* What the requests other than the one that acts rely on.
LEMMA CredentialsStep ==
  ASSUME TypeOK, AskedOK, Credentials, NEW t \in Tasks, Alone(t), asked' = asked,
         account' \in [Mailboxes -> Accounts], Grows, minted \subseteq minted',
         grants' \in Nat, grants <= grants',
         RowsOK', Versions', TokenBy(t)', RevocationBy(t)', DefaultBy(t)', ConnectBy(t)'
  PROVE  Credentials'
<1>1. account \in [Mailboxes -> Accounts] /\ task \in [Tasks -> Calls] /\ grants \in Nat
  BY DEF TypeOK
<1>2. ASSUME NEW u \in Tasks \ {t}
      PROVE  TokenBy(u)' /\ RevocationBy(u)' /\ DefaultBy(u)' /\ ConnectBy(u)'
  <2>1. TokenBy(u) /\ RevocationBy(u) /\ DefaultBy(u) /\ ConnectBy(u) /\ task'[u] = task[u]
    BY DEF Credentials, Tokens, Revocations, Defaults, Connects, Alone
  <2>2. TokenBy(u)'
    BY <2>1 DEF TokenBy
  <2>3. RevocationBy(u)'
    <3>1. CASE asked[u].kind = "revoke"
      <4> DEFINE m == asked[u].mailbox
      <4>1. m \in Mailboxes
        BY <3>1 DEF AskedOK, AskOK
      <4>2. task[u].row.version \in Nat /\ account[m].version \in Nat /\ account'[m].version \in Nat
        BY <1>1, <4>1, CallFields, RowFields
      <4> QED
        BY <2>1, <3>1, <4>1, <4>2 DEF RevocationBy, Grows
    <3>2. CASE asked[u].kind # "revoke"
      BY <3>2 DEF RevocationBy
    <3> QED
      BY <3>1, <3>2
  <2>4. DefaultBy(u)'
    BY <2>1 DEF DefaultBy, At, AskedOK, AskOK, Grows
  <2>5. ConnectBy(u)'
    BY <1>1, <2>1 DEF ConnectBy
  <2> QED
    BY <2>2, <2>3, <2>4, <2>5
<1> QED
  BY <1>2 DEF Credentials, Tokens, Revocations, Defaults, Connects

LEMMA RowsStay ==
  ASSUME TypeOK, RowsOK, Versions, account' \in [Mailboxes -> Accounts], Unmoved, minted' = minted
  PROVE  RowsOK' /\ Versions' /\ Grows
<1>1. \A m \in Mailboxes : account[m].version \in Nat
  BY RowFields DEF TypeOK
<1>2. RowsOK'
  BY DEF RowsOK, Unmoved
<1>3. Versions'
  BY DEF Versions, Unmoved, TypeOK
<1>4. Grows
  BY <1>1 DEF Grows, Unmoved
<1> QED
  BY <1>2, <1>3, <1>4

LEMMA SameRows ==
  ASSUME account' = account
  PROVE  Unmoved
BY DEF Unmoved

\* A step that keeps the rows' credentials, of a request that needs nothing of them.
LEMMA CredentialsStay ==
  ASSUME TypeOK, AskedOK, Credentials, NEW t \in Tasks, Alone(t), asked' = asked,
         account' \in [Mailboxes -> Accounts], Unmoved, minted' = minted, grants' = grants,
         asked[t].kind \notin {"token", "revoke", "connect"},
         At(t, {"default"}, "set")' => account[asked[t].mailbox].status = "active"
  PROVE  Credentials'
<1>1. RowsOK' /\ Versions' /\ Grows
  BY RowsStay DEF Credentials
<1>2. TokenBy(t)' /\ RevocationBy(t)' /\ ConnectBy(t)'
  BY DEF TokenBy, RevocationBy, ConnectBy
<1>3. DefaultBy(t)'
  BY DEF DefaultBy, At, Unmoved, AskedOK, AskOK
<1>4. grants \in Nat
  BY DEF TypeOK
<1> QED
  BY <1>1, <1>2, <1>3, <1>4, CredentialsStep

LEMMA TokenCredentials ==
  ASSUME TypeOK, AskedOK, Credentials, NEW t \in Tasks, TokenStep(t)
  PROVE  Credentials'
<1> DEFINE m == asked[t].mailbox
<1>1. /\ asked[t].kind = "token" /\ m \in Mailboxes /\ Alone(t) /\ TokenWrites(t)
      /\ task' \in [Tasks -> Calls]
      /\ UNCHANGED <<google, asked, minted>>
  BY TokenDoes DEF Credentials
<1>2. /\ account \in [Mailboxes -> Accounts] /\ task \in [Tasks -> Calls] /\ grants \in Nat
      /\ account[m] \in Accounts
  BY <1>1 DEF TypeOK
<1>3. account' \in [Mailboxes -> Accounts] /\ grants' = grants /\ minted' = minted
  BY <1>1 DEF TokenWrites, google
<1>4. RowsOK /\ Versions /\ TokenBy(t)
  BY DEF Credentials, Tokens
<1>5. ASSUME NEW b \in Mailboxes
      PROVE  /\ account'[b].version = account[b].version /\ account'[b].refresh = account[b].refresh
             /\ account[b].status # "absent" <=> account'[b].status # "absent"
             /\ account'[b].status = "absent" => account'[b] = NoAccount
             /\ account'[b].status = "active" => account'[b].refresh # None
             /\ account'[b].status = "revoked" => account'[b].refresh = None
             /\ account'[b].access \in {None, account'[b].refresh}
    BY <1>1, <1>4 DEF TokenWrites, RowsOK
<1>6. \A b \in Mailboxes : account[b].version \in Nat
  BY <1>2, RowFields
<1>7. RowsOK' /\ Versions' /\ Grows
  <2>1. RowsOK'
    BY <1>5 DEF RowsOK
  <2>2. Versions'
    BY <1>3, <1>4, <1>5 DEF Versions, TypeOK
  <2>3. Grows
    BY <1>5, <1>6 DEF Grows
  <2> QED
    BY <2>1, <2>2, <2>3
<1>8. RevocationBy(t)' /\ ConnectBy(t)' /\ DefaultBy(t)'
  BY <1>1 DEF RevocationBy, ConnectBy, DefaultBy, At
<1>9. TokenBy(t)'
  <2>1. CASE TokenLoad(t)
    <3>1. /\ task'[t].row = account[m]
          /\ task'[t].pc \in {"failed", "rewrap", "last", "pinned"}
          /\ task'[t].pc # "failed" => account[m].status = "active" /\ asked[t].pin \in {None, account[m].version}
          /\ task'[t].pc \in {"rewrap", "last"} => account[m].access # None /\ task'[t].grant = account[m].access
      BY <1>1, <1>2, <2>1, TokenLoadIs
    <3>2. account[m].status = "active" => <<m, account[m].version, account[m].refresh>> \in minted
      BY <1>1, <1>4 DEF RowsOK, Versions
    <3>3. account[m].access \in {None, account[m].refresh}
      BY <1>1, <1>4 DEF RowsOK
    <3> QED
      BY <1>1, <1>3, <3>1, <3>2, <3>3 DEF TokenBy
  <2>2. CASE Rewrap(t)
    <3>1. task[t].pc = "rewrap" /\ (Go(t, "last") \/ Go(t, "failed"))
      BY <2>2 DEF Rewrap, GuardedWrite, At
    <3>2. task'[t].pc \in {"last", "failed"} /\ task'[t].row = task[t].row /\ task'[t].grant = task[t].grant
      BY <1>2, <3>1, GoIs DEF Places
    <3> QED
      BY <1>1, <1>3, <1>4, <3>1, <3>2 DEF TokenBy
  <2>3. CASE CheckPinned(t)
    <3>1. task[t].pc = "pinned" /\ (Go(t, "refresh") \/ Go(t, "failed"))
      BY <2>3 DEF CheckPinned, At
    <3>2. task'[t].pc \in {"refresh", "failed"} /\ task'[t].row = task[t].row /\ task'[t].grant = task[t].grant
      BY <1>2, <3>1, GoIs DEF Places
    <3> QED
      BY <1>1, <1>3, <1>4, <3>1, <3>2 DEF TokenBy
  <2>4. CASE Refresh(t)
    <3>1. /\ task[t].pc = "refresh"
          /\ \/ Go(t, "reject") \/ Go(t, "failed")
             \/ task' = [task EXCEPT ![t].pc = "write", ![t].grant = task[t].row.refresh]
      BY <2>4 DEF Refresh, At
    <3>2. /\ task'[t].pc \in {"reject", "failed", "write"} /\ task'[t].row = task[t].row
          /\ task'[t].pc = "write" => task'[t].grant = task[t].row.refresh
      <4>1. "write" \in Places /\ "reject" \in Places /\ "failed" \in Places
        BY DEF Places
      <4>2. task[t].row.refresh \in Nat \cup Tasks \cup {None}
        BY <1>2, CallFields, RowFields
      <4> QED
        BY <1>2, <3>1, <4>1, <4>2, GoIs, GrantIs
    <3> QED
      BY <1>1, <1>3, <1>4, <3>1, <3>2 DEF TokenBy
  <2>5. CASE NeedsReconnect(t)
    <3>1. task'[t].pc = "failed"
      BY <1>2, <2>5, GoIs DEF NeedsReconnect, Places
    <3> QED
      BY <3>1 DEF TokenBy
  <2>6. CASE WriteToken(t)
    <3>1. task[t].pc = "write" /\ (Go(t, "last") \/ Go(t, "failed"))
      BY <2>6 DEF WriteToken, GuardedWrite, At
    <3>2. task'[t].pc \in {"last", "failed"} /\ task'[t].row = task[t].row /\ task'[t].grant = task[t].grant
      BY <1>2, <3>1, GoIs DEF Places
    <3> QED
      BY <1>1, <1>3, <1>4, <3>1, <3>2 DEF TokenBy
  <2>7. CASE ReturnToken(t)
    <3>1. task[t].pc = "last" /\ (Go(t, "done") \/ Go(t, "failed"))
      BY <2>7 DEF ReturnToken, At
    <3>2. task'[t].pc \in {"done", "failed"} /\ task'[t].row = task[t].row /\ task'[t].grant = task[t].grant
      BY <1>2, <3>1, GoIs DEF Places
    <3> QED
      BY <1>1, <1>3, <1>4, <3>1, <3>2 DEF TokenBy
  <2> QED
    BY <2>1, <2>2, <2>3, <2>4, <2>5, <2>6, <2>7 DEF TokenStep
<1> QED
  BY <1>1, <1>2, <1>3, <1>7, <1>8, <1>9, CredentialsStep

LEMMA PageCredentials ==
  ASSUME TypeOK, AskedOK, Credentials, NEW t \in Tasks, PageFrame(t)
  PROVE  Credentials'
<1>1. /\ Alone(t) /\ task' \in [Tasks -> Calls] /\ asked' = asked /\ account' = account /\ minted' = minted
      /\ grants' = grants
  BY DEF PageFrame, google
<1>2. /\ account \in [Mailboxes -> Accounts] /\ grants \in Nat
      /\ RowsOK' /\ Versions' /\ Grows
  BY <1>1, SameRows, RowsStay DEF TypeOK, Credentials
<1>3. TokenBy(t)' /\ RevocationBy(t)' /\ DefaultBy(t)' /\ ConnectBy(t)'
  <2>1. CASE asked[t].kind \in StartKinds \cup {"logout", "policy"}
    BY <1>1, <2>1 DEF StartKinds, TokenBy, RevocationBy, DefaultBy, ConnectBy, At
  <2>2. CASE /\ asked[t].kind \in DOMAIN FirstStep /\ task[t].pc = "start"
             /\ task'[t].pc \in {"failed", FirstStep[asked[t].kind]} /\ task'[t].grant = task[t].grant
    <3>1. asked[t].kind = "connect" => task[t].grant = None
      BY <2>2 DEF Credentials, Connects, ConnectBy
    <3> QED
      BY <1>1, <2>2, <3>1 DEF FirstStep, TokenBy, RevocationBy, DefaultBy, ConnectBy, At
  <2> QED
    BY <2>1, <2>2 DEF PageFrame, PageMoves
<1> QED
  BY <1>1, <1>2, <1>3, CredentialsStep

LEMMA RevokeCredentials ==
  ASSUME TypeOK, AskedOK, Credentials, NEW t \in Tasks, RevokeStep(t)
  PROVE  Credentials'
<1> DEFINE m == asked[t].mailbox
<1>1. /\ asked[t].kind = "revoke" /\ m \in Mailboxes /\ Alone(t) /\ RevokeWrites(t)
      /\ task' \in [Tasks -> Calls] /\ account' \in [Mailboxes -> Accounts]
      /\ UNCHANGED <<grants, asked, minted>>
  BY RevokeDoes DEF Credentials, RevokeFrame
<1>2. /\ account \in [Mailboxes -> Accounts] /\ task \in [Tasks -> Calls] /\ grants \in Nat
      /\ minted \subseteq Mailboxes \X Nat \X Nat
      /\ \A b \in Mailboxes : account[b].version \in Nat
  BY RowFields DEF TypeOK
<1>3. RowsOK /\ Versions /\ RevocationBy(t)
  BY DEF Credentials, Revocations
<1>4. RowsOK' /\ Versions' /\ Grows
  <2>1. CASE account' = account
    BY <1>1, <1>2, <1>3, <2>1, SameRows, RowsStay
  <2>2. CASE account' # account
    <3>1. /\ task[t].pc = "wipe"
          /\ \A b \in Mailboxes \ {m} : account'[b] = account[b]
          /\ account'[m].status = "revoked" /\ account'[m].version = account[m].version + 1
          /\ account'[m].refresh = None /\ account'[m].access = None
      BY <1>1, <2>2 DEF RevokeWrites
    <3>2. account[m].status # "absent"
      BY <1>1, <1>3, <3>1 DEF RevocationBy
    <3>3. Grows
      BY <1>1, <1>2, <3>1 DEF Grows
    <3>4. RowsOK'
      BY <1>3, <3>1 DEF RowsOK
    <3>5. Versions'
      <4>1. \A x \in minted : x[1] \in Mailboxes /\ x[2] \in Nat
        BY <1>2
      <4>2. \A x \in minted : x[2] <= account'[x[1]].version /\ account'[x[1]].status # "absent"
        BY <1>1, <1>2, <1>3, <3>1, <4>1 DEF Versions
      <4> QED
        BY <1>1, <1>3, <3>1, <4>2 DEF Versions
    <3> QED
      BY <3>3, <3>4, <3>5
  <2> QED
    BY <2>1, <2>2
<1>5. TokenBy(t)' /\ ConnectBy(t)' /\ DefaultBy(t)'
  BY <1>1 DEF TokenBy, ConnectBy, DefaultBy, At
<1>6. RevocationBy(t)'
  <2>1. CASE RevokeLoad(t)
    <3>1. task'[t].row = account[m] /\ task'[t].pc = IF account[m] = NoAccount THEN "failed" ELSE "wipe"
      BY <1>1, <1>2, <2>1, RevokeLoadIs
    <3>2. account' = account
      BY <2>1 DEF RevokeLoad
    <3> QED
      BY <1>1, <1>2, <1>3, <3>1, <3>2 DEF RevocationBy, RowsOK
  <2>2. CASE RevokeWipe(t)
    <3> DEFINE pc == IF task[t].row.refresh = None THEN "others" ELSE "tell"
    <3>1. Go(t, pc) \/ Go(t, "failed") \/ Go(t, "load")
      BY <2>2 DEF RevokeWipe
    <3>2. pc \in Places /\ pc \in {"others", "tell"} /\ (pc = "tell" => task[t].row.refresh # None)
      BY DEF Places
    <3> HIDE DEF pc
    <3>3. task'[t].pc \in {pc, "failed", "load"} /\ task'[t].row = task[t].row
      BY <1>2, <3>1, <3>2, GoIs DEF Places
    <3> QED
      BY <3>2, <3>3 DEF RevocationBy
  <2>3. CASE RevokeTell(t)
    <3>1. task'[t].pc = "others"
      BY <1>2, <2>3, GoIs DEF RevokeTell, Places
    <3> QED
      BY <3>1 DEF RevocationBy
  <2>4. CASE RevokeOthers(t)
    <3>1. task'[t].pc = "done"
      BY <1>2, <2>4, GoIs DEF RevokeOthers, Places
    <3> QED
      BY <3>1 DEF RevocationBy
  <2> QED
    BY <2>1, <2>2, <2>3, <2>4 DEF RevokeStep
<1> QED
  BY <1>1, <1>2, <1>4, <1>5, <1>6, CredentialsStep

\* A connect that has its grant keeps it to its end.
GrantSteps == {"verify", "lookup", "insert", "reconnect", "record", "undo"}

LEMMA ConnectGoes ==
  ASSUME TypeOK, Connects, NEW t \in Tasks, ConnectStep(t), asked[t].kind = "connect"
  PROVE  /\ \/ ConnectConsume(t) /\ task[t].pc = "consume" /\ task'[t].pc \in {"exchange", "failed"}
            \/ /\ Exchange(t) /\ task[t].pc = "exchange" /\ task'[t].pc = "failed"
               /\ grants' \in {grants, grants + 1}
               /\ live \subseteq live' /\ live' \subseteq live \cup abandoned' /\ abandoned \subseteq abandoned'
            \/ /\ Exchange(t) /\ task[t].pc = "exchange" /\ task'[t].pc = "verify"
               /\ grants' = grants + 1 /\ live' = live \cup {grants + 1} /\ task'[t].grant = grants + 1
               /\ abandoned' = abandoned
            \/ /\ task[t].pc \in GrantSteps \ {"record", "undo"}
               /\ task'[t].pc \in GrantSteps
            \/ Record(t) /\ task[t].pc = "record" /\ task'[t].pc \in {"done", "undo"}
            \/ Undo(t) /\ task[t].pc = "undo" /\ task'[t].pc = "failed"
         /\ task[t].pc # "exchange" => task'[t].grant = task[t].grant /\ UNCHANGED grants
         /\ task[t].pc \in {"consume", "exchange"} /\ task'[t].pc # "verify" => task'[t].grant = None
<1>1. task \in [Tasks -> Calls] /\ grants \in Nat
  BY DEF TypeOK
<1>2. task[t].pc \in {"consume", "exchange"} => task[t].grant = None
  BY DEF Connects, ConnectBy
<1>3. CASE ConnectConsume(t)
  <2>1. task[t].pc = "consume" /\ (Go(t, "exchange") \/ Go(t, "failed")) /\ grants' = grants
    BY <1>3 DEF ConnectConsume, At, google
  <2>2. task'[t].pc \in {"exchange", "failed"} /\ task'[t].grant = task[t].grant
    BY <1>1, <2>1, GoIs DEF Places
  <2> QED
    BY <1>2, <1>3, <2>1, <2>2
<1>4. CASE Exchange(t)
  <2>1. task[t].pc = "exchange"
    BY <1>4 DEF Exchange, At
  <2>2. CASE Go(t, "failed") /\ (UNCHANGED google \/ (/\ grants' = grants + 1 /\ live' = live \cup {grants + 1}
                                                     /\ abandoned' = abandoned \cup {grants + 1}))
    <3>1. task'[t].pc = "failed" /\ task'[t].grant = task[t].grant
      BY <1>1, <2>2, GoIs DEF Places
    <3> QED
      BY <1>2, <1>4, <2>1, <2>2, <3>1 DEF google
  <2>3. CASE /\ grants' = grants + 1 /\ live' = live \cup {grants + 1} /\ abandoned' = abandoned
             /\ task' = [task EXCEPT ![t].pc = "verify", ![t].grant = grants + 1]
    <3>1. "verify" \in Places /\ grants + 1 \in Nat \cup Tasks \cup {None}
      BY <1>1 DEF Places
    <3>2. task'[t].pc = "verify" /\ task'[t].grant = grants + 1
      BY <1>1, <2>3, <3>1 DEF Calls
    <3> QED
      BY <1>4, <2>1, <2>3, <3>2 DEF Exchange
  <2> QED
    BY <1>4, <2>2, <2>3 DEF Exchange
<1>5. CASE Record(t)
  <2>1. task[t].pc = "record" /\ (Go(t, "done") \/ Go(t, "undo")) /\ grants' = grants
    BY <1>5 DEF Record, At, google
  <2>2. task'[t].pc \in {"done", "undo"} /\ task'[t].grant = task[t].grant
    BY <1>1, <2>1, GoIs DEF Places
  <2> QED
    BY <1>5, <2>1, <2>2
<1>6. CASE Undo(t)
  <2>1. task[t].pc = "undo" /\ Go(t, "failed") /\ grants' = grants
    BY <1>6 DEF Undo, At
  <2>2. task'[t].pc = "failed" /\ task'[t].grant = task[t].grant
    BY <1>1, <2>1, GoIs DEF Places
  <2> QED
    BY <1>6, <2>1, <2>2
<1>7. CASE Verify(t) \/ Lookup(t) \/ StoreFails(t) \/ Reconnect(t) \/ Insert(t)
  <2>1. /\ task[t].pc \in GrantSteps \ {"record", "undo"} /\ grants' = grants
        /\ \E pc \in GrantSteps : Go(t, pc)
    BY <1>7 DEF Verify, Lookup, StoreFails, Reconnect, Insert, Stored, GrantSteps, At, google
  <2>2. task'[t].pc \in GrantSteps /\ task'[t].grant = task[t].grant
    BY <1>1, <2>1, GoIs DEF Places, GrantSteps
  <2>3. task[t].pc \notin {"consume", "exchange"}
    BY <2>1 DEF GrantSteps
  <2> QED
    BY <2>1, <2>2, <2>3
<1> QED
  BY <1>3, <1>4, <1>5, <1>6, <1>7 DEF ConnectStep

LEMMA ConnectCredentials ==
  ASSUME TypeOK, AskedOK, Credentials, NEW t \in Tasks, ConnectStep(t)
  PROVE  Credentials'
<1> DEFINE m == asked[t].mailbox
           g == task[t].grant
<1>1. /\ asked[t].kind = "connect" /\ m \in Mailboxes /\ Alone(t) /\ ConnectWrites(t)
      /\ task' \in [Tasks -> Calls] /\ account' \in [Mailboxes -> Accounts] /\ grants' \in Nat
      /\ minted' \subseteq Mailboxes \X Nat \X Nat
      /\ asked' = asked
  BY ConnectDoes DEF Credentials, ConnectFrame
<1>2. /\ account \in [Mailboxes -> Accounts] /\ task \in [Tasks -> Calls] /\ grants \in Nat
      /\ minted \subseteq Mailboxes \X Nat \X Nat
      /\ \A b \in Mailboxes : account[b].version \in Nat
  BY RowFields DEF TypeOK
<1>3. RowsOK /\ Versions /\ Connects /\ ConnectBy(t)
  BY DEF Credentials, Connects
<1>4. RowsOK' /\ Versions' /\ Grows /\ minted \subseteq minted'
  <2>1. CASE account' = account /\ minted' = minted
    BY <1>1, <1>2, <1>3, <2>1, SameRows, RowsStay
  <2>2. CASE ~(account' = account /\ minted' = minted)
    <3>1. /\ task[t].pc \in {"insert", "reconnect"}
          /\ \A b \in Mailboxes \ {m} : account'[b] = account[b]
          /\ account'[m].status = "active" /\ account'[m].refresh = g /\ account'[m].access = g
          /\ account[m].status = "absent" \/ account'[m].version = account[m].version + 1
          /\ minted' = minted \cup {<<m, account'[m].version, g>>}
      BY <1>1, <2>2 DEF ConnectWrites
    <3>2. g # None
      BY <1>1, <1>3, <3>1 DEF ConnectBy
    <3>3. account'[m].version \in Nat
      BY <1>1, RowFields
    <3>4. account[m].status = "absent" => account[m].version = 0
      BY <1>1, <1>3 DEF RowsOK, NoAccount
    <3>5. Grows
      BY <1>1, <1>2, <3>1, <3>3, <3>4 DEF Grows
    <3>6. RowsOK'
      BY <1>3, <3>1, <3>2 DEF RowsOK
    <3>7. Versions'
      <4>1. \A x \in minted : x[1] \in Mailboxes /\ x[2] \in Nat /\ x[3] \in Nat
        BY <1>2
      <4>2. \A x \in minted : x[1] = m => x[2] < account'[m].version
        BY <1>1, <1>2, <1>3, <3>1, <3>3, <4>1 DEF Versions
      <4>3. ASSUME NEW x \in minted', NEW y \in minted', x[1] = y[1] /\ x[2] = y[2]
            PROVE  x = y
        BY <1>3, <3>1, <3>3, <4>1, <4>2, <4>3 DEF Versions
      <4>4. \A x \in minted' : x[2] <= account'[x[1]].version /\ account'[x[1]].status # "absent"
        <5>1. \A x \in minted : x[2] <= account'[x[1]].version /\ account'[x[1]].status # "absent"
          BY <1>1, <1>2, <1>3, <3>1, <3>3, <4>1, <4>2 DEF Versions
        <5> QED
          BY <3>1, <3>3, <5>1
      <4>5. \A b \in Mailboxes : account'[b].refresh # None => <<b, account'[b].version, account'[b].refresh>> \in minted'
        BY <1>3, <3>1 DEF Versions
      <4> QED
        BY <4>3, <4>4, <4>5 DEF Versions
    <3> QED
      BY <3>1, <3>5, <3>6, <3>7
  <2> QED
    BY <2>1, <2>2
<1>5. TokenBy(t)' /\ RevocationBy(t)' /\ DefaultBy(t)'
  BY <1>1 DEF TokenBy, RevocationBy, DefaultBy, At
<1>6. grants <= grants' /\ ConnectBy(t)'
  <2>1. CASE task[t].pc = "exchange" /\ task'[t].pc = "verify"
    <3>1. grants' = grants + 1 /\ task'[t].grant = grants + 1
      BY <1>1, <1>3, <2>1, ConnectGoes DEF GrantSteps
    <3>2. grants + 1 # None
      BY <1>2, NoneIsNothing
    <3> QED
      BY <1>1, <1>2, <2>1, <3>1, <3>2 DEF ConnectBy
  <2>2. CASE task[t].pc \in {"consume", "exchange"} /\ task'[t].pc # "verify"
    <3>1. task'[t].grant = None /\ task'[t].pc \in {"exchange", "failed"} /\ grants' \in {grants, grants + 1}
      BY <1>1, <1>3, <2>2, ConnectGoes DEF GrantSteps
    <3> QED
      BY <1>2, <3>1 DEF ConnectBy
  <2>3. CASE task[t].pc \notin {"consume", "exchange"}
    <3>1. /\ task[t].pc \in GrantSteps /\ task'[t].pc \in GrantSteps \cup {"done", "failed"}
          /\ task'[t].grant = g /\ grants' = grants
      BY <1>1, <1>3, <2>3, ConnectGoes DEF GrantSteps
    <3> QED
      BY <1>1, <1>2, <1>3, <3>1 DEF ConnectBy, GrantSteps
  <2>4. CASE task[t].pc = "consume" /\ task'[t].pc = "verify"
    BY <1>1, <1>3, <2>4, ConnectGoes DEF GrantSteps
  <2> QED
    BY <2>1, <2>2, <2>3, <2>4
<1> QED
  BY <1>1, <1>4, <1>5, <1>6, CredentialsStep


-----------------------------------------------------------------------------
(* Grants that Google honours.                                              *)

\* A grant is kept that was, if nothing that keeps it lets it go.
LEMMA LiveStep ==
  ASSUME Live, NEW t \in Tasks, Alone(t), asked' = asked, abandoned \subseteq abandoned',
         live' \subseteq live \cup abandoned',
         \A g \in live' : Stands(g) \/ Tells(t, g) => Kept(g)',
         \A g \in live' : Carries(t, g) => Kept(g)' \/ Carries(t, g)',
         \A g \in live' : Records(t, g)' => Kept(g)'
  PROVE  Live'
<1>1. \A u \in Tasks \ {t} : task'[u] = task[u]
  BY DEF Alone
<1>2. ASSUME NEW g \in live', Kept(g)
      PROVE  Kept(g)'
  <2>1. CASE g \in abandoned
    BY <2>1 DEF Kept
  <2>2. CASE Stands(g)
    BY <2>2
  <2>3. CASE \E u \in Tasks : Tells(u, g)
    <3>1. PICK u \in Tasks : Tells(u, g)
      BY <2>3
    <3>2. CASE u = t
      BY <3>1, <3>2
    <3>3. CASE u # t
      <4>1. Tells(u, g)'
        BY <1>1, <3>1, <3>3 DEF Tells, At
      <4> QED
        BY <4>1 DEF Kept
    <3> QED
      BY <3>2, <3>3
  <2> QED
    BY <1>2, <2>1, <2>2, <2>3 DEF Kept
<1>3. ASSUME NEW g \in live'
      PROVE  Kept(g)' \/ \E u \in Tasks : Carries(u, g)'
  <2>0. CASE g \in abandoned'
    BY <2>0 DEF Kept
  <2>1. CASE Kept(g)
    BY <1>2, <2>1
  <2>2. CASE \E u \in Tasks : Carries(u, g)
    <3>1. PICK u \in Tasks : Carries(u, g)
      BY <2>2
    <3>2. CASE u = t
      BY <3>1, <3>2
    <3>3. CASE u # t
      BY <1>1, <3>1, <3>3 DEF Carries, Running
    <3> QED
      BY <3>2, <3>3
  <2> QED
    BY <2>0, <2>1, <2>2 DEF Live
<1>4. ASSUME NEW u \in Tasks, NEW g \in live', Records(u, g)'
      PROVE  Kept(g)'
  <2>1. CASE u = t
    BY <1>4, <2>1
  <2>2. CASE u # t
    <3>1. Records(u, g)
      BY <1>1, <1>4, <2>2 DEF Records, At
    <3>2. CASE g \in abandoned'
      BY <3>2 DEF Kept
    <3>3. CASE g \in live
      BY <1>2, <3>1, <3>3 DEF Live
    <3> QED
      BY <3>2, <3>3
  <2> QED
    BY <2>1, <2>2
<1> QED
  BY <1>3, <1>4 DEF Live

\* A step that leaves Google and the rows' grants alone, of a request that carries none.
LEMMA LiveStays ==
  ASSUME Live, NEW t \in Tasks, Alone(t), asked' = asked, abandoned' = abandoned, live' \subseteq live,
         \A m \in Mailboxes : account'[m].refresh = account[m].refresh,
         \A g \in live' : ~Tells(t, g) /\ ~Carries(t, g) /\ ~Records(t, g)'
  PROVE  Live'
<1>1. \A g \in live' : Stands(g) => Kept(g)'
  BY DEF Stands, Kept
<1> QED
  BY <1>1, LiveStep

LEMMA NoConnectLive ==
  ASSUME Live, NEW t \in Tasks, Alone(t), asked' = asked, abandoned' = abandoned, live' \subseteq live,
         \A m \in Mailboxes : account'[m].refresh = account[m].refresh,
         asked[t].kind \notin {"connect", "revoke"}
  PROVE  Live'
<1>1. \A g \in live' : ~Tells(t, g) /\ ~Carries(t, g) /\ ~Records(t, g)'
  BY DEF Tells, Carries, Records, At
<1> QED
  BY <1>1, LiveStays

LEMMA PageLive ==
  ASSUME TypeOK, Live, Credentials, NEW t \in Tasks, PageFrame(t)
  PROVE  Live'
<1>1. Alone(t) /\ asked' = asked /\ account' = account /\ live' = live /\ abandoned' = abandoned
  BY DEF PageFrame, google
<1>2. CASE asked[t].kind \notin {"connect", "revoke"}
  BY <1>1, <1>2, NoConnectLive
<1>3. CASE asked[t].kind \in {"connect", "revoke"}
  <2>1. /\ task[t].pc = "start" /\ task'[t].pc \in {"failed", FirstStep[asked[t].kind]}
        /\ task'[t].grant = task[t].grant
    BY <1>3 DEF PageFrame, PageMoves, StartKinds
  <2>2. asked[t].kind = "connect" => task[t].grant = None
    BY <2>1 DEF Credentials, Connects, ConnectBy
  <2>3. None \notin live
    BY NoneIsNothing DEF TypeOK
  <2>4. \A g \in live' : ~Tells(t, g) /\ ~Carries(t, g) /\ ~Records(t, g)'
    BY <1>1, <1>3, <2>1, <2>2, <2>3 DEF Tells, Carries, Records, At, FirstStep
  <2> QED
    BY <1>1, <2>4, LiveStays
<1> QED
  BY <1>2, <1>3

LEMMA RevokeLive ==
  ASSUME TypeOK, AskedOK, Live, Credentials, NEW t \in Tasks, RevokeStep(t)
  PROVE  Live'
<1> DEFINE m == asked[t].mailbox
<1>1. RevokeFrame(t) /\ Alone(t) /\ asked' = asked /\ asked[t].kind = "revoke" /\ m \in Mailboxes
  BY RevokeDoes DEF Credentials, RevokeFrame
<1>2. \A g \in live' : ~Carries(t, g) /\ ~Records(t, g)'
  BY <1>1 DEF Carries, Records, At
<1>3. CASE RevokeTell(t)
  <2>1. Tell(task[t].row.refresh) /\ account' = account
    BY <1>3 DEF RevokeTell
  <2>2. abandoned \subseteq abandoned' /\ live' \subseteq live /\ (task[t].row.refresh \in live' => task[t].row.refresh \in abandoned')
    BY <2>1 DEF Tell
  <2>3. \A g \in live' : Stands(g) \/ Tells(t, g) => Kept(g)'
    BY <2>1, <2>2 DEF Stands, Tells, Kept
  <2> QED
    BY <1>1, <1>2, <2>2, <2>3, LiveStep
<1>4. CASE ~RevokeTell(t)
  <2>1. task[t].pc \in {"load", "wipe", "others"}
    BY <1>4 DEF RevokeStep, RevokeLoad, RevokeWipe, RevokeOthers, At
  <2>2. abandoned \subseteq abandoned' /\ live' = live
    BY <1>1, <2>1 DEF RevokeFrame
  <2>3. \A g \in live' : ~Tells(t, g)
    BY <2>1 DEF Tells, At
  <2>4. CASE account' = account
    <3>1. \A g \in live' : Stands(g) => Kept(g)'
      BY <2>4 DEF Stands, Kept
    <3> QED
      BY <1>1, <1>2, <2>2, <2>3, <3>1, LiveStep
  <2>5. CASE account' # account
    <3>1. /\ task[t].pc = "wipe" /\ account[m].version = task[t].row.version
          /\ \/ task'[t].pc = (IF task[t].row.refresh = None THEN "others" ELSE "tell")
             \/ task'[t].pc = "failed" /\ task[t].row.refresh \in abandoned' \cup {None}
          /\ task'[t].row = task[t].row
          /\ \A b \in Mailboxes \ {m} : account'[b] = account[b]
      BY <1>1, <2>5 DEF RevokeFrame, RevokeWrites
    <3>2. task[t].row.refresh = account[m].refresh
      BY <1>1, <3>1 DEF Credentials, Revocations, RevocationBy
    <3>3. \A g \in live' : Stands(g) => Kept(g)'
      <4> SUFFICES ASSUME NEW g \in live', NEW b \in Mailboxes, account[b].refresh = g
                   PROVE  Kept(g)'
        BY DEF Stands
      <4>1. CASE b # m
        <5>1. Stands(g)'
          BY <3>1, <4>1 DEF Stands
        <5> QED
          BY <5>1 DEF Kept
      <4>2. CASE b = m
        <5>1. g # None
          BY <2>2, NoneIsNothing DEF TypeOK
        <5>2. CASE task'[t].pc = "failed"
          BY <3>1, <3>2, <4>2, <5>1, <5>2 DEF Kept
        <5>3. CASE task'[t].pc # "failed"
          <6>1. Tells(t, g)'
            BY <1>1, <3>1, <3>2, <4>2, <5>1, <5>3 DEF Tells, At
          <6> QED
            BY <6>1 DEF Kept
        <5> QED
          BY <5>2, <5>3
      <4> QED
        BY <4>1, <4>2
    <3> QED
      BY <1>1, <1>2, <2>2, <2>3, <3>3, LiveStep
  <2> QED
    BY <2>4, <2>5
<1> QED
  BY <1>3, <1>4

LEMMA ConnectLive ==
  ASSUME TypeOK, AskedOK, Live, Credentials, NEW t \in Tasks, ConnectStep(t)
  PROVE  Live'
<1> DEFINE m == asked[t].mailbox
           h == task[t].grant
<1>1. /\ asked[t].kind = "connect" /\ m \in Mailboxes /\ Alone(t) /\ ConnectWrites(t) /\ asked' = asked
      /\ Connects /\ ConnectBy(t) /\ None \notin live
  BY ConnectDoes, NoneIsNothing DEF Credentials, ConnectFrame, Connects, TypeOK
<1>2. \A g \in live' : ~Tells(t, g)
  BY <1>1 DEF Tells, At
\* The new grant, in hand.
<1>3. CASE Exchange(t) /\ task'[t].pc = "verify"
  <2>1. /\ grants' = grants + 1 /\ live' = live \cup {grants + 1} /\ task'[t].grant = grants + 1
        /\ abandoned' = abandoned /\ account' = account
    <3>1. account' = account
      BY <1>3 DEF Exchange
    <3> QED
      BY <1>1, <1>3, <3>1, ConnectGoes DEF GrantSteps, Record, Undo, ConnectConsume, Exchange, At
  <2>2. \A g : Kept(g) => Kept(g)'
    <3> SUFFICES ASSUME NEW g, Kept(g)
                 PROVE  Kept(g)'
      OBVIOUS
    <3>1. Stands(g) => Stands(g)'
      BY <2>1 DEF Stands
    <3>2. \A u \in Tasks : Tells(u, g) => Tells(u, g)'
      BY <1>1 DEF Tells, Alone, At
    <3> QED
      BY <2>1, <3>1, <3>2 DEF Kept
  <2>3. ASSUME NEW g \in live'
        PROVE  Kept(g)' \/ \E u \in Tasks : Carries(u, g)'
    <3>1. CASE g = grants + 1
      <4>1. Carries(t, g)'
        BY <1>1, <1>3, <2>1, <3>1 DEF Carries, Running, Over
      <4> QED
        BY <4>1
    <3>2. CASE g \in live
      <4>1. \A u \in Tasks : Carries(u, g) => u # t
        BY <1>1, <1>3, <3>2 DEF Carries, ConnectBy, Exchange, At
      <4>2. \A u \in Tasks \ {t} : Carries(u, g) => Carries(u, g)'
        BY <1>1 DEF Carries, Alone, Running
      <4> QED
        BY <2>2, <3>2, <4>1, <4>2 DEF Live
    <3> QED
      BY <2>1, <3>1, <3>2
  <2>4. ASSUME NEW u \in Tasks, NEW g \in live', Records(u, g)'
        PROVE  Kept(g)'
    <3>1. u # t
      BY <1>3, <2>4 DEF Records, At
    <3>2. Records(u, g)
      BY <1>1, <2>4, <3>1 DEF Records, Alone, At
    <3>3. g \in 0..grants
      <4>1. g # None
        BY <1>1, <2>1, NoneIsNothing DEF TypeOK
      <4> QED
        BY <1>1, <3>2, <4>1 DEF Connects, ConnectBy, Records, At
    <3>4. g \in live
      BY <2>1, <3>3 DEF TypeOK
    <3> QED
      BY <2>2, <3>2, <3>4 DEF Live
  <2> QED
    BY <2>3, <2>4 DEF Live
\* None, or one that was never learned.
<1>4. CASE /\ task[t].pc \in {"consume", "exchange"} /\ task'[t].pc # "verify"
  <2>1. /\ live' \subseteq live \cup abandoned' /\ abandoned \subseteq abandoned' /\ account' = account
        /\ task'[t].pc \in {"exchange", "failed"}
    <3>1. ConnectConsume(t) => live' = live /\ abandoned' = abandoned
      BY DEF ConnectConsume, google
    <3>2. account' = account
      BY <1>1, <1>4 DEF ConnectWrites
    <3> QED
      BY <1>1, <1>4, <3>1, <3>2, ConnectGoes DEF GrantSteps
  <2>2. \A g \in live' : ~Records(t, g)'
    BY <2>1 DEF Records, At
  <2>3. ASSUME NEW g \in live', Carries(t, g)
        PROVE  Kept(g)'
    <3>1. g \notin live
      BY <1>1, <1>4, <2>3 DEF Carries, ConnectBy
    <3> QED
      BY <2>1, <3>1 DEF Kept
  <2>4. \A g \in live' : Stands(g) => Kept(g)'
    BY <2>1 DEF Stands, Kept
  <2> QED
    BY <1>1, <1>2, <2>1, <2>2, <2>3, <2>4, LiveStep
\* The grant is stored, and what it replaces is noted.
<1>5. CASE ~(account' = account /\ minted' = minted /\ task'[t].pc # "record")
  <2>1. /\ \A b \in Mailboxes \ {m} : account'[b] = account[b]
        /\ account'[m].refresh = h
        /\ live' = live /\ abandoned \subseteq abandoned' /\ account[m].refresh \in abandoned' \cup {None}
    BY <1>1, <1>5 DEF ConnectWrites
  <2>2. task'[t].grant = h
    BY <1>1, <1>5, ConnectGoes DEF ConnectWrites
  <2>3. \A g \in live' : Stands(g) => Kept(g)'
    <3> SUFFICES ASSUME NEW g \in live', NEW b \in Mailboxes, account[b].refresh = g
                 PROVE  Kept(g)'
      BY DEF Stands
    <3>1. CASE b = m
      BY <1>1, <2>1, <3>1 DEF Kept
    <3>2. CASE b # m
      <4>1. Stands(g)'
        BY <2>1, <3>2 DEF Stands
      <4> QED
        BY <4>1 DEF Kept
    <3> QED
      BY <3>1, <3>2
  <2>4. \A g : g = h => Stands(g)'
    BY <1>1, <2>1 DEF Stands
  <2>5. \A g \in live' : Carries(t, g) \/ Records(t, g)' => Kept(g)'
    BY <2>2, <2>4 DEF Carries, Records, Kept
  <2> QED
    BY <1>1, <1>2, <2>1, <2>3, <2>5, LiveStep
\* A grant in hand that is not stored by this step.
<1>6. CASE task[t].pc \in GrantSteps /\ account' = account /\ minted' = minted /\ task'[t].pc # "record"
  <2>1. task'[t].grant = h /\ \A g \in live' : Stands(g) => Stands(g)'
    BY <1>1, <1>6, ConnectGoes DEF GrantSteps, Stands
  <2>2. CASE Undo(t)
    <3>1. Tell(h) /\ task'[t].pc = "failed"
      BY <1>1, <2>2, ConnectGoes DEF Undo, GrantSteps, At, ConnectConsume, Exchange, Record
    <3>2. abandoned \subseteq abandoned' /\ live' \subseteq live /\ (h \in live' => h \in abandoned')
      BY <3>1 DEF Tell
    <3>3. \A g \in live' : Carries(t, g) => Kept(g)'
      BY <3>2 DEF Carries, Kept
    <3>4. \A g \in live' : ~Records(t, g)'
      BY <3>1 DEF Records, At
    <3>5. \A g \in live' : Stands(g) => Kept(g)'
      BY <2>1 DEF Kept
    <3> QED
      BY <1>1, <1>2, <3>2, <3>3, <3>4, <3>5, LiveStep
  <2>3. CASE ~Undo(t)
    <3>1. live' = live /\ abandoned \subseteq abandoned'
      BY <1>6, <2>3 DEF ConnectStep, ConnectConsume, Exchange, Verify, Lookup, StoreFails, Reconnect, Insert, Record,
         At, GrantSteps, google
    <3>2. CASE task[t].pc = "record"
      <4>1. task'[t].pc \in {"done", "undo"}
        BY <1>1, <2>3, <3>2, ConnectGoes DEF GrantSteps
      <4>2. \A g \in live : Carries(t, g) => Records(t, g)
        BY <1>1, <3>2 DEF Carries, Records, At
      <4>3. ASSUME NEW g \in live', Carries(t, g)
            PROVE  Kept(g)'
        <5>1. Kept(g)
          BY <3>1, <4>2, <4>3 DEF Live
        <5>2. \A u \in Tasks : Tells(u, g) => Tells(u, g)'
          BY <1>1, <1>2 DEF Tells, Alone, At
        <5> QED
          BY <2>1, <3>1, <5>1, <5>2 DEF Kept
      <4>4. \A g \in live' : ~Records(t, g)'
        BY <4>1 DEF Records, At
      <4>5. \A g \in live' : Stands(g) => Kept(g)'
        BY <2>1 DEF Kept
      <4> QED
        BY <1>1, <1>2, <3>1, <4>3, <4>4, <4>5, LiveStep
    <3>3. CASE task[t].pc # "record"
      <4>1. task'[t].pc \in GrantSteps
        BY <1>1, <1>6, <2>3, <3>3, ConnectGoes DEF GrantSteps
      <4>2. \A g \in live' : Carries(t, g) => Carries(t, g)'
        BY <1>1, <2>1, <4>1 DEF Carries, Running, Over, GrantSteps
      <4>4. \A g \in live' : ~Records(t, g)'
        BY <1>6 DEF Records, At
      <4>5. \A g \in live' : Stands(g) => Kept(g)'
        BY <2>1 DEF Kept
      <4> QED
        BY <1>1, <1>2, <3>1, <4>2, <4>4, <4>5, LiveStep
    <3> QED
      BY <3>2, <3>3
  <2> QED
    BY <2>2, <2>3
<1> QED
  BY <1>1, <1>3, <1>4, <1>5, <1>6, ConnectGoes DEF GrantSteps, ConnectConsume, Exchange, At


-----------------------------------------------------------------------------
(* Every step of Access, and every step of a tool call, keeps the invariant. *)

LEMMA CompanionStays ==
  ASSUME Companion, NEW t \in Tasks, Alone(t), asked' = asked, setting' = setting, clients' = clients,
         asked[t].kind = "companion" => task'[t].pc \in {"failed", "look"}
  PROVE  Companion'
<1>1. Attempted'
  BY DEF Companion, Attempted
<1>2. RegisteringBy(t)'
  BY DEF RegisteringBy
<1>3. ASSUME NEW u \in Tasks \ {t}
      PROVE  RegisteringBy(u)'
  <2>1. RegisteringBy(u) /\ task'[u] = task[u]
    BY DEF Companion, Registering, Alone
  <2>2. \A v \in Tasks \ {u} : At(v, {"companion"}, "create")' => At(v, {"companion"}, "create")
    BY DEF At, Alone
  <2> QED
    BY <2>1, <2>2 DEF RegisteringBy
<1> QED
  BY <1>1, <1>2, <1>3 DEF Companion, Registering

LEMMA TokenInv ==
  ASSUME AccessInv, NEW t \in Tasks, TokenStep(t)
  PROVE  AccessInv'
<1>1. TypeOK /\ AskedOK /\ Web /\ Companion /\ Credentials /\ Live /\ RowsOK /\ Versions /\ Tokens
  BY DEF AccessInv, Credentials
<1>2. /\ asked[t].kind = "token" /\ asked[t].mailbox \in Mailboxes
      /\ task' \in [Tasks -> Calls] /\ Alone(t) /\ TokenWrites(t)
      /\ UNCHANGED <<google, web, registration, asked, minted>>
  BY <1>1, TokenDoes
<1>3. TypeOK'
  BY <1>1, <1>2 DEF TypeOK, TokenWrites, google, web, registration
<1>4. AskedOK'
  BY <1>1, <1>2 DEF AskedOK
<1>5. Web'
  BY <1>1, <1>2, WebStays DEF web, StatesStay, UsersStay
<1>6. Companion'
  BY <1>1, <1>2, CompanionStays DEF registration
<1>7. Credentials'
  BY <1>1, TokenCredentials
<1>8. Live'
  <2>1. \A m \in Mailboxes : account'[m].refresh = account[m].refresh
    BY <1>2 DEF TokenWrites
  <2> QED
    BY <1>1, <1>2, <2>1, NoConnectLive DEF google
<1> QED
  BY <1>3, <1>4, <1>5, <1>6, <1>7, <1>8 DEF AccessInv

LEMMA PageInv ==
  ASSUME AccessInv, NEW t \in Tasks, PageStep(t)
  PROVE  AccessInv'
<1>1. TypeOK /\ AskedOK /\ Web /\ Companion /\ Credentials /\ Live /\ Connects
  BY DEF AccessInv, Credentials
<1>2. PageFrame(t)
  BY <1>1, PageDoes
<1>3. /\ task' \in [Tasks -> Calls] /\ Alone(t)
      /\ state' \in [States -> OneUseStates] /\ session' \in [Sessions -> WebSessions]
      /\ UNCHANGED <<account, google, registration, asked, minted>>
  BY <1>2 DEF PageFrame
<1>4. TypeOK'
  BY <1>1, <1>3 DEF TypeOK, google, registration
<1>5. AskedOK'
  BY <1>1, <1>3 DEF AskedOK
<1>6. Companion'
  <2>1. asked[t].kind = "companion" => task'[t].pc \in {"failed", "look"}
    BY <1>2 DEF PageFrame, PageMoves, StartKinds, FirstStep
  <2> QED
    BY <1>1, <1>3, <2>1, CompanionStays DEF registration
<1> QED
  BY <1>1, <1>2, <1>4, <1>5, <1>6, PageWeb, PageCredentials, PageLive DEF AccessInv

LEMMA CallbackInv ==
  ASSUME AccessInv, NEW t \in Tasks, CallbackStep(t)
  PROVE  AccessInv'
<1>1. TypeOK /\ AskedOK /\ Web /\ Companion /\ Credentials /\ Live
  BY DEF AccessInv
<1>2. /\ asked[t].kind = "callback" /\ task' \in [Tasks -> Calls] /\ Alone(t)
      /\ state' \in [States -> OneUseStates] /\ session' \in [Sessions -> WebSessions]
      /\ UNCHANGED <<account, google, registration, asked, minted>>
  BY <1>1, CallbackDoes DEF CallbackFrame
<1>3. TypeOK'
  BY <1>1, <1>2 DEF TypeOK, google, registration
<1>4. AskedOK'
  BY <1>1, <1>2 DEF AskedOK
<1>5. Companion'
  BY <1>1, <1>2, CompanionStays DEF registration
<1>6. Unmoved /\ account' \in [Mailboxes -> Accounts] /\ ~At(t, {"default"}, "set")'
  BY <1>1, <1>2, SameRows DEF TypeOK, At
<1>7. Credentials'
  BY <1>1, <1>2, <1>6, CredentialsStay DEF google
<1>8. Live'
  BY <1>1, <1>2, NoConnectLive DEF google
<1> QED
  BY <1>1, <1>3, <1>4, <1>5, <1>7, <1>8, CallbackWeb DEF AccessInv

LEMMA DecideInv ==
  ASSUME AccessInv, NEW t \in Tasks, DecideStep(t)
  PROVE  AccessInv'
<1>1. TypeOK /\ AskedOK /\ Web /\ Companion /\ Credentials /\ Live
  BY DEF AccessInv
<1>2. /\ asked[t].kind = "decide" /\ task' \in [Tasks -> Calls] /\ Alone(t)
      /\ state' \in [States -> OneUseStates]
      /\ UNCHANGED <<account, google, session, registration, asked, minted>>
  BY <1>1, DecideDoes
<1>3. TypeOK'
  BY <1>1, <1>2 DEF TypeOK, google, registration
<1>4. AskedOK'
  BY <1>1, <1>2 DEF AskedOK
<1>5. Companion'
  BY <1>1, <1>2, CompanionStays DEF registration
<1>6. Unmoved /\ account' \in [Mailboxes -> Accounts] /\ ~At(t, {"default"}, "set")'
  BY <1>1, <1>2, SameRows DEF TypeOK, At
<1>7. Credentials'
  BY <1>1, <1>2, <1>6, CredentialsStay DEF google
<1>8. Live'
  BY <1>1, <1>2, NoConnectLive DEF google
<1> QED
  BY <1>1, <1>3, <1>4, <1>5, <1>7, <1>8, DecideWeb DEF AccessInv

LEMMA ConnectInv ==
  ASSUME AccessInv, NEW t \in Tasks, ConnectStep(t)
  PROVE  AccessInv'
<1>1. TypeOK /\ AskedOK /\ Web /\ Companion /\ Credentials /\ Live /\ RowsOK /\ Connects
  BY DEF AccessInv, Credentials
<1>2. ConnectFrame(t)
  BY <1>1, ConnectDoes
<1>3. TypeOK'
  BY <1>1, <1>2 DEF TypeOK, ConnectFrame, registration
<1>4. AskedOK'
  BY <1>1, <1>2 DEF AskedOK, ConnectFrame
<1>5. Companion'
  BY <1>1, <1>2, CompanionStays DEF ConnectFrame, registration
<1> QED
  BY <1>1, <1>3, <1>4, <1>5, ConnectWeb, ConnectCredentials, ConnectLive DEF AccessInv

LEMMA RevokeInv ==
  ASSUME AccessInv, NEW t \in Tasks, RevokeStep(t)
  PROVE  AccessInv'
<1>1. TypeOK /\ AskedOK /\ Web /\ Companion /\ Credentials /\ Live /\ Revocations
  BY DEF AccessInv, Credentials
<1>2. RevokeFrame(t)
  BY <1>1, RevokeDoes
<1>3. TypeOK'
  BY <1>1, <1>2 DEF TypeOK, RevokeFrame, registration
<1>4. AskedOK'
  BY <1>1, <1>2 DEF AskedOK, RevokeFrame
<1>5. Companion'
  BY <1>1, <1>2, CompanionStays DEF RevokeFrame, registration
<1>6. Web'
  BY <1>1, <1>2, WebStays, NoLoginUsers, SameStates DEF RevokeFrame
<1> QED
  BY <1>1, <1>3, <1>4, <1>5, <1>6, RevokeCredentials, RevokeLive DEF AccessInv

LEMMA DefaultInv ==
  ASSUME AccessInv, NEW t \in Tasks, DefaultStep(t)
  PROVE  AccessInv'
<1>1. TypeOK /\ AskedOK /\ Web /\ Companion /\ Credentials /\ Live /\ Defaults /\ RowsOK
  BY DEF AccessInv, Credentials
<1>2. /\ asked[t].kind = "default" /\ asked[t].mailbox \in Mailboxes
      /\ task' \in [Tasks -> Calls] /\ Alone(t) /\ account' \in [Mailboxes -> Accounts] /\ Unmoved
      /\ task'[t].pc = "set" => account[asked[t].mailbox].status = "active"
      /\ UNCHANGED <<google, web, registration, asked, minted>>
  BY <1>1, DefaultDoes
<1>3. TypeOK'
  BY <1>1, <1>2 DEF TypeOK, google, web, registration
<1>4. AskedOK'
  BY <1>1, <1>2 DEF AskedOK
<1>5. Companion'
  BY <1>1, <1>2, CompanionStays DEF registration
<1>6. Web'
  BY <1>1, <1>2, WebStays DEF web, StatesStay, UsersStay
<1>7. Credentials'
  BY <1>1, <1>2, CredentialsStay DEF google, At
<1>8. Live'
  BY <1>1, <1>2, NoConnectLive DEF google, Unmoved
<1> QED
  BY <1>3, <1>4, <1>5, <1>6, <1>7, <1>8 DEF AccessInv

LEMMA CompanionInv ==
  ASSUME AccessInv, NEW t \in Tasks, CompanionStep(t)
  PROVE  AccessInv'
<1>1. TypeOK /\ AskedOK /\ Web /\ Companion /\ Credentials /\ Live
  BY DEF AccessInv
<1>2. /\ asked[t].kind = "companion" /\ task' \in [Tasks -> Calls] /\ Alone(t)
      /\ setting' \in Registrations /\ leased' \in BOOLEAN /\ clients' \subseteq [id : Tasks, name : Tasks]
      /\ Companion'
      /\ UNCHANGED <<account, google, web, asked, minted>>
  BY <1>1, CompanionDoes
<1>3. TypeOK'
  BY <1>1, <1>2 DEF TypeOK, google, web
<1>4. AskedOK'
  BY <1>1, <1>2 DEF AskedOK
<1>5. Web'
  BY <1>1, <1>2, WebStays DEF web, StatesStay, UsersStay
<1>6. Unmoved /\ account' \in [Mailboxes -> Accounts] /\ ~At(t, {"default"}, "set")'
  BY <1>1, <1>2, SameRows DEF TypeOK, At
<1>7. Credentials'
  BY <1>1, <1>2, <1>6, CredentialsStay DEF google
<1>8. Live'
  BY <1>1, <1>2, NoConnectLive DEF google
<1> QED
  BY <1>2, <1>3, <1>4, <1>5, <1>7, <1>8 DEF AccessInv

LEMMA ToolInv ==
  ASSUME AccessInv, NEW t \in Tasks, ToolMoves(t)
  PROVE  AccessInv'
<1>1. TypeOK /\ AskedOK /\ Web /\ Companion /\ Credentials /\ Live
  BY DEF AccessInv
<1>2. /\ asked[t].kind = "tool" /\ task' \in [Tasks -> Calls] /\ Alone(t)
      /\ UNCHANGED <<account, google, web, registration, asked, minted>>
  BY <1>1, GoIs DEF ToolMoves, TypeOK
<1>3. TypeOK'
  BY <1>1, <1>2 DEF TypeOK, google, web, registration
<1>4. AskedOK'
  BY <1>1, <1>2 DEF AskedOK
<1>5. Companion'
  BY <1>1, <1>2, CompanionStays DEF registration
<1>6. Web'
  BY <1>1, <1>2, WebStays DEF web, StatesStay, UsersStay
<1>7. Unmoved /\ account' \in [Mailboxes -> Accounts] /\ ~At(t, {"default"}, "set")'
  BY <1>1, <1>2, SameRows DEF TypeOK, At
<1>8. Credentials'
  BY <1>1, <1>2, <1>7, CredentialsStay DEF google
<1>9. Live'
  BY <1>1, <1>2, NoConnectLive DEF google
<1> QED
  BY <1>3, <1>4, <1>5, <1>6, <1>8, <1>9 DEF AccessInv

LEMMA TimeInv ==
  ASSUME AccessInv, Time
  PROVE  AccessInv'
<1>1. TypeOK /\ AskedOK /\ Web /\ Companion /\ Credentials /\ Live
  BY DEF AccessInv
<1>2. /\ account' \in [Mailboxes -> Accounts] /\ Unmoved
      /\ session' \in [Sessions -> WebSessions] /\ NoLogin /\ state' \in [States -> OneUseStates]
      /\ \A x \in States : state'[x].kind = state[x].kind /\ state'[x].used = state[x].used
                           /\ state'[x].session = state[x].session
                           /\ (state[x].used => state'[x].expired = state[x].expired)
      /\ leased' \in BOOLEAN /\ live' \subseteq live
      /\ UNCHANGED <<grants, abandoned, setting, clients, asked, task, minted>>
  BY <1>1, TimeDoes
<1>3. TypeOK'
  BY <1>1, <1>2 DEF TypeOK
<1>4. AskedOK'
  BY <1>1, <1>2 DEF AskedOK
<1>5. Companion'
  BY <1>1, <1>2 DEF Companion, Attempted, Registering, RegisteringBy, At
<1>6. StatesStay /\ UsersStay
  BY <1>2, NoLoginUsers DEF StatesStay
<1>7. Web'
  <2>1. ASSUME NEW t \in Tasks
        PROVE  HeldBy(t)' /\ LoggingInBy(t)'
    <3>1. Alone(t) /\ (Holds(t)' => Holds(t)) /\ HeldBy(t) /\ LoggingInBy(t)
      BY <1>1, <1>2 DEF Alone, Holds, Web, HeldStates, LoggingIn
    <3>2. Holds(t) => asked[t].state \in States
      BY <1>1 DEF Holds, AskedOK, AskOK
    <3>3. \A u \in Tasks : Holds(u)' => Holds(u)
      BY <1>2 DEF Holds
    <3>4. HeldBy(t)'
      BY <1>2, <3>1, <3>2, <3>3 DEF HeldBy
    <3>5. LoggingInBy(t)'
      <4>1. CASE asked[t].kind = "callback"
        <5>1. asked[t].state \in States /\ asked[t].sub # None
          BY <1>1, <4>1, NoneIsNothing DEF AskedOK, AskOK
        <5> QED
          BY <1>2, <1>6, <3>1, <4>1, <5>1 DEF LoggingInBy, UsersStay
      <4>2. CASE asked[t].kind # "callback"
        BY <1>2, <4>2 DEF LoggingInBy
      <4> QED
        BY <4>1, <4>2
    <3> QED
      BY <3>4, <3>5
  <2> QED
    BY <2>1 DEF Web, HeldStates, LoggingIn
<1>8. Credentials'
  <2>1. RowsOK' /\ Versions' /\ Grows
    BY <1>1, <1>2, RowsStay DEF Credentials
  <2>2. Tokens' /\ Connects'
    BY <1>1, <1>2 DEF Credentials, Tokens, TokenBy, Connects, ConnectBy
  <2>3. Revocations'
    BY <1>1, <1>2 DEF Credentials, Revocations, RevocationBy, Unmoved, AskedOK, AskOK
  <2>4. Defaults'
    BY <1>1, <1>2 DEF Credentials, Defaults, DefaultBy, Unmoved, At, AskedOK, AskOK
  <2> QED
    BY <2>1, <2>2, <2>3, <2>4 DEF Credentials
<1>9. Live'
  <2>1. \A g : Kept(g) => Kept(g)'
    BY <1>2 DEF Kept, Stands, Tells, Unmoved, At
  <2>2. \A g, t : (Carries(t, g) <=> Carries(t, g)') /\ (Records(t, g) <=> Records(t, g)')
    BY <1>2 DEF Carries, Records, Running, At
  <2> QED
    BY <1>1, <1>2, <2>1, <2>2 DEF Live
<1> QED
  BY <1>3, <1>4, <1>5, <1>7, <1>8, <1>9 DEF AccessInv

LEMMA StutterInv ==
  ASSUME AccessInv, UNCHANGED vars
  PROVE  AccessInv'
<1>1. TypeOK' /\ AskedOK'
  BY DEF AccessInv, vars, TypeOK, AskedOK
<1>2. Web' /\ Companion'
  BY DEF AccessInv, vars, Web, HeldStates, HeldBy, Holds, LoggingIn, LoggingInBy, Companion, Attempted, Registering,
     RegisteringBy, At
<1>3. Credentials'
  BY DEF AccessInv, vars, Credentials, RowsOK, Versions, Tokens, TokenBy, Revocations, RevocationBy, Defaults,
     DefaultBy, Connects, ConnectBy, At
<1>4. Live'
  BY DEF AccessInv, vars, Live, Kept, Stands, Tells, Carries, Records, Running, At
<1> QED
  BY <1>1, <1>2, <1>3, <1>4 DEF AccessInv

LEMMA AccessKeeps ==
  ASSUME AccessInv, \/ Time \/ UNCHANGED vars
                    \/ \E t \in Tasks : Step(t) \/ ToolMoves(t)
  PROVE  AccessInv'
<1>1. ASSUME NEW t \in Tasks, Step(t)
      PROVE  AccessInv'
  BY <1>1, StepAreas, TokenInv, PageInv, CallbackInv, DecideInv, ConnectInv, RevokeInv, DefaultInv, CompanionInv
<1> QED
  BY <1>1, ToolInv, TimeInv, StutterInv

LEMMA AccessStart ==
  ASSUME Init
  PROVE  AccessInv
<1>1. PICK w \in Workloads : asked = w.asked /\ account = w.account /\ session = w.session /\ state = w.state
  BY DEF Init
<1>2. /\ account \in [Mailboxes -> Accounts] /\ \A m \in Mailboxes : RowOK(account[m])
      /\ session \in [Sessions -> WebSessions] /\ state \in [States -> OneUseStates]
      /\ AskedOK
  BY <1>1, WorkloadsAssumption, PolicyAssumption DEF AskedOK
<1>3. \A t \in Tasks : task[t].pc = "start" /\ task[t].grant = None
  BY DEF Init, NoTask
<1>4. /\ setting = NoAttempt /\ clients = {} /\ abandoned = {}
      /\ live = {account[m].refresh : m \in Mailboxes} \ {None}
      /\ minted = {<<m, account[m].version, account[m].refresh>> : m \in {b \in Mailboxes : account[b].refresh # None}}
  BY DEF Init
<1>5. \A m \in Mailboxes : account[m].refresh \in Nat \cup {None} /\ account[m].version \in Nat
  BY <1>2, RowFields
<1>6. TypeOK
  <2>1. live \subseteq Nat /\ minted \subseteq Mailboxes \X Nat \X Nat
    BY <1>4, <1>5
  <2>2. grants \in Nat
    BY FS_CardinalityType, AccessAssumption DEF Init
  <2>3. NoTask \in Calls /\ NoAttempt \in Registrations
    <3>1. NoAccount \in Accounts
      BY DEF NoAccount, Accounts
    <3>2. NoAttempt \in Registrations
      BY DEF NoAttempt, Registrations
    <3> QED
      BY <3>1, <3>2 DEF NoTask, Calls, Places
  <2> QED
    BY <1>2, <1>4, <2>1, <2>2, <2>3 DEF TypeOK, Init
<1>7. Web
  BY <1>3 DEF Web, HeldStates, HeldBy, Holds, LoggingIn, LoggingInBy
<1>8. Companion
  BY <1>3, <1>4 DEF Companion, Attempted, Registering, RegisteringBy, NoAttempt
<1>9. Credentials
  <2>1. RowsOK
    BY <1>2 DEF RowsOK, RowOK
  <2>2. Versions
    <3>1. \A m \in Mailboxes : account[m].refresh # None => account[m].status # "absent"
      BY <1>2 DEF RowOK, NoAccount
    <3> QED
      BY <1>4, <1>5, <3>1 DEF Versions
  <2>3. Tokens /\ Revocations /\ Defaults /\ Connects
    BY <1>3 DEF Tokens, TokenBy, Revocations, RevocationBy, Defaults, DefaultBy, Connects, ConnectBy, At
  <2> QED
    BY <2>1, <2>2, <2>3 DEF Credentials
<1>10. Live
  BY <1>3, <1>4 DEF Live, Kept, Stands, Records, At
<1> QED
  BY <1>2, <1>6, <1>7, <1>8, <1>9, <1>10 DEF AccessInv


-----------------------------------------------------------------------------
(* What a tool's plan says, and that the engine decides by it.              *)

Risky(t) == Plan(t).action = "label.apply" /\ (Plan(t).add \cup Plan(t).remove) \cap SystemLabels # {}

LEMMA PlanIs ==
  ASSUME AskedOK, NEW t \in Tasks, IsTool(t)
  PROVE  /\ asked[t].mailbox \in Mailboxes
         /\ Plan(t).action \in Actions /\ Plan(t).mods \subseteq Modifiers
         /\ Plan(t).add \subseteq SystemLabels \cup UserLabels
         /\ Risky(t) => Plan(t).mods # {}
         /\ Plan(t).mods # {} /\ ~Risky(t) => DEFAULT_POLICY[Plan(t).action] = "ask"
<1>1. InputOK(asked[t]) /\ asked[t].kind = "tool"
  BY DEF AskedOK, IsTool
<1>2. asked[t].mailbox \in Mailboxes /\ asked[t].tool \in Tools
  BY <1>1 DEF InputOK
<1>3. CASE asked[t].tool = "label"
  <2>1. Plan(t) = LabelTool(asked[t])
    BY <1>3 DEF Plan
  <2>2. asked[t].add \subseteq SystemLabels \cup UserLabels
    BY <1>1, <1>3 DEF InputOK
  <2> QED
    BY <1>2, <2>1, <2>2 DEF LabelTool, sensitiveModifiers, Actions, Modifiers, Risky
<1>4. CASE asked[t].tool = "sensitive"
  <2>1. Plan(t) = SensitiveTool(asked[t])
    BY <1>4 DEF Plan
  <2>2. asked[t].add \subseteq SystemLabels \cup UserLabels
    BY <1>1, <1>4 DEF InputOK
  <2>3. Risky(t)
    BY <2>1 DEF SensitiveTool, Risky, SystemLabels, SENSITIVE
  <2> QED
    BY <1>2, <2>1, <2>2, <2>3 DEF SensitiveTool, Actions, Modifiers
<1>5. CASE asked[t].tool = "spam"
  <2>1. Plan(t) = SpamTool(asked[t])
    BY <1>5 DEF Plan
  <2> QED
    BY <1>2, <2>1 DEF SpamTool, Actions, Modifiers, Risky, SystemLabels, SENSITIVE
<1>6. CASE asked[t].tool = "trash"
  <2>1. Plan(t) = TrashTool(asked[t])
    BY <1>6 DEF Plan
  <2> QED
    BY <1>2, <2>1 DEF TrashTool, Actions, Modifiers, Risky, SystemLabels, SENSITIVE
<1>7. CASE asked[t].tool = "manage"
  <2>1. Plan(t) = ManageTool(asked[t])
    BY <1>7 DEF Plan
  <2> QED
    BY <1>2, <2>1 DEF ManageTool, Actions, Modifiers, Risky
<1>8. CASE asked[t].tool = "update_draft"
  <2>1. Plan(t) = UpdateDraftTool(asked[t])
    BY <1>8 DEF Plan
  <2> QED
    BY <1>2, <2>1 DEF UpdateDraftTool, Actions, Modifiers, Risky
<1>9. CASE asked[t].tool = "send_draft"
  <2>1. Plan(t) = SendDraftTool(asked[t])
    BY <1>9 DEF Plan
  <2>2. asked[t].mods \subseteq Modifiers
    BY <1>1, <1>9 DEF InputOK
  <2> QED
    BY <1>2, <2>1, <2>2 DEF SendDraftTool, Actions, Modifiers, Risky, DEFAULT_POLICY
<1> QED
  BY <1>2, <1>3, <1>4, <1>5, <1>6, <1>7, <1>8, <1>9 DEF Tools

\* The engine, given the modifiers that were planned, decides what is in force.
LEMMA VerdictIsInForce ==
  ASSUME AskedOK, rows \in [Fields -> Levels \cup {"inherit"}], NEW t \in Tasks, IsTool(t),
         call[t].mods = Plan(t).mods
  PROVE  Verdict(t) = InForce(t, rows) /\ Verdict(t) \in Levels
<1> DEFINE m == asked[t].mailbox
           a == Plan(t).action
<1>1. /\ m \in Mailboxes /\ a \in Actions
      /\ Risky(t) => Plan(t).mods # {}
      /\ Plan(t).mods # {} /\ ~Risky(t) => DEFAULT_POLICY[a] = "ask"
  BY PlanIs
<1>2. <<m, a>> \in Fields /\ <<All, a>> \in Fields /\ m # All
  BY <1>1, PolicyAssumption DEF Fields, Scopes
<1>3. Risky(t) => DEFAULT_POLICY[a] = "allow"
  BY DEF Risky, DEFAULT_POLICY, Actions
<1>4. DEFAULT_POLICY[a] \in {"allow", "ask"}
  BY <1>1 DEF DEFAULT_POLICY
<1>5. Verdict(t) = LET r == resolveLevel(m, a)
                   IN  IF Plan(t).mods # {} /\ ~r.chosen THEN raise(r.level) ELSE r.level
  BY DEF Verdict, decide
<1>6. CASE rows[<<m, a>>] # "inherit"
  <2>1. resolveLevel(m, a) = [level |-> rows[<<m, a>>], chosen |-> TRUE]
    BY <1>6 DEF resolveLevel
  <2>2. InForce(t, rows) = rows[<<m, a>>]
    BY <1>2, <1>6 DEF InForce
  <2> QED
    BY <1>2, <1>5, <1>6, <2>1, <2>2
<1>7. CASE rows[<<m, a>>] = "inherit" /\ rows[<<All, a>>] # "inherit"
  <2>1. resolveLevel(m, a) = [level |-> rows[<<All, a>>], chosen |-> TRUE]
    BY <1>7 DEF resolveLevel
  <2>2. {s \in {m, All} : rows[<<s, a>>] # "inherit"} = {All}
    BY <1>7
  <2>3. InForce(t, rows) = rows[<<All, a>>]
    BY <2>2 DEF InForce
  <2> QED
    BY <1>2, <1>5, <1>7, <2>1, <2>3
<1>8. CASE rows[<<m, a>>] = "inherit" /\ rows[<<All, a>>] = "inherit"
  <2>1. resolveLevel(m, a) = [level |-> DEFAULT_POLICY[a], chosen |-> FALSE]
    BY <1>8 DEF resolveLevel
  <2>2. {s \in {m, All} : rows[<<s, a>>] # "inherit"} = {}
    BY <1>8
  <2>3. InForce(t, rows) = IF Risky(t) THEN "ask" ELSE DEFAULT_POLICY[a]
    BY <2>2 DEF InForce, Risky
  <2>4. Verdict(t) = IF Plan(t).mods # {} THEN raise(DEFAULT_POLICY[a]) ELSE DEFAULT_POLICY[a]
    BY <1>5, <2>1
  <2> QED
    BY <1>1, <1>3, <1>4, <2>3, <2>4 DEF raise, Levels
<1> QED
  BY <1>6, <1>7, <1>8

LEMMA CallFieldsIs ==
  ASSUME call \in [Tasks -> CallRecords], NEW t \in Tasks
  PROVE  /\ call[t] \in CallRecords /\ call[t].mods \subseteq Modifiers
         /\ call[t].approved \in BOOLEAN /\ call[t].permitted \in BOOLEAN
         /\ call[t].draft \in Nat /\ call[t].moved \in BOOLEAN /\ call[t].sent \in Nat
BY DEF CallRecords

-----------------------------------------------------------------------------
(* What a step of a tool call does.                                         *)

ToolFrame(t) ==
  /\ IsTool(t) /\ asked[t].mailbox \in Mailboxes
  /\ task' \in [Tasks -> Calls] /\ Alone(t) /\ ToolMoves(t)
  /\ UNCHANGED <<account, google, web, registration, asked, minted, rows, read>>

LEMMA ToolGoes ==
  ASSUME TypeOK, AskedOK, NEW t \in Tasks, IsTool(t), NEW pc \in Places, Go(t, pc),
         UNCHANGED <<account, google, web, registration, asked, minted, rows, read>>
  PROVE  ToolFrame(t) /\ task'[t].pc = pc
BY GoIs, PlanIs DEF TypeOK, ToolFrame, ToolMoves, IsTool

LEMMA ToolDoes ==
  ASSUME TypeOK, AskedOK, PolicyInv, NEW t \in Tasks, ToolStep(t)
  PROVE  ToolFrame(t)
<1>1. IsTool(t)
  BY DEF ToolStep, PlanCall, Judge, OwnerAnswers, ClaimApproved, Recheck, ChangeLabels, SaveDraft, Reread, SendDraft,
     ToolAt, At, IsTool
<1>2. CASE PlanCall(t)
  <2>1. Go(t, "planned") \/ Go(t, "failed")
    BY <1>2 DEF PlanCall
  <2> QED
    BY <1>1, <1>2, <2>1, ToolGoes DEF PlanCall, Places
<1>3. CASE Judge(t)
  <2>1. Verdict(t) \in Levels
    BY <1>1, <1>3, VerdictIsInForce DEF Judge, ToolAt, At, PolicyInv, PolicyTypeOK, Decisions, DecidedBy
  <2>2. Go(t, "failed") \/ Go(t, "asked") \/ Go(t, "run")
    BY <1>3, <2>1 DEF Judge, Levels
  <2> QED
    BY <1>1, <1>3, <2>2, ToolGoes DEF Judge, Places, policyVars
<1>4. CASE OwnerAnswers(t)
  BY <1>1, <1>4, ToolGoes DEF OwnerAnswers, Places, policyVars
<1>5. CASE ClaimApproved(t)
  BY <1>1, <1>5, ToolGoes DEF ClaimApproved, Places
<1>6. CASE Recheck(t)
  BY <1>1, <1>6, ToolGoes DEF Recheck, Places, policyVars
<1>7. CASE ChangeLabels(t)
  BY <1>1, <1>7, ToolGoes DEF ChangeLabels, Performed, Places
<1>8. CASE SaveDraft(t)
  BY <1>1, <1>8, ToolGoes DEF SaveDraft, Performed, Places
<1>9. CASE Reread(t)
  BY <1>1, <1>9, ToolGoes DEF Reread, Places, policyVars
<1>10. CASE SendDraft(t)
  BY <1>1, <1>10, ToolGoes DEF SendDraft, Performed, Places
<1> QED
  BY <1>2, <1>3, <1>4, <1>5, <1>6, <1>7, <1>8, <1>9, <1>10 DEF ToolStep

\* What the policy does is, to Access, a step of its own or a tool call's.
LEMMA PolicyMoves ==
  ASSUME TypeOK, AskedOK, PolicyInv, [PolicyNext]_allVars
  PROVE  \/ Time \/ UNCHANGED vars
         \/ \E t \in Tasks : Step(t) \/ ToolMoves(t)
<1>1. ASSUME NEW t \in Tasks, Elsewhere(t) \/ ReadRows(t) \/ SaveRows(t)
      PROVE  Step(t)
  BY <1>1 DEF Elsewhere, ReadRows, SaveRows, Step
<1>2. ASSUME NEW t \in Tasks, ToolStep(t)
      PROVE  ToolMoves(t)
  BY <1>2, ToolDoes DEF ToolFrame
<1>3. EditDraft => UNCHANGED vars
  BY DEF EditDraft
<1>4. UNCHANGED allVars => UNCHANGED vars
  BY DEF allVars
<1> QED
  BY <1>1, <1>2, <1>3, <1>4 DEF PolicyNext

\* A step of Access is of one request, which is no tool call; a policy page that is
\* not at its rows does not come to save.
LEMMA StepIs ==
  ASSUME AccessInv, NEW t \in Tasks, Step(t)
  PROVE  /\ asked[t].kind # "tool" /\ asked' = asked /\ Alone(t)
         /\ ~At(t, {"policy"}, "read") => ~At(t, {"policy"}, "edit")'
<1>1. TypeOK /\ AskedOK /\ Web /\ Companion /\ RowsOK /\ Versions /\ Tokens /\ Connects /\ Revocations /\ Defaults
  BY DEF AccessInv, Credentials
<1>2. CASE TokenStep(t)
  BY <1>1, <1>2, TokenDoes DEF At
<1>3. CASE PageStep(t)
  <2>1. PageFrame(t)
    BY <1>1, <1>3, PageDoes
  <2>2. asked[t].kind # "tool"
    BY <2>1 DEF PageFrame, PageMoves, StartKinds, FirstStep
  <2>3. ASSUME asked[t].kind = "policy", ~At(t, {"policy"}, "read")
        PROVE  task'[t].pc # "edit"
    <3>1. CASE Enter(t)
      <4>1. task'[t].pc \in {"failed", "read"}
        BY <1>1, <2>3, <3>1 DEF Enter, FirstStep, TypeOK
      <4> QED
        BY <4>1
    <3>2. CASE EditPolicy(t)
      BY <1>1, <3>2, GoIs DEF EditPolicy, TypeOK, Places
    <3> QED
      BY <1>3, <2>3, <3>1, <3>2 DEF PageStep, StartLogin, StartAuthorize, StartReauth, StartConnect, Logout, ReadPolicy, At
  <2> QED
    BY <2>1, <2>2, <2>3 DEF PageFrame, At
<1>4. CASE CallbackStep(t)
  BY <1>1, <1>4, CallbackDoes DEF CallbackFrame, At
<1>5. CASE DecideStep(t)
  BY <1>1, <1>5, DecideDoes DEF At
<1>6. CASE ConnectStep(t)
  BY <1>1, <1>6, ConnectDoes DEF ConnectFrame, At
<1>7. CASE RevokeStep(t)
  BY <1>1, <1>7, RevokeDoes DEF RevokeFrame, At
<1>8. CASE DefaultStep(t)
  BY <1>1, <1>8, DefaultDoes DEF At
<1>9. CASE CompanionStep(t)
  BY <1>1, <1>9, CompanionDoes DEF At
<1> QED
  BY <1>2, <1>3, <1>4, <1>5, <1>6, <1>7, <1>8, <1>9, StepAreas

-----------------------------------------------------------------------------
(* Each step keeps the policy's invariant.                                  *)

\* A request that did not move stays decided, as long as the rows stay; and so on.
LEMMA OtherStays ==
  ASSUME NEW u \in Tasks, task'[u] = task[u], asked' = asked
  PROVE  /\ DecidedBy(u) /\ rows' = rows /\ call'[u] = call[u] => DecidedBy(u)'
         /\ DraftBy(u) /\ draft' = draft /\ call'[u] = call[u] => DraftBy(u)'
         /\ PostedBy(u) /\ read'[u] = read[u] => PostedBy(u)'
BY DEF DecidedBy, DraftBy, PostedBy, IsTool, At, Plan, Permits, InForce

LEMMA NotPolicyStep ==
  ASSUME PolicyInv, asked' = asked, UNCHANGED policyVars,
         \A u \in Tasks : IsTool(u) => task'[u] = task[u],
         \A u \in Tasks : At(u, {"policy"}, "edit")' => At(u, {"policy"}, "edit")
  PROVE  PolicyInv'
<1>1. PolicyTypeOK'
  BY DEF PolicyInv, PolicyTypeOK, policyVars
<1>2. ASSUME NEW u \in Tasks
      PROVE  DecidedBy(u)' /\ DraftBy(u)'
  <2>1. DecidedBy(u) /\ DraftBy(u) /\ (IsTool(u)' <=> IsTool(u))
    BY DEF PolicyInv, Decisions, Drafts, IsTool
  <2>2. CASE IsTool(u)
    BY <2>1, <2>2, OtherStays DEF policyVars
  <2>3. CASE ~IsTool(u)
    BY <2>1, <2>3 DEF DecidedBy, DraftBy
  <2> QED
    BY <2>2, <2>3
<1>3. \A u \in Tasks : PostedBy(u)'
  BY DEF PolicyInv, Posted, PostedBy, policyVars
<1> QED
  BY <1>1, <1>2, <1>3 DEF PolicyInv, Decisions, Drafts, Posted

LEMMA ElsewherePolicy ==
  ASSUME AccessInv, PolicyInv, NEW t \in Tasks, Elsewhere(t)
  PROVE  PolicyInv'
<1>1. /\ asked[t].kind # "tool" /\ asked' = asked /\ Alone(t) /\ ~At(t, {"policy"}, "edit")'
      /\ UNCHANGED policyVars
  BY StepIs DEF Elsewhere
<1> QED
  BY <1>1, NotPolicyStep DEF Alone, IsTool, At

LEMMA TimePolicy ==
  ASSUME AccessInv, PolicyInv, Time \/ UNCHANGED vars, UNCHANGED policyVars
  PROVE  PolicyInv'
<1>1. task' = task /\ asked' = asked
  BY TimeDoes DEF AccessInv, vars
<1> QED
  BY <1>1, NotPolicyStep DEF At

LEMMA ReadRowsPolicy ==
  ASSUME AccessInv, PolicyInv, NEW t \in Tasks, ReadRows(t)
  PROVE  PolicyInv'
<1>1. /\ asked[t].kind = "policy" /\ asked' = asked /\ Alone(t) /\ UNCHANGED <<rows, labels, draft, call>>
  BY StepIs DEF ReadRows, ReadPolicy, Step, At
<1>2. /\ PolicyTypeOK
      /\ read' = [read EXCEPT ![t] = [f \in Fields |->
                   IF f[1] # All /\ account[f[1]] = NoAccount THEN "none" ELSE rows[f]]]
  BY DEF PolicyInv, ReadRows
<1>3. read' \in [Tasks -> [Fields -> Levels \cup {"inherit", "none"}]]
  <2>1. [f \in Fields |-> IF f[1] # All /\ account[f[1]] = NoAccount THEN "none" ELSE rows[f]]
          \in [Fields -> Levels \cup {"inherit", "none"}]
    BY <1>2 DEF PolicyTypeOK
  <2> QED
    BY <1>2, <2>1 DEF PolicyTypeOK
<1>4. PolicyTypeOK'
  BY <1>1, <1>2, <1>3 DEF PolicyTypeOK
<1>5. PostedBy(t)'
  <2>1. At(t, {"policy"}, "edit")' =>
          {asked[t].form[f] : f \in {g \in DOMAIN asked[t].form : read'[t][g] # "none"}} \subseteq Levels \cup {"inherit"}
    BY DEF ReadRows, At
  <2> QED
    BY <1>1, <2>1 DEF PostedBy
<1>6. ASSUME NEW u \in Tasks \ {t}
      PROVE  DecidedBy(u)' /\ DraftBy(u)' /\ PostedBy(u)'
  BY <1>1, <1>2, OtherStays DEF Alone, PolicyInv, PolicyTypeOK, Decisions, Drafts, Posted
<1>7. DecidedBy(t)' /\ DraftBy(t)'
  BY <1>1 DEF DecidedBy, DraftBy, IsTool
<1> QED
  BY <1>4, <1>5, <1>6, <1>7 DEF PolicyInv, Decisions, Drafts, Posted

LEMMA ChangesAre ==
  ASSUME PolicyInv, NEW t \in Tasks, At(t, {"policy"}, "edit"), NEW f \in Fields, f \in DOMAIN Changes(t)
  PROVE  Changes(t)[f] \in Levels \cup {"inherit"}
<1>1. CASE asked[t].preset
  BY <1>1 DEF Changes, AllowAll, Levels
<1>2. CASE ~asked[t].preset
  <2>1. f \in DOMAIN asked[t].form /\ read[t][f] # "none" /\ Changes(t)[f] = asked[t].form[f]
    BY <1>2 DEF Changes, Edited
  <2> QED
    BY <1>2, <2>1 DEF PolicyInv, Posted, PostedBy
<1> QED
  BY <1>1, <1>2

LEMMA SaveRowsPolicy ==
  ASSUME AccessInv, PolicyInv, NEW t \in Tasks, SaveRows(t)
  PROVE  PolicyInv'
<1>1. /\ At(t, {"policy"}, "edit") /\ asked[t].kind = "policy" /\ asked' = asked /\ Alone(t) /\ UNCHANGED <<read, labels, draft>>
  BY StepIs DEF SaveRows, EditPolicy, Step, At
<1>2. /\ rows' = [f \in Fields |-> IF f \in DOMAIN Changes(t) THEN Changes(t)[f] ELSE rows[f]]
      /\ call' = [u \in Tasks |-> IF IsTool(u)
                    THEN [call[u] EXCEPT !.permitted = @ \/ Permits(u, rows', call[u].approved)] ELSE call[u]]
  BY DEF SaveRows
<1>3. rows' \in [Fields -> Levels \cup {"inherit"}]
  BY <1>1, <1>2, ChangesAre DEF PolicyInv, PolicyTypeOK
<1>4. ASSUME NEW u \in Tasks
      PROVE  /\ call'[u] \in CallRecords /\ call'[u].mods = call[u].mods /\ call'[u].approved = call[u].approved
             /\ call'[u].draft = call[u].draft /\ call'[u].moved = call[u].moved /\ call'[u].sent = call[u].sent
             /\ call[u].permitted => call'[u].permitted
             /\ IsTool(u) /\ Permits(u, rows', call[u].approved) => call'[u].permitted
  <2>1. call[u] \in CallRecords
    BY DEF PolicyInv, PolicyTypeOK
  <2>2. call'[u] = IF IsTool(u)
                   THEN [call[u] EXCEPT !.permitted = call[u].permitted \/ Permits(u, rows', call[u].approved)] ELSE call[u]
    BY <1>2
  <2>3. Permits(u, rows', call[u].approved) \in BOOLEAN
    BY DEF Permits
  <2>4. call[u].permitted \in BOOLEAN
    BY <2>1 DEF CallRecords
  <2> HIDE DEF IsTool, Permits
  <2> QED
    BY <2>1, <2>2, <2>3, <2>4 DEF CallRecords
<1>5. PolicyTypeOK'
  <2>1. call' \in [Tasks -> CallRecords]
    BY <1>2, <1>4
  <2> QED
    BY <1>1, <1>3, <2>1 DEF PolicyInv, PolicyTypeOK
<1>6. ASSUME NEW u \in Tasks \ {t}
      PROVE  DecidedBy(u)' /\ DraftBy(u)' /\ PostedBy(u)'
  <2>1. DecidedBy(u) /\ DraftBy(u) /\ PostedBy(u) /\ task'[u] = task[u]
    BY <1>1 DEF PolicyInv, Decisions, Drafts, Posted, Alone
  <2>2. PostedBy(u)'
    BY <1>1, <2>1, OtherStays
  <2>3. DraftBy(u)'
    BY <1>1, <1>4, <2>1 DEF DraftBy, IsTool
  <2>4. Plan(u)' = Plan(u) /\ \A b \in BOOLEAN : Permits(u, rows, b)' <=> Permits(u, rows', b)
    BY <1>1 DEF Plan, Permits, InForce
  <2>5. call[u].approved \in BOOLEAN
    BY CallFieldsIs DEF PolicyInv, PolicyTypeOK
  <2>6. DecidedBy(u)'
    BY <1>1, <1>4, <2>1, <2>4, <2>5 DEF DecidedBy, IsTool
  <2> QED
    BY <2>2, <2>3, <2>6
<1>7. DecidedBy(t)' /\ DraftBy(t)'
  BY <1>1 DEF DecidedBy, DraftBy, IsTool
<1>8. PostedBy(t)'
  <2>1. task'[t].pc = "done"
    BY GoIs DEF SaveRows, EditPolicy, AccessInv, TypeOK, Places
  <2> QED
    BY <2>1 DEF PostedBy, At
<1> QED
  BY <1>5, <1>6, <1>7, <1>8 DEF PolicyInv, Decisions, Drafts, Posted

\* What is in force is a matter of the rows and of what was asked.
LEMMA SamePermits ==
  ASSUME rows' = rows, asked' = asked, NEW u \in Tasks
  PROVE  /\ Plan(u)' = Plan(u)
         /\ Permits(u, rows, TRUE)' <=> Permits(u, rows, TRUE)
         /\ Permits(u, rows, FALSE)' <=> Permits(u, rows, FALSE)
BY DEF Plan, Permits, InForce

\* What a tool call's step must show of its own request; the others keep theirs.
LEMMA ToolPolicy ==
  ASSUME TypeOK, AskedOK, PolicyInv, NEW t \in Tasks, ToolFrame(t), PolicyTypeOK', DecidedBy(t)', DraftBy(t)',
         \A u \in Tasks \ {t} : /\ call'[u].mods = call[u].mods /\ call'[u].approved = call[u].approved
                                /\ call'[u].permitted = call[u].permitted /\ DraftBy(u)'
  PROVE  PolicyInv'
<1>1. IsTool(t) /\ Alone(t) /\ asked' = asked /\ rows' = rows /\ read' = read
  BY DEF ToolFrame
<1>2. PostedBy(t)'
  BY <1>1 DEF PostedBy, IsTool, At
<1>3. ASSUME NEW u \in Tasks \ {t}
      PROVE  DecidedBy(u)' /\ PostedBy(u)'
  <2>1. task'[u] = task[u] /\ DecidedBy(u) /\ PostedBy(u)
    BY <1>1 DEF Alone, PolicyInv, Decisions, Posted
  <2>2. PostedBy(u)'
    BY <1>1, <2>1, OtherStays
  <2>3. DecidedBy(u)'
    BY <1>1, <2>1, SamePermits DEF DecidedBy, IsTool
  <2> QED
    BY <2>2, <2>3
<1> QED
  BY <1>2, <1>3 DEF PolicyInv, Decisions, Drafts, Posted

\* A step that leaves the drafts and the calls as they are.
LEMMA SameCallsPolicy ==
  ASSUME TypeOK, AskedOK, PolicyInv, NEW t \in Tasks, ToolFrame(t), UNCHANGED policyVars, DecidedBy(t)', DraftBy(t)'
  PROVE  PolicyInv'
<1>1. PolicyTypeOK'
  BY DEF PolicyInv, PolicyTypeOK, policyVars
<1>2. \A u \in Tasks \ {t} : DraftBy(u)'
  BY OtherStays DEF PolicyInv, Drafts, ToolFrame, Alone, policyVars
<1> QED
  BY <1>1, <1>2, ToolPolicy DEF policyVars

LEMMA PlanCallPolicy ==
  ASSUME TypeOK, AskedOK, PolicyInv, NEW t \in Tasks, PlanCall(t)
  PROVE  PolicyInv'
<1>1. ToolFrame(t) /\ IsTool(t) /\ PolicyTypeOK /\ DecidedBy(t) /\ DraftBy(t) /\ UNCHANGED <<rows, labels, draft>>
  BY ToolDoes DEF ToolStep, ToolFrame, PlanCall, PolicyInv, Decisions, Drafts
<1>2. task[t].pc = "start" /\ ~call[t].approved /\ call[t].sent = 0
  BY <1>1 DEF PlanCall, ToolAt, At, DecidedBy, DraftBy, Over
<1>3. CASE Go(t, "failed") /\ UNCHANGED call
  <2>1. task'[t].pc = "failed"
    BY <1>3, GoIs DEF TypeOK, Places
  <2>2. DecidedBy(t)' /\ DraftBy(t)'
    BY <1>2, <1>3, <2>1 DEF DecidedBy, DraftBy
  <2> QED
    BY <1>1, <1>3, <2>2, SameCallsPolicy DEF policyVars, ToolFrame
<1>4. CASE /\ call' = [call EXCEPT ![t].mods = Plan(t).mods, ![t].draft = draftPayload(t),
                                   ![t].permitted = Permits(t, rows, FALSE)]
           /\ Go(t, "planned")
  <2>1. task'[t].pc = "planned"
    BY <1>4, GoIs DEF TypeOK, Places
  <2>2. Plan(t).mods \subseteq Modifiers /\ draftPayload(t) \in Nat /\ Permits(t, rows, FALSE) \in BOOLEAN
    BY <1>1, PlanIs DEF ToolFrame, PolicyTypeOK, draftPayload, Permits
  <2>3. \A u \in Tasks \ {t} : call'[u] = call[u]
    BY <1>1, <1>4 DEF PolicyTypeOK
  <2>4. call'[t] = [call[t] EXCEPT !.mods = Plan(t).mods, !.draft = draftPayload(t), !.permitted = Permits(t, rows, FALSE)]
    BY <1>1, <1>4 DEF PolicyTypeOK
  <2>5. /\ call'[t] \in CallRecords /\ call'[t].mods = Plan(t).mods /\ call'[t].permitted = Permits(t, rows, FALSE)
        /\ call'[t].approved = call[t].approved /\ call'[t].sent = call[t].sent
    <3> HIDE DEF Permits, draftPayload
    <3>1. call[t] \in CallRecords
      BY <1>1 DEF PolicyTypeOK
    <3> QED
      BY <2>2, <2>4, <3>1 DEF CallRecords
  <2>6. PolicyTypeOK'
    <3>1. call' \in [Tasks -> CallRecords]
      BY <1>1, <1>4, <2>3, <2>5 DEF PolicyTypeOK
    <3> QED
      BY <1>1, <3>1 DEF PolicyTypeOK, ToolFrame
  <2>7. Plan(t)' = Plan(t) /\ (Permits(t, rows, FALSE)' <=> Permits(t, rows, FALSE))
    BY <1>1 DEF ToolFrame, Plan, Permits, InForce
  <2>8. DecidedBy(t)' /\ DraftBy(t)'
    BY <1>2, <2>1, <2>5, <2>7 DEF DecidedBy, DraftBy
  <2>9. \A u \in Tasks \ {t} : DraftBy(u)'
    BY <1>1, <2>3, OtherStays DEF PolicyInv, Drafts, ToolFrame, Alone
  <2> QED
    BY <1>1, <2>3, <2>6, <2>8, <2>9, ToolPolicy
<1> QED
  BY <1>3, <1>4 DEF PlanCall

\* The steps that look, and leave everything to the next: where they lead is decided.
LEMMA LooksPolicy ==
  ASSUME TypeOK, AskedOK, PolicyInv, NEW t \in Tasks,
         Judge(t) \/ OwnerAnswers(t) \/ Recheck(t) \/ Reread(t)
  PROVE  PolicyInv'
<1>1. /\ ToolFrame(t) /\ IsTool(t) /\ DecidedBy(t) /\ DraftBy(t) /\ UNCHANGED policyVars
      /\ rows \in [Fields -> Levels \cup {"inherit"}]
  BY ToolDoes DEF ToolStep, ToolFrame, Judge, OwnerAnswers, Recheck, Reread, PolicyInv, PolicyTypeOK, Decisions, Drafts
<1>2. \A pc \in Places : Go(t, pc) => task'[t].pc = pc
  BY GoIs DEF TypeOK
<1>3. Plan(t)' = Plan(t)
  BY <1>1 DEF ToolFrame, Plan
<1>4. CASE Judge(t)
  <2>1. task[t].pc = "planned" /\ call[t].mods = Plan(t).mods /\ (Permits(t, rows, FALSE) => call[t].permitted)
        /\ ~call[t].approved /\ call[t].sent = 0
    BY <1>1, <1>4 DEF Judge, ToolAt, At, DecidedBy, DraftBy, Over
  <2>2. Verdict(t) = InForce(t, rows) /\ Verdict(t) \in Levels
    BY <1>1, <2>1, VerdictIsInForce
  <2>3. \/ task'[t].pc = "failed" \/ task'[t].pc = "asked"
        \/ task'[t].pc = "run" /\ Verdict(t) = "allow"
    BY <1>2, <1>4, <2>2 DEF Judge, Levels, Places
  <2>4. task'[t].pc = "run" => call[t].permitted
    BY <2>1, <2>2, <2>3 DEF Permits
  <2>5. DecidedBy(t)' /\ DraftBy(t)'
    BY <1>1, <1>3, <2>1, <2>3, <2>4 DEF DecidedBy, DraftBy, policyVars
  <2> QED
    BY <1>1, <2>5, SameCallsPolicy
<1>5. CASE OwnerAnswers(t)
  <2>1. task[t].pc = "asked" /\ task'[t].pc \in {"approved", "failed"}
    BY <1>2, <1>5 DEF OwnerAnswers, ToolAt, At, Places
  <2>2. DecidedBy(t)' /\ DraftBy(t)'
    BY <1>1, <1>3, <2>1 DEF DecidedBy, DraftBy, policyVars, Over
  <2> QED
    BY <1>1, <2>2, SameCallsPolicy
<1>6. CASE Recheck(t)
  <2>1. task[t].pc = "claimed" /\ call[t].mods = Plan(t).mods /\ (Permits(t, rows, TRUE) => call[t].permitted)
        /\ call[t].sent = 0
    BY <1>1, <1>6 DEF Recheck, ToolAt, At, DecidedBy, DraftBy, Over
  <2>2. Verdict(t) = InForce(t, rows) /\ Verdict(t) \in Levels
    BY <1>1, <2>1, VerdictIsInForce
  <2>3. task'[t].pc = "failed" \/ (task'[t].pc = "run" /\ Verdict(t) # "deny")
    BY <1>2, <1>6 DEF Recheck, Places
  <2>4. task'[t].pc = "run" => call[t].permitted
    BY <2>1, <2>2, <2>3 DEF Permits, Levels
  <2>5. DecidedBy(t)' /\ DraftBy(t)'
    BY <1>1, <1>3, <2>1, <2>3, <2>4 DEF DecidedBy, DraftBy, policyVars
  <2> QED
    BY <1>1, <2>5, SameCallsPolicy
<1>7. CASE Reread(t)
  <2>1. task[t].pc = "run" /\ call[t].permitted /\ call[t].sent = 0
    BY <1>1, <1>7 DEF Reread, ToolAt, At, DecidedBy, DraftBy, Over
  <2>2. task'[t].pc = "failed" \/ (task'[t].pc = "sending" /\ draft[asked[t].mailbox] = call[t].draft)
    BY <1>2, <1>7 DEF Reread, Places, draftPayload
  <2>3. DecidedBy(t)' /\ DraftBy(t)'
    BY <1>1, <1>3, <2>1, <2>2 DEF DecidedBy, DraftBy, policyVars, ToolFrame
  <2> QED
    BY <1>1, <2>3, SameCallsPolicy
<1> QED
  BY <1>4, <1>5, <1>6, <1>7

LEMMA ClaimApprovedPolicy ==
  ASSUME TypeOK, AskedOK, PolicyInv, NEW t \in Tasks, ClaimApproved(t)
  PROVE  PolicyInv'
<1>1. ToolFrame(t) /\ IsTool(t) /\ PolicyTypeOK /\ DecidedBy(t) /\ DraftBy(t) /\ UNCHANGED <<rows, labels, draft>>
  BY ToolDoes DEF ToolStep, ToolFrame, ClaimApproved, PolicyInv, Decisions, Drafts
<1>2. task[t].pc = "approved" /\ call[t].mods = Plan(t).mods /\ call[t].sent = 0 /\ task'[t].pc = "claimed"
  BY <1>1, GoIs DEF ClaimApproved, ToolAt, At, DecidedBy, DraftBy, Over, TypeOK, Places
<1>3. call' = [call EXCEPT ![t].approved = TRUE, ![t].permitted = Permits(t, rows, TRUE)]
  BY DEF ClaimApproved
<1>4. \A u \in Tasks \ {t} : call'[u] = call[u]
  BY <1>1, <1>3 DEF PolicyTypeOK
<1>5. /\ call'[t] \in CallRecords /\ call'[t].mods = call[t].mods /\ call'[t].permitted = Permits(t, rows, TRUE)
      /\ call'[t].approved = TRUE /\ call'[t].sent = call[t].sent
  <2>1. call[t] \in CallRecords /\ Permits(t, rows, TRUE) \in BOOLEAN
    BY <1>1 DEF PolicyTypeOK, Permits
  <2>2. call'[t] = [call[t] EXCEPT !.approved = TRUE, !.permitted = Permits(t, rows, TRUE)]
    BY <1>1, <1>3 DEF PolicyTypeOK
  <2> HIDE DEF Permits
  <2> QED
    BY <2>1, <2>2 DEF CallRecords
<1>6. PolicyTypeOK'
  <2>1. call' \in [Tasks -> CallRecords]
    BY <1>1, <1>3, <1>4, <1>5 DEF PolicyTypeOK
  <2> QED
    BY <1>1, <2>1 DEF PolicyTypeOK, ToolFrame
<1>7. Plan(t)' = Plan(t) /\ (Permits(t, rows, TRUE)' <=> Permits(t, rows, TRUE))
  BY <1>1 DEF ToolFrame, Plan, Permits, InForce
<1>8. DecidedBy(t)' /\ DraftBy(t)'
  BY <1>2, <1>5, <1>7 DEF DecidedBy, DraftBy
<1>9. \A u \in Tasks \ {t} : DraftBy(u)'
  BY <1>1, <1>4, OtherStays DEF PolicyInv, Drafts, ToolFrame, Alone
<1> QED
  BY <1>1, <1>4, <1>6, <1>8, <1>9, ToolPolicy

LEMMA ChangeLabelsPolicy ==
  ASSUME TypeOK, AskedOK, PolicyInv, NEW t \in Tasks, ChangeLabels(t)
  PROVE  PolicyInv'
<1>1. ToolFrame(t) /\ IsTool(t) /\ PolicyTypeOK /\ DraftBy(t) /\ UNCHANGED <<rows, read, draft, call>>
  BY ToolDoes DEF ToolStep, ToolFrame, ChangeLabels, PolicyInv, Drafts
<1>2. task[t].pc = "run" /\ call[t].sent = 0 /\ task'[t].pc \in {"done", "failed"}
  BY <1>1, GoIs DEF ChangeLabels, Performed, ToolAt, At, DraftBy, Over, TypeOK, Places
<1>3. labels' \in [Mailboxes -> SUBSET (SystemLabels \cup UserLabels)]
  <2>1. Plan(t).add \subseteq SystemLabels \cup UserLabels
    BY <1>1, PlanIs
  <2> QED
    BY <1>1, <2>1 DEF ChangeLabels, PolicyTypeOK
<1>4. PolicyTypeOK'
  BY <1>1, <1>3 DEF PolicyTypeOK
<1>5. DecidedBy(t)' /\ DraftBy(t)'
  BY <1>1, <1>2 DEF DecidedBy, DraftBy
<1>6. \A u \in Tasks \ {t} : DraftBy(u)'
  BY <1>1, OtherStays DEF PolicyInv, Drafts, ToolFrame, Alone
<1> QED
  BY <1>1, <1>4, <1>5, <1>6, ToolPolicy

\* A saved draft has moved under every call that is about to send it.
LEMMA NewDraftIs ==
  ASSUME PolicyTypeOK, NEW m \in Mailboxes, NewDraft(m)
  PROVE  /\ draft' \in [Mailboxes -> 0..MaxSaves + 1] /\ \A b \in Mailboxes \ {m} : draft'[b] = draft[b]
         /\ call' \in [Tasks -> CallRecords]
         /\ \A u \in Tasks :
              /\ call'[u].mods = call[u].mods /\ call'[u].approved = call[u].approved
              /\ call'[u].permitted = call[u].permitted /\ call'[u].sent = call[u].sent
              /\ call'[u].draft = call[u].draft /\ (call[u].moved => call'[u].moved)
              /\ ToolAt(u, "sending") /\ asked[u].mailbox = m => call'[u].moved
<1>1. draft \in [Mailboxes -> 0..MaxSaves + 1] /\ MaxSaves \in Nat
  BY PolicyAssumption DEF PolicyTypeOK
<1>2. draft[m] \in 1..MaxSaves /\ draft' = [draft EXCEPT ![m] = draft[m] + 1]
  BY DEF NewDraft
<1>3. draft' \in [Mailboxes -> 0..MaxSaves + 1] /\ \A b \in Mailboxes \ {m} : draft'[b] = draft[b]
  <2>1. draft[m] + 1 \in 0..MaxSaves + 1
    BY <1>1, <1>2
  <2> QED
    BY <1>1, <1>2, <2>1
<1>4. ASSUME NEW u \in Tasks
      PROVE  /\ call'[u] \in CallRecords
             /\ call'[u].mods = call[u].mods /\ call'[u].approved = call[u].approved
             /\ call'[u].permitted = call[u].permitted /\ call'[u].sent = call[u].sent
             /\ call'[u].draft = call[u].draft /\ (call[u].moved => call'[u].moved)
             /\ ToolAt(u, "sending") /\ asked[u].mailbox = m => call'[u].moved
  <2>1. call[u] \in CallRecords
    BY DEF PolicyTypeOK
  <2>2. call'[u] = IF ToolAt(u, "sending") /\ asked[u].mailbox = m THEN [call[u] EXCEPT !.moved = TRUE] ELSE call[u]
    BY DEF NewDraft
  <2> HIDE DEF ToolAt
  <2> QED
    BY <2>1, <2>2 DEF CallRecords
<1>5. call' \in [Tasks -> CallRecords]
  <2>1. call' = [u \in Tasks |-> IF ToolAt(u, "sending") /\ asked[u].mailbox = m THEN [call[u] EXCEPT !.moved = TRUE] ELSE call[u]]
    BY DEF NewDraft
  <2> QED
    BY <1>4, <2>1
<1> QED
  BY <1>3, <1>4, <1>5

LEMMA NewDraftKeeps ==
  ASSUME AskedOK, PolicyInv, NEW m \in Mailboxes, NewDraft(m), NEW u \in Tasks, task'[u] = task[u], asked' = asked
  PROVE  DraftBy(u)'
<1>1. DraftBy(u)
  BY DEF PolicyInv, Drafts
<1>2. CASE IsTool(u)
  <2>1. asked[u].mailbox \in Mailboxes
    BY <1>2, PlanIs
  <2>2. /\ \A b \in Mailboxes \ {m} : draft'[b] = draft[b]
        /\ call'[u].sent = call[u].sent /\ call'[u].draft = call[u].draft /\ (call[u].moved => call'[u].moved)
        /\ ToolAt(u, "sending") /\ asked[u].mailbox = m => call'[u].moved
    BY NewDraftIs DEF PolicyInv
  <2>3. task[u].pc = "sending" /\ asked[u].mailbox = m => call'[u].moved
    BY <1>2, <2>2 DEF ToolAt, At, IsTool
  <2> QED
    BY <1>1, <1>2, <2>1, <2>2, <2>3 DEF DraftBy, IsTool
<1>3. CASE ~IsTool(u)
  BY <1>3 DEF DraftBy, IsTool
<1> QED
  BY <1>2, <1>3

LEMMA SaveDraftPolicy ==
  ASSUME TypeOK, AskedOK, PolicyInv, NEW t \in Tasks, SaveDraft(t)
  PROVE  PolicyInv'
<1>1. ToolFrame(t) /\ IsTool(t) /\ PolicyTypeOK /\ DraftBy(t) /\ UNCHANGED <<rows, read, labels>>
  BY ToolDoes DEF ToolStep, ToolFrame, SaveDraft, PolicyInv, Drafts
<1>2. task[t].pc = "run" /\ call[t].sent = 0 /\ task'[t].pc \in {"done", "failed"}
  BY <1>1, GoIs DEF SaveDraft, Performed, ToolAt, At, DraftBy, Over, TypeOK, Places
<1>3. CASE UNCHANGED <<draft, call>>
  <2>1. DecidedBy(t)' /\ DraftBy(t)'
    BY <1>1, <1>2, <1>3 DEF DecidedBy, DraftBy
  <2> QED
    BY <1>1, <1>3, <2>1, SameCallsPolicy DEF policyVars
<1>4. CASE NewDraft(asked[t].mailbox)
  <2>1. asked[t].mailbox \in Mailboxes /\ asked' = asked /\ Alone(t)
    BY <1>1 DEF ToolFrame
  <2>2. /\ draft' \in [Mailboxes -> 0..MaxSaves + 1] /\ call' \in [Tasks -> CallRecords]
        /\ \A u \in Tasks : /\ call'[u].mods = call[u].mods /\ call'[u].approved = call[u].approved
                            /\ call'[u].permitted = call[u].permitted /\ call'[u].sent = call[u].sent
    BY <1>1, <1>4, <2>1, NewDraftIs
  <2>3. \A u \in Tasks \ {t} : DraftBy(u)'
    BY <1>4, <2>1, NewDraftKeeps DEF Alone
  <2>4. PolicyTypeOK'
    BY <1>1, <2>2 DEF PolicyTypeOK
  <2>5. DecidedBy(t)' /\ DraftBy(t)'
    BY <1>2, <2>2 DEF DecidedBy, DraftBy
  <2> QED
    BY <1>1, <2>2, <2>3, <2>4, <2>5, ToolPolicy
<1> QED
  BY <1>3, <1>4 DEF SaveDraft

LEMMA SendDraftPolicy ==
  ASSUME TypeOK, AskedOK, PolicyInv, NEW t \in Tasks, SendDraft(t)
  PROVE  PolicyInv'
<1> DEFINE m == asked[t].mailbox
<1>1. ToolFrame(t) /\ IsTool(t) /\ PolicyTypeOK /\ DraftBy(t) /\ UNCHANGED <<rows, read, labels>> /\ m \in Mailboxes
  BY ToolDoes DEF ToolStep, ToolFrame, SendDraft, PolicyInv, Drafts
<1>2. task[t].pc = "sending" /\ call[t].sent = 0 /\ task'[t].pc \in {"done", "failed"}
      /\ (draft[m] \in {0, call[t].draft} \/ call[t].moved)
  BY <1>1, GoIs DEF SendDraft, Performed, ToolAt, At, DraftBy, Over, TypeOK, Places
<1>3. CASE UNCHANGED <<draft, call>>
  <2>1. DecidedBy(t)' /\ DraftBy(t)'
    BY <1>1, <1>2, <1>3 DEF DecidedBy, DraftBy
  <2> QED
    BY <1>1, <1>3, <2>1, SameCallsPolicy DEF policyVars
<1>4. CASE draft[m] # 0 /\ draft' = [draft EXCEPT ![m] = 0] /\ call' = [call EXCEPT ![t].sent = draft[m]]
  <2>1. /\ draft \in [Mailboxes -> 0..MaxSaves + 1] /\ call \in [Tasks -> CallRecords] /\ draft[m] \in Nat
        /\ MaxSaves \in Nat
    BY <1>1, PolicyAssumption DEF PolicyTypeOK
  <2>2. draft' \in [Mailboxes -> 0..MaxSaves + 1] /\ draft'[m] = 0 /\ \A b \in Mailboxes \ {m} : draft'[b] = draft[b]
    BY <1>1, <1>4, <2>1
  <2>3. \A u \in Tasks \ {t} : call'[u] = call[u]
    BY <1>4, <2>1
  <2>4. /\ call'[t] \in CallRecords /\ call'[t].sent = draft[m] /\ call'[t].draft = call[t].draft
        /\ call'[t].moved = call[t].moved
    <3>1. call[t] \in CallRecords /\ call'[t] = [call[t] EXCEPT !.sent = draft[m]]
      BY <1>4, <2>1
    <3> HIDE DEF m
    <3> QED
      BY <2>1, <3>1 DEF CallRecords
  <2>5. call' \in [Tasks -> CallRecords]
    BY <1>4, <2>1, <2>3, <2>4
  <2>6. PolicyTypeOK'
    BY <1>1, <2>2, <2>5 DEF PolicyTypeOK
  <2>7. DecidedBy(t)' /\ DraftBy(t)'
    BY <1>2, <1>4, <2>4 DEF DecidedBy, DraftBy, Over
  <2>8. ASSUME NEW u \in Tasks \ {t}
        PROVE  DraftBy(u)'
    <3>1. DraftBy(u) /\ task'[u] = task[u] /\ asked' = asked
      BY <1>1 DEF ToolFrame, Alone, PolicyInv, Drafts
    <3>2. IsTool(u) => asked[u].mailbox \in Mailboxes
      BY PlanIs
    <3> QED
      BY <2>2, <2>3, <3>1, <3>2 DEF DraftBy, IsTool
  <2> QED
    BY <1>1, <2>3, <2>6, <2>7, <2>8, ToolPolicy
<1> QED
  BY <1>3, <1>4 DEF SendDraft

LEMMA EditDraftPolicy ==
  ASSUME TypeOK, AskedOK, PolicyInv, EditDraft
  PROVE  PolicyInv'
<1>1. PICK t \in Tasks : IsTool(t) /\ NewDraft(asked[t].mailbox)
  BY DEF EditDraft
<1>2. asked[t].mailbox \in Mailboxes /\ PolicyTypeOK
  BY <1>1, PlanIs DEF PolicyInv
<1>3. /\ draft' \in [Mailboxes -> 0..MaxSaves + 1] /\ call' \in [Tasks -> CallRecords]
      /\ \A u \in Tasks : /\ call'[u].mods = call[u].mods /\ call'[u].approved = call[u].approved
                          /\ call'[u].permitted = call[u].permitted
  BY <1>1, <1>2, NewDraftIs
<1>4. UNCHANGED <<rows, read, labels, asked, task>>
  BY DEF EditDraft, vars
<1>5. PolicyTypeOK'
  BY <1>2, <1>3, <1>4 DEF PolicyTypeOK
<1>6. ASSUME NEW u \in Tasks
      PROVE  DecidedBy(u)' /\ DraftBy(u)' /\ PostedBy(u)'
  <2>1. DecidedBy(u) /\ PostedBy(u)
    BY DEF PolicyInv, Decisions, Posted
  <2>2. DraftBy(u)'
    BY <1>1, <1>2, <1>4, NewDraftKeeps
  <2>3. PostedBy(u)'
    BY <1>4, <2>1, OtherStays
  <2>4. DecidedBy(u)'
    BY <1>3, <1>4, <2>1, SamePermits DEF DecidedBy, IsTool
  <2> QED
    BY <2>2, <2>3, <2>4
<1> QED
  BY <1>5, <1>6 DEF PolicyInv, Decisions, Drafts, Posted

LEMMA PolicyKeeps ==
  ASSUME AccessInv, PolicyInv, [PolicyNext]_allVars
  PROVE  AccessInv' /\ PolicyInv'
<1>1. TypeOK /\ AskedOK
  BY DEF AccessInv
<1>2. AccessInv'
  BY <1>1, PolicyMoves, AccessKeeps
<1>3. CASE Time /\ UNCHANGED policyVars
  BY <1>2, <1>3, TimePolicy
<1>4. CASE EditDraft
  BY <1>1, <1>2, <1>4, EditDraftPolicy
<1>5. ASSUME NEW t \in Tasks, Elsewhere(t) \/ ReadRows(t) \/ SaveRows(t)
      PROVE  PolicyInv'
  BY <1>5, ElsewherePolicy, ReadRowsPolicy, SaveRowsPolicy
<1>6. ASSUME NEW t \in Tasks, ToolStep(t)
      PROVE  PolicyInv'
  BY <1>1, <1>6, PlanCallPolicy, LooksPolicy, ClaimApprovedPolicy, ChangeLabelsPolicy, SaveDraftPolicy, SendDraftPolicy
     DEF ToolStep
<1>7. CASE UNCHANGED allVars
  BY <1>2, <1>7, TimePolicy DEF allVars
<1> QED
  BY <1>2, <1>3, <1>4, <1>5, <1>6, <1>7 DEF PolicyNext

LEMMA PolicyStart ==
  ASSUME PolicyInit
  PROVE  AccessInv /\ PolicyInv
<1>1. AccessInv
  BY AccessStart DEF PolicyInit
<1>2. PolicyTypeOK
  <2>1. NoCall \in CallRecords
    BY DEF NoCall, CallRecords
  <2>2. 1 \in 0..MaxSaves + 1
    BY PolicyAssumption
  <2>3. rows \in [Fields -> Levels \cup {"inherit"}]
    BY DEF PolicyInit
  <2>4. read \in [Tasks -> [Fields -> Levels \cup {"inherit", "none"}]]
    BY <2>3 DEF PolicyInit
  <2>5. labels \in [Mailboxes -> SUBSET (SystemLabels \cup UserLabels)]
    BY DEF PolicyInit, SystemLabels
  <2> QED
    BY <2>1, <2>2, <2>3, <2>4, <2>5 DEF PolicyTypeOK, PolicyInit
<1>3. \A t \in Tasks : task[t].pc = "start" /\ call[t] = NoCall
  BY DEF PolicyInit, Init, NoTask
<1>4. \A t \in Tasks : ~call[t].approved /\ call[t].sent = 0
  BY <1>3 DEF NoCall
<1>5. Decisions
  BY <1>3, <1>4 DEF Decisions, DecidedBy
<1>6. Drafts
  BY <1>3, <1>4 DEF Drafts, DraftBy
<1>7. Posted
  BY <1>3 DEF Posted, PostedBy, At
<1> QED
  BY <1>1, <1>2, <1>5, <1>6, <1>7 DEF PolicyInv

-----------------------------------------------------------------------------
(* The theorems.                                                            *)

\* The inductive invariant, over all that a policy, its tools and the requests of
\* Access can do.
THEOREM AccessInvariant == PolicySpec => [](AccessInv /\ PolicyInv)
<1>1. AccessInv /\ PolicyInv /\ [PolicyNext]_allVars => (AccessInv /\ PolicyInv)'
  BY PolicyKeeps
<1> QED
  BY PolicyStart, <1>1, PTL DEF PolicySpec

\* Every variable of Access and of Policy has its type.
THEOREM AccessIsTyped == PolicySpec => [](TypeOK /\ PolicyTypeOK)
<1>1. AccessInv /\ PolicyInv => TypeOK /\ PolicyTypeOK
  BY DEF AccessInv, PolicyInv
<1> QED
  BY <1>1, AccessInvariant, PTL

\* A row never mixes two grants, and a pinned caller gets the grant of its pin,
\* whatever refresh, rewrap, reconnect and revocation do between each other's steps.
THEOREM CredentialsStayTogether == PolicySpec => []CredentialsAgree
<1>1. ASSUME AccessInv
      PROVE  CredentialsAgree
  <2>1. TypeOK /\ RowsOK /\ Versions /\ Tokens
    BY <1>1 DEF AccessInv, Credentials
  <2>2. CredentialsMatch
    BY <2>1 DEF RowsOK, CredentialsMatch
  <2>3. ASSUME NEW t \in Tasks, At(t, {"token"}, "done"), asked[t].pin # None
        PROVE  <<asked[t].mailbox, asked[t].pin, task[t].grant>> \in minted
    BY <2>1, <2>3 DEF Tokens, TokenBy, At
  <2> QED
    BY <2>1, <2>2, <2>3 DEF CredentialsAgree, PinnedIsItsGrant, Versions
<1> QED
  BY <1>1, AccessInvariant, PTL

\* However connects, reconnects and revocations race, a live grant is in a row, in the
\* hands of a request, or one of those a single failure or reconnect gave up unheard.
THEOREM NoGrantIsForgotten == PolicySpec => []NothingLeftLive
<1>1. ASSUME AccessInv
      PROVE  NothingLeftLive
  <2>1. ASSUME NEW g \in live
        PROVE  g \in {account[m].refresh : m \in Mailboxes} \cup abandoned \cup {Hand(t) : t \in {u \in Tasks : InHand(u)}}
    <3>1. g # None
      BY <1>1, NoneIsNothing DEF AccessInv, TypeOK
    <3>2. g \in abandoned \/ Stands(g) \/ (\E t \in Tasks : Tells(t, g)) \/ \E t \in Tasks : Carries(t, g)
      BY <1>1 DEF AccessInv, Live, Kept
    <3>3. ASSUME NEW t \in Tasks, Tells(t, g) \/ Carries(t, g)
          PROVE  InHand(t) /\ Hand(t) = g
      BY <3>1, <3>3 DEF Tells, Carries, InHand, Hand, At
    <3> QED
      BY <3>2, <3>3 DEF Stands
  <2> QED
    BY <2>1 DEF NothingLeftLive
<1> QED
  BY <1>1, AccessInvariant, PTL

\* A one-use state serves one request, of its own kind and before it expires.
THEOREM StatesServeOnce == PolicySpec => []StateServesOnce
<1>1. ASSUME AccessInv
      PROVE  StateServesOnce
  <2>1. \A t \in Tasks : Served(t) => Holds(t)
    BY DEF Served, Holds
  <2>2. HeldStates
    BY <1>1 DEF AccessInv, Web
  <2> QED
    BY <2>1, <2>2 DEF StateServesOnce, HeldStates, HeldBy
<1> QED
  BY <1>1, AccessInvariant, PTL

\* The companion is registered once, and whoever is answered is answered with it.
THEOREM CompanionIsOne == PolicySpec => []OneCompanion
<1>1. ASSUME AccessInv
      PROVE  OneCompanion
  <2>1. Attempted /\ Registering
    BY <1>1 DEF AccessInv, Companion
  <2>2. Cardinality(clients) <= 1
    <3>1. CASE clients = {}
      BY <3>1, FS_EmptySet
    <3>2. CASE clients # {}
      <4>1. PICK c \in clients : clients = {c}
        BY <2>1, <3>2 DEF Attempted
      <4>2. Cardinality({c}) = 1
        BY FS_Singleton
      <4> QED
        BY <4>1, <4>2
    <3> QED
      BY <3>1, <3>2
  <2> QED
    BY <2>1, <2>2 DEF OneCompanion, Registering, RegisteringBy, At
<1> QED
  BY <1>1, AccessInvariant, PTL

\* What a tool does was permitted by the policy in force, and a draft is sent as it
\* was approved, or was saved after the last look.
THEOREM CallsRunAsDecided == PolicySpec => []RunsAsDecided
<1>1. ASSUME PolicyInv
      PROVE  RunsAsDecided
  <2>1. DecisionInForce
    BY <1>1 DEF PolicyInv, Decisions, DecidedBy, DecisionInForce, ToolAt, At, IsTool
  <2>2. SentAsApproved
    BY <1>1 DEF PolicyInv, Drafts, DraftBy, SentAsApproved
  <2> QED
    BY <2>1, <2>2 DEF RunsAsDecided
<1> QED
  BY <1>1, AccessInvariant, PTL

\* Only two steps make a session recently authenticated.
LEMMA QuietStep ==
  ASSUME AccessInv, NEW t \in Tasks, Step(t), ~Mark(t), ~CreateSession(t)
  PROVE  NoLogin
<1>1. TypeOK /\ AskedOK /\ Web /\ Companion /\ RowsOK /\ Versions /\ Tokens /\ Connects /\ Revocations /\ Defaults
  BY DEF AccessInv, Credentials
<1>2. CASE TokenStep(t)
  BY <1>1, <1>2, TokenDoes, StaysNoLogin DEF web
<1>3. CASE PageStep(t)
  BY <1>1, <1>3, PageDoes DEF PageFrame
<1>4. CASE CallbackStep(t)
  <2>1. session' = session \/ session' = [session EXCEPT ![asked[t].cookie].alive = FALSE]
    BY <1>4 DEF CallbackStep, Callback, Identify, Reauth, Login, web
  <2> QED
    BY <1>1, <2>1, StaysNoLogin, SessionEnds DEF TypeOK
<1>5. CASE DecideStep(t)
  BY <1>1, <1>5, DecideDoes, StaysNoLogin
<1>6. CASE ConnectStep(t)
  BY <1>1, <1>6, ConnectDoes, StaysNoLogin DEF ConnectFrame
<1>7. CASE RevokeStep(t)
  BY <1>1, <1>7, RevokeDoes DEF RevokeFrame
<1>8. CASE DefaultStep(t)
  BY <1>1, <1>8, DefaultDoes, StaysNoLogin DEF web
<1>9. CASE CompanionStep(t)
  BY <1>1, <1>9, CompanionDoes, StaysNoLogin DEF web
<1> QED
  BY <1>2, <1>3, <1>4, <1>5, <1>6, <1>7, <1>8, <1>9, StepAreas

\* The callback that makes the session s recently authenticated.
Vouches(t, s) ==
  /\ asked[t].kind = "callback" /\ Running(t)
  /\ asked[t].sub = session'[s].user
  /\ state[asked[t].state].used
  /\ \/ session[s] = NoSession /\ state[asked[t].state].kind = "login"
     \/ state[asked[t].state].kind = "reauth" /\ state[asked[t].state].session = s

LEMMA LoginStep ==
  ASSUME AccessInv, NEW t \in Tasks, Mark(t) \/ CreateSession(t),
         NEW s \in Sessions, ~session[s].recent, session'[s].recent
  PROVE  Vouches(t, s)
<1>1. session \in [Sessions -> WebSessions] /\ LoggingInBy(t) /\ HeldStates
  BY DEF AccessInv, TypeOK, Web, LoggingIn
<1>2. asked[t].kind = "callback" /\ task[t].pc \in {"mark", "create"} /\ Running(t)
  BY DEF Mark, CreateSession, At, Running, Over
<1>3. state[asked[t].state].used
  BY <1>1, <1>2, HeldKind
<1>4. CASE Mark(t)
  <2>1. session' = [session EXCEPT ![task[t].session].recent = TRUE] /\ task[t].pc = "mark"
    BY <1>4 DEF Mark, At
  <2>2. s = task[t].session
    BY <1>1, <2>1
  <2>3. session'[s].user = session[s].user
    BY <1>1, <2>1 DEF WebSessions
  <2> QED
    BY <1>1, <1>2, <1>3, <2>1, <2>2, <2>3 DEF Vouches, LoggingInBy
<1>5. CASE CreateSession(t)
  <2>1. PICK r \in Sessions : /\ session[r] = NoSession
                              /\ session' = [session EXCEPT ![r] = [user |-> asked[t].sub, alive |-> TRUE, recent |-> TRUE]]
    BY <1>5 DEF CreateSession
  <2>2. s = r /\ task[t].pc = "create"
    BY <1>1, <1>5, <2>1 DEF CreateSession, At
  <2>3. session'[s].user = asked[t].sub
    BY <1>1, <2>1, <2>2
  <2> QED
    BY <1>1, <1>2, <1>3, <2>1, <2>2, <2>3 DEF Vouches, LoggingInBy
<1> QED
  BY <1>4, <1>5

\* A session becomes recently authenticated only by a login of its own user, which
\* that session asked for, or by being made by a login.
THEOREM LoginsAreTheirOwn == PolicySpec => FreshLoginIsItsOwn
<1>1. AccessInv /\ PolicyInv /\ [PolicyNext]_allVars =>
        [\A s \in Sessions :
           (~session[s].recent /\ session'[s].recent)
             => \E t \in Tasks : /\ asked[t].kind = "callback" /\ Running(t)
                                 /\ asked[t].sub = session'[s].user
                                 /\ state[asked[t].state].used
                                 /\ \/ session[s] = NoSession /\ state[asked[t].state].kind = "login"
                                    \/ state[asked[t].state].kind = "reauth" /\ state[asked[t].state].session = s]_vars
  <2> SUFFICES ASSUME AccessInv, PolicyInv, [PolicyNext]_allVars,
                      NEW s \in Sessions, ~session[s].recent, session'[s].recent
               PROVE  \E t \in Tasks : Vouches(t, s)
    BY DEF Vouches
  <2>1. TypeOK /\ AskedOK
    BY DEF AccessInv
  <2>2. ~NoLogin
    BY DEF NoLogin
  <2>3. ~Time /\ ~UNCHANGED vars
    BY <2>1, <2>2, TimeDoes, StaysNoLogin DEF vars
  <2>4. \A t \in Tasks : ToolMoves(t) => NoLogin
    BY StaysNoLogin DEF ToolMoves, web
  <2>5. PICK t \in Tasks : Step(t)
    BY <2>1, <2>2, <2>3, <2>4, PolicyMoves
  <2>6. Mark(t) \/ CreateSession(t)
    BY <2>2, <2>5, QuietStep
  <2> QED
    BY <2>6, LoginStep
<1> QED
  BY <1>1, AccessInvariant, PTL DEF PolicySpec, FreshLoginIsItsOwn

\* Who saves: the step in which a policy page is done.
LEMMA SaveIsSaveRows ==
  ASSUME AccessInv, PolicyInv, [PolicyNext]_allVars, NEW t \in Tasks,
         At(t, {"policy"}, "edit"), task'[t].pc = "done"
  PROVE  SaveRows(t)
<1>1. TypeOK /\ AskedOK /\ task'[t] # task[t] /\ asked[t].kind = "policy"
  BY DEF AccessInv, At
<1>2. ~Time /\ ~EditDraft /\ ~UNCHANGED allVars
  BY <1>1, TimeDoes DEF EditDraft, allVars, vars
<1>3. PICK u \in Tasks : Elsewhere(u) \/ ReadRows(u) \/ SaveRows(u) \/ ToolStep(u)
  BY <1>2 DEF PolicyNext
<1>4. Alone(u)
  <2>1. CASE ToolStep(u)
    BY <1>1, <2>1, ToolDoes DEF ToolFrame
  <2>2. CASE Elsewhere(u) \/ ReadRows(u) \/ SaveRows(u)
    BY <2>2, StepIs DEF Elsewhere, ReadRows, SaveRows, Step
  <2> QED
    BY <1>3, <2>1, <2>2
<1>5. u = t
  BY <1>1, <1>4 DEF Alone
<1>6. ~ToolStep(t)
  BY <1>1, ToolDoes DEF ToolFrame, IsTool
<1>7. ~Elsewhere(t) /\ ~ReadRows(t)
  BY DEF Elsewhere, ReadRows, ReadPolicy, At
<1> QED
  BY <1>3, <1>5, <1>6, <1>7

LEMMA FieldsAre ==
  ASSUME NEW m \in Scopes, NEW a \in Actions
  PROVE  <<m, a>> \in Fields /\ <<m, a>>[1] = m
BY DEF Fields

\* A page writes what its owner asked for, and leaves alone what it showed unchanged.
LEMMA SaveWrites ==
  ASSUME PolicyTypeOK, NEW t \in Tasks, InputOK(asked[t]), asked[t].kind = "policy", SaveRows(t)
  PROVE  /\ \A f \in Fields : rows'[f] # rows[f] => (f \in DOMAIN Wanted(t) /\ rows'[f] = Wanted(t)[f])
         /\ \A f \in DOMAIN Wanted(t) : /\ Wanted(t)[f] = read[t][f] => rows'[f] = rows[f]
                                       /\ f \notin Meanwhile(t) => rows'[f] = Wanted(t)[f]
<1>1. \A f \in Fields : rows'[f] = IF f \in DOMAIN Changes(t) THEN Changes(t)[f] ELSE rows[f]
  BY DEF SaveRows
<1>2. CASE asked[t].preset
  <2>1. ASSUME NEW f \in Fields
        PROVE  /\ Wanted(t)[f] = IF f[1] = All THEN "allow" ELSE "inherit"
               /\ rows'[f] = IF (IF f[1] = All THEN read[t][f] # "allow" ELSE read[t][f] \in Levels)
                             THEN Wanted(t)[f] ELSE rows[f]
    BY <1>1, <1>2, <2>1 DEF Wanted, Changes, AllowAll
  <2>2. DOMAIN Wanted(t) = Fields
    BY <1>2 DEF Wanted
  <2>3. \A f \in Fields : read[t][f] \in Levels \cup {"inherit", "none"}
    BY DEF PolicyTypeOK
  <2>4. ASSUME NEW f \in Fields
        PROVE  /\ rows'[f] # rows[f] => rows'[f] = Wanted(t)[f]
               /\ Wanted(t)[f] = read[t][f] => rows'[f] = rows[f]
               /\ f \notin Meanwhile(t) => rows'[f] = Wanted(t)[f]
    BY <2>1, <2>3 DEF Meanwhile, Levels
  <2> QED
    BY <2>2, <2>4
<1>3. CASE ~asked[t].preset
  <2>1. DOMAIN asked[t].form \subseteq Fields
    BY <1>3 DEF InputOK
  <2>2. /\ DOMAIN Wanted(t) = {g \in DOMAIN asked[t].form : read[t][g] # "none"}
        /\ \A f \in DOMAIN Wanted(t) : Wanted(t)[f] = asked[t].form[f]
    BY <1>3 DEF Wanted
  <2>3. ASSUME NEW f \in Fields
        PROVE  rows'[f] = IF f \in DOMAIN Wanted(t) /\ read[t][f] # Wanted(t)[f] THEN Wanted(t)[f] ELSE rows[f]
    BY <1>1, <1>3, <2>2 DEF Changes, Edited
  <2>4. ASSUME NEW f \in DOMAIN Wanted(t), f \notin Meanwhile(t)
        PROVE  rows'[f] = Wanted(t)[f]
    BY <2>1, <2>2, <2>3, <2>4 DEF Meanwhile
  <2> QED
    BY <2>1, <2>2, <2>3, <2>4
<1> QED
  BY <1>2, <1>3

\* The preset opens every action on every mailbox, where nothing was saved meanwhile.
LEMMA PresetAllows ==
  ASSUME PolicyTypeOK, NEW t \in Tasks, SaveRows(t), InputOK(asked[t]), asked[t].kind = "policy", asked[t].preset,
         NEW m \in Mailboxes, NEW a \in Actions, {<<m, a>>, <<All, a>>} \cap Meanwhile(t) = {}
  PROVE  resolveLevel(m, a)'.level = "allow"
<1>1. m # All /\ m \in Scopes /\ All \in Scopes
  BY PolicyAssumption DEF Scopes
<1>2. <<m, a>> \in Fields /\ <<All, a>> \in Fields /\ <<m, a>>[1] = m /\ <<All, a>>[1] = All
  BY <1>1, FieldsAre
<1>3. DOMAIN Wanted(t) = Fields /\ Wanted(t)[<<m, a>>] = "inherit" /\ Wanted(t)[<<All, a>>] = "allow"
  BY <1>1, <1>2 DEF Wanted
<1>4. rows'[<<m, a>>] = "inherit" /\ rows'[<<All, a>>] = "allow"
  BY <1>2, <1>3, SaveWrites
<1> QED
  BY <1>4 DEF resolveLevel

\* A save writes what its owner asked for and undoes no other page's save of a field it
\* shows unchanged; and it ends the other sessions of its user, and no other user's.
THEOREM SavesAreAsPosted == PolicySpec => SavedAsPosted
<1>1. AccessInv /\ PolicyInv /\ [PolicyNext]_allVars =>
        [\A t \in Tasks : (At(t, {"policy"}, "edit") /\ task'[t].pc = "done") =>
           /\ \A s \in Sessions \ {task[t].session} :
                IF session[s].user = session[task[t].session].user THEN ~session'[s].alive ELSE session'[s] = session[s]
           /\ \A f \in Fields : rows'[f] # rows[f] => (f \in DOMAIN Wanted(t) /\ rows'[f] = Wanted(t)[f])
           /\ \A f \in DOMAIN Wanted(t) : /\ Wanted(t)[f] = read[t][f] => rows'[f] = rows[f]
                                         /\ f \notin Meanwhile(t) => rows'[f] = Wanted(t)[f]
           /\ asked[t].preset =>
                \A m \in Mailboxes, a \in Actions :
                  {<<m, a>>, <<All, a>>} \cap Meanwhile(t) = {} => resolveLevel(m, a)'.level = "allow"]_allVars
  <2> SUFFICES ASSUME AccessInv, PolicyInv, [PolicyNext]_allVars, NEW t \in Tasks,
                      At(t, {"policy"}, "edit"), task'[t].pc = "done"
               PROVE  /\ \A s \in Sessions \ {task[t].session} :
                           IF session[s].user = session[task[t].session].user THEN ~session'[s].alive ELSE session'[s] = session[s]
                      /\ \A f \in Fields : rows'[f] # rows[f] => (f \in DOMAIN Wanted(t) /\ rows'[f] = Wanted(t)[f])
                      /\ \A f \in DOMAIN Wanted(t) : /\ Wanted(t)[f] = read[t][f] => rows'[f] = rows[f]
                                                    /\ f \notin Meanwhile(t) => rows'[f] = Wanted(t)[f]
                      /\ asked[t].preset =>
                           \A m \in Mailboxes, a \in Actions :
                             {<<m, a>>, <<All, a>>} \cap Meanwhile(t) = {} => resolveLevel(m, a)'.level = "allow"
    OBVIOUS
  <2>1. SaveRows(t) /\ PolicyTypeOK /\ InputOK(asked[t]) /\ asked[t].kind = "policy"
    BY SaveIsSaveRows DEF PolicyInv, AccessInv, AskedOK, At
  <2>2. \A s \in Sessions \ {task[t].session} :
          IF session[s].user = session[task[t].session].user THEN ~session'[s].alive ELSE session'[s] = session[s]
    BY <2>1, OthersEnd DEF SaveRows, EditPolicy, AccessInv, TypeOK
  <2>3. /\ \A f \in Fields : rows'[f] # rows[f] => (f \in DOMAIN Wanted(t) /\ rows'[f] = Wanted(t)[f])
        /\ \A f \in DOMAIN Wanted(t) : /\ Wanted(t)[f] = read[t][f] => rows'[f] = rows[f]
                                      /\ f \notin Meanwhile(t) => rows'[f] = Wanted(t)[f]
    BY <2>1, SaveWrites
  <2>4. asked[t].preset =>
          \A m \in Mailboxes, a \in Actions :
            {<<m, a>>, <<All, a>>} \cap Meanwhile(t) = {} => resolveLevel(m, a)'.level = "allow"
    BY <2>1, PresetAllows
  <2> QED
    BY <2>2, <2>3, <2>4
<1> QED
  BY <1>1, AccessInvariant, PTL DEF PolicySpec, SavedAsPosted

=============================================================================
