------------------------------- MODULE Access -------------------------------
(***************************************************************************)
(* Who may act, and with which Google credential: connected mailboxes and  *)
(* their tokens, web sessions, one-use OAuth states, and the registration  *)
(* of the companion's client.                                              *)
(*                                                                         *)
(* Every request is a task.  A task reads a row, works, and writes with    *)
(* the guard the code's statement has; between two of its steps any other  *)
(* task may run.  A D1 statement or batch is one action.  A request whose  *)
(* isolate dies, or that throws and gives nothing up by it, is a task that *)
(* takes no further step.  Time only ages things: a token, a session, a    *)
(* state, a lease.                                                         *)
(*                                                                         *)
(* One owner's mailboxes are followed (every query names the user); the    *)
(* sessions are every owner's.  A grant is what one consent at Google      *)
(* created, named by a number; a refresh token and the access tokens       *)
(* bought with it carry its number.                                        *)
(***************************************************************************)
EXTENDS Naturals, FiniteSets

CONSTANTS
  Mailboxes,   \* Google accounts that can be connected (google_sub)
  Aliases,     \* aliases the owner may give
  Owners,      \* OWNER_GOOGLE_SUBS
  Identities,  \* Google accounts a browser can log in with
  Sessions,    \* ids of web sessions
  States,      \* ids of one-use states
  Tasks,       \* requests
  Attempts,    \* tries of revokeAccount
  Workloads,   \* bound: the requests of one history and the world they meet
  None

NoAccount == [status |-> "absent", version |-> 0, refresh |-> None, access |-> None,
              fresh |-> FALSE, old |-> FALSE, default |-> FALSE, alias |-> None]
NoSession == [user |-> None, alive |-> FALSE, recent |-> FALSE]
NoState == [kind |-> "none", session |-> None, user |-> None, alias |-> None,
            used |-> FALSE, expired |-> FALSE]
NoAttempt == [id |-> None, marker |-> None, fence |-> None]
NoTask == [pc |-> "start", session |-> None, row |-> NoAccount, grant |-> None, tries |-> 0,
           seen |-> NoAttempt]

\* The rows, and what a request has in memory.
Accounts ==
  [status : {"absent", "active", "needs_reconnect", "revoked"}, version : Nat,
   refresh : Nat \cup {None}, access : Nat \cup {None}, fresh : BOOLEAN, old : BOOLEAN,
   default : BOOLEAN, alias : Aliases \cup {None}]
WebSessions == [user : Identities \cup {None}, alive : BOOLEAN, recent : BOOLEAN]
OneUseStates ==
  [kind : {"none", "login", "reauth", "connect", "authreq"}, session : Sessions \cup {None},
   user : Identities \cup {None}, alias : Aliases \cup {None}, used : BOOLEAN, expired : BOOLEAN]
Registrations == [id : Tasks \cup {None}, marker : Tasks \cup {None}, fence : Tasks \cup {None}]
\* Where a request can be; the last line is of tool calls (Policy).
Places ==
  {"start", "done", "failed",
   "rewrap", "pinned", "refresh", "reject", "write", "last",
   "load", "wipe", "tell", "others", "read", "set", "edit", "leave",
   "identify", "login", "reauth", "mark", "create", "complete",
   "consume", "exchange", "verify", "lookup", "insert", "reconnect", "record", "undo",
   "look", "reserve", "found", "wait", "claim", "list", "compare",
   "planned", "asked", "approved", "claimed", "run", "sending"}
Calls ==
  [pc : Places, session : Sessions \cup {None}, row : Accounts, grant : Nat \cup Tasks \cup {None},
   tries : Nat, seen : Registrations]

\* A row has the access token of its own refresh token, and an active one has both
\* columns set; the numbers up to that of the mailboxes name the grants found.
RowOK(row) ==
  /\ row.status = "absent" => row = NoAccount
  /\ row.status = "active" => row.refresh # None
  /\ row.status = "revoked" => row.refresh = None
  /\ row.access \in {None, row.refresh}
  /\ row.refresh # None => row.refresh \in 1..Cardinality(Mailboxes)

\* A request names what its route or its form names.
AskOK(r) ==
  /\ r.kind \in {"token", "connect", "revoke", "default"} => r.mailbox \in Mailboxes
  /\ r.kind \in {"reauth_start", "connect_start", "callback", "revoke", "policy", "companion", "default",
                 "connect", "decide", "logout"} => r.cookie \in Sessions \cup {None}
  /\ r.kind \in {"login_start", "authorize_start", "reauth_start", "connect_start", "callback", "connect",
                 "decide"} => r.state \in States
  /\ r.kind = "connect_start" => r.alias \in Aliases
  /\ r.kind = "callback" => r.sub \in Identities
  /\ r.kind = "token" => r.pin \in Nat \cup {None}

ASSUME AccessAssumption ==
  /\ Owners \subseteq Identities
  /\ Attempts \in Nat \ {0}
  /\ IsFiniteSet(Mailboxes)
  /\ None \notin Nat \cup Mailboxes \cup Aliases \cup Identities \cup Sessions \cup States \cup Tasks

ASSUME WorkloadsAssumption ==
  \A w \in Workloads :
    /\ w.account \in [Mailboxes -> Accounts] /\ \A m \in Mailboxes : RowOK(w.account[m])
    /\ w.session \in [Sessions -> WebSessions]
    /\ w.state \in [States -> OneUseStates]
    /\ \A t \in Tasks : AskOK(w.asked[t])

VARIABLES
  account,   \* accounts, one row for a mailbox
  live,      \* grants that Google still honours
  grants,    \* how many grants Google has given
  session,   \* web_sessions
  state,     \* oauth_states
  setting,   \* settings: the companion's client id, or the attempt to register it
  leased,    \* the attempt's lease_until is in the future
  clients,   \* clients in the OAuth provider's store: id and name
  asked,     \* what each task asks for
  task,      \* where each task is, and what it has read
  minted,    \* history: which grant a mailbox's credential_version stands for
  abandoned  \* history: grants given up without Google hearing of it (see NothingLeftLive)

vars == <<account, live, grants, session, state, setting, leased, clients, asked, task, minted, abandoned>>
google == <<live, grants, abandoned>>
web == <<session, state>>
registration == <<setting, leased, clients>>

Init ==
  /\ \E w \in Workloads : /\ asked = w.asked
                          /\ account = w.account
                          /\ session = w.session
                          /\ state = w.state
  /\ live = {account[m].refresh : m \in Mailboxes} \ {None}
  /\ grants = Cardinality(Mailboxes)   \* the numbers so far name the grants of the rows
  /\ setting = NoAttempt
  /\ leased = FALSE
  /\ clients = {}
  /\ task = [t \in Tasks |-> NoTask]
  /\ minted = {<<m, account[m].version, account[m].refresh>> : m \in {b \in Mailboxes : account[b].refresh # None}}
  /\ abandoned = {}

-----------------------------------------------------------------------------
(* A task that is at a step, of one of the kinds that reach it, and the     *)
(* ways it goes on.                                                         *)

At(t, kinds, pc) == asked[t].kind \in kinds /\ task[t].pc = pc
Go(t, pc) == task' = [task EXCEPT ![t].pc = pc]
Over == {"done", "failed"}
Running(t) == task[t].pc \notin Over

-----------------------------------------------------------------------------
(* Access tokens (google/tokens.ts).                                        *)

\* Mutant of Unchanged: the version read at the start is not compared.
UnchangedMut(t) == account[asked[t].mailbox].status = "active"

\* The guard every credential write carries.
Unchanged(t) == LET row == account[asked[t].mailbox]
                IN  row.status = "active" /\ row.version = task[t].row.version

\* checkPinned: the grant is still the one the caller was admitted under.
PinHolds(t) == LET row == account[asked[t].mailbox]
               IN  asked[t].pin = None \/ (row.status = "active" /\ row.version = asked[t].pin)

Cached(t, row) == ~asked[t].force /\ row.access # None /\ row.fresh

TokenLoad(t) ==
  /\ At(t, {"token"}, "start")
  /\ LET row == account[asked[t].mailbox]
         next == IF row.status # "active" \/ asked[t].pin \notin {None, row.version} THEN "failed"
                 ELSE IF Cached(t, row) THEN (IF row.old THEN "rewrap" ELSE "last")
                 ELSE IF row.refresh = None THEN "failed"
                 ELSE "pinned"
     IN  task' = [task EXCEPT ![t].pc = next, ![t].row = row,
                    ![t].grant = IF next \in {"rewrap", "last"} THEN row.access ELSE None]
  /\ UNCHANGED <<account, google, web, registration, asked, minted>>

\* What a token task writes, when the row is still the one it read.
Rewrapped(t, row) == [row EXCEPT !.access = task[t].row.access, !.refresh = task[t].row.refresh, !.old = FALSE]
Refreshed(t, row) ==
  [row EXCEPT !.access = task[t].grant, !.fresh = TRUE,
              !.refresh = IF task[t].row.old THEN task[t].row.refresh ELSE @, !.old = FALSE]

GuardedWrite(t, new) ==
  IF Unchanged(t)
  THEN /\ account' = [account EXCEPT ![asked[t].mailbox] = new]
       /\ Go(t, "last")
  ELSE Go(t, "failed") /\ UNCHANGED account

Rewrap(t) ==
  /\ At(t, {"token"}, "rewrap")
  /\ GuardedWrite(t, Rewrapped(t, account[asked[t].mailbox]))
  /\ UNCHANGED <<google, web, registration, asked, minted>>

CheckPinned(t) ==
  /\ At(t, {"token"}, "pinned")
  /\ Go(t, IF PinHolds(t) THEN "refresh" ELSE "failed")
  /\ UNCHANGED <<account, google, web, registration, asked, minted>>

\* Google sells an access token while it honours the grant, and otherwise says
\* invalid_grant; a call may also fail.
Refresh(t) ==
  /\ At(t, {"token"}, "refresh")
  /\ \/ IF task[t].row.refresh \in live
        THEN task' = [task EXCEPT ![t].pc = "write", ![t].grant = task[t].row.refresh]
        ELSE Go(t, "reject")
     \/ Go(t, "failed")
  /\ UNCHANGED <<account, google, web, registration, asked, minted>>

NeedsReconnect(t) ==
  /\ At(t, {"token"}, "reject")
  /\ account' = IF Unchanged(t)
                THEN [account EXCEPT ![asked[t].mailbox].status = "needs_reconnect",
                        ![asked[t].mailbox].access = None, ![asked[t].mailbox].fresh = FALSE]
                ELSE account
  /\ Go(t, "failed")
  /\ UNCHANGED <<google, web, registration, asked, minted>>

WriteToken(t) ==
  /\ At(t, {"token"}, "write")
  /\ GuardedWrite(t, Refreshed(t, account[asked[t].mailbox]))
  /\ UNCHANGED <<google, web, registration, asked, minted>>

ReturnToken(t) ==
  /\ At(t, {"token"}, "last")
  /\ Go(t, IF PinHolds(t) THEN "done" ELSE "failed")
  /\ UNCHANGED <<account, google, web, registration, asked, minted>>

-----------------------------------------------------------------------------
(* Sessions and one-use states (web/session.ts, web/state.ts).              *)

Readable(s) == IF s = None THEN FALSE ELSE session[s].alive

\* revokeOtherSessions: every other session of the user of the one that acts.
OthersRevoked(keep) ==
  [s \in Sessions |-> IF s # keep /\ session[s].user = session[keep].user
                      THEN [session[s] EXCEPT !.alive = FALSE] ELSE session[s]]

\* Mutant of Consumable: a state that was consumed is found again.
ConsumableMut(s, kind) == state[s].kind = kind /\ ~state[s].expired

\* consumeState: one guarded UPDATE, so one winner.
Consumable(s, kind) == state[s].kind = kind /\ ~state[s].used /\ ~state[s].expired
Used(s) == [state EXCEPT ![s].used = TRUE]

\* putState, for a request that asks for a fresh state.
Put(t, kind, cookie, user, alias) ==
  /\ state[asked[t].state] = NoState
  /\ state' = [state EXCEPT ![asked[t].state] =
                 [NoState EXCEPT !.kind = kind, !.session = cookie, !.user = user, !.alias = alias]]
  /\ Go(t, "done")

\* GET /login and GET /authorize need no session; POST /reauth and GET /connect do.
StartLogin(t) ==
  /\ At(t, {"login_start"}, "start")
  /\ Put(t, "login", None, None, None)
  /\ UNCHANGED <<account, google, session, registration, asked, minted>>

StartAuthorize(t) ==
  /\ At(t, {"authorize_start"}, "start")
  /\ Put(t, "authreq", None, None, None)
  /\ UNCHANGED <<account, google, session, registration, asked, minted>>

StartReauth(t) ==
  /\ At(t, {"reauth_start"}, "start")
  /\ IF Readable(asked[t].cookie)
     THEN Put(t, "reauth", asked[t].cookie, None, None)
     ELSE Go(t, "failed") /\ UNCHANGED state
  /\ UNCHANGED <<account, google, session, registration, asked, minted>>

StartConnect(t) ==
  /\ At(t, {"connect_start"}, "start")
  /\ IF Readable(asked[t].cookie)
     THEN Put(t, "connect", asked[t].cookie, session[asked[t].cookie].user, asked[t].alias)
     ELSE Go(t, "failed") /\ UNCHANGED state
  /\ UNCHANGED <<account, google, session, registration, asked, minted>>

\* requireSession, requireRecent: a page's POST goes on with the session it read.
Recent == {"revoke", "policy", "companion"}
FirstStep == [revoke |-> "load", policy |-> "read", companion |-> "look", default |-> "read",
              connect |-> "consume", decide |-> "consume", logout |-> "leave"]

Enter(t) ==
  /\ At(t, DOMAIN FirstStep, "start")
  /\ LET c == asked[t].cookie
         admitted == Readable(c) /\ (asked[t].kind \in Recent => session[c].recent)
     IN  task' = [task EXCEPT ![t].pc = IF admitted THEN FirstStep[asked[t].kind] ELSE "failed",
                              ![t].session = IF admitted THEN c ELSE None]
  /\ UNCHANGED <<account, google, web, registration, asked, minted>>

Logout(t) ==
  /\ At(t, {"logout"}, "leave")
  /\ session' = [session EXCEPT ![task[t].session].alive = FALSE]
  /\ Go(t, "done")
  /\ UNCHANGED <<account, google, state, registration, asked, minted>>

\* The page reads the saved levels and refuses a form it cannot read.  (The rows
\* are Policy's.)
ReadPolicy(t) ==
  /\ At(t, {"policy"}, "read")
  /\ \E pc \in {"edit", "failed"} : Go(t, pc)
  /\ UNCHANGED <<account, google, web, registration, asked, minted>>

\* applyPolicyEdit: the rows, the audit row and the revocation of the user's
\* other sessions are one batch.
EditPolicy(t) ==
  /\ At(t, {"policy"}, "edit")
  /\ session' = OthersRevoked(task[t].session)
  /\ Go(t, "done")
  /\ UNCHANGED <<account, google, state, registration, asked, minted>>

-----------------------------------------------------------------------------
(* Login and reauthentication (web/login.ts), and the consent page          *)
(* (auth/authorize.ts).                                                     *)

\* The purpose is the kind under which the state could be consumed.
Callback(t) ==
  /\ At(t, {"callback"}, "start")
  /\ LET s == asked[t].state
     IN  /\ state[s].kind # "none"
         /\ IF \E k \in {"login", "reauth"} : Consumable(s, k)
            THEN /\ state' = Used(s)
                 /\ Go(t, "identify")
            ELSE Go(t, "failed") /\ UNCHANGED state
  /\ UNCHANGED <<account, google, session, registration, asked, minted>>

\* Google refuses, the code cannot be exchanged, or the identity is no owner's.
Identify(t) ==
  /\ At(t, {"callback"}, "identify")
  /\ \/ asked[t].sub \in Owners /\ Go(t, state[asked[t].state].kind)
     \/ Go(t, "failed")
  /\ UNCHANGED <<account, google, web, registration, asked, minted>>

\* Mutant of MayMark: any session of the user is marked.
MayMarkMut(t) == Readable(asked[t].cookie) /\ session[asked[t].cookie].user = asked[t].sub

\* The login must be of the session that asked for it, by that session's user.
MayMark(t) == LET c == asked[t].cookie
              IN  Readable(c) /\ c = state[asked[t].state].session /\ session[c].user = asked[t].sub

Reauth(t) ==
  /\ At(t, {"callback"}, "reauth")
  /\ task' = [task EXCEPT ![t].pc = IF MayMark(t) THEN "mark" ELSE "failed",
                          ![t].session = asked[t].cookie]
  /\ UNCHANGED <<account, google, web, registration, asked, minted>>

\* markReauthenticated does not look whether the session is still alive.
Mark(t) ==
  /\ At(t, {"callback"}, "mark")
  /\ session' = [session EXCEPT ![task[t].session].recent = TRUE]
  /\ Go(t, "done")
  /\ UNCHANGED <<account, google, state, registration, asked, minted>>

\* Rotation: the cookie that came with the login is revoked, and a new one made.
Login(t) ==
  /\ At(t, {"callback"}, "login")
  /\ session' = IF Readable(asked[t].cookie)
                THEN [session EXCEPT ![asked[t].cookie].alive = FALSE] ELSE session
  /\ Go(t, "create")
  /\ UNCHANGED <<account, google, state, registration, asked, minted>>

CreateSession(t) ==
  /\ At(t, {"callback"}, "create")
  /\ \E s \in Sessions :
       /\ session[s] = NoSession
       /\ session' = [session EXCEPT ![s] = [user |-> asked[t].sub, alive |-> TRUE, recent |-> TRUE]]
  /\ Go(t, "done")
  /\ UNCHANGED <<account, google, state, registration, asked, minted>>

\* The consume is the gate for both decisions; afterwards the client may turn
\* out changed, or the provider may fail.
Decide(t) ==
  /\ At(t, {"decide"}, "consume")
  /\ state[asked[t].state].kind # "none"
  /\ IF Consumable(asked[t].state, "authreq")
     THEN /\ state' = Used(asked[t].state)
          /\ Go(t, IF asked[t].approve THEN "complete" ELSE "done")
     ELSE Go(t, "failed") /\ UNCHANGED state
  /\ UNCHANGED <<account, google, session, registration, asked, minted>>

Complete(t) ==
  /\ At(t, {"decide"}, "complete")
  /\ \E pc \in {"done", "failed"} : Go(t, pc)
  /\ UNCHANGED <<account, google, web, registration, asked, minted>>

-----------------------------------------------------------------------------
(* Connecting a mailbox (google/connect.ts).                                *)

ConnectConsume(t) ==
  /\ At(t, {"connect"}, "consume")
  /\ state[asked[t].state].kind # "none"
  /\ IF Consumable(asked[t].state, "connect")
     THEN /\ state' = Used(asked[t].state)
          /\ Go(t, IF /\ state[asked[t].state].session = task[t].session
                      /\ state[asked[t].state].user = session[task[t].session].user
                   THEN "exchange" ELSE "failed")
     ELSE Go(t, "failed") /\ UNCHANGED state
  /\ UNCHANGED <<account, google, session, registration, asked, minted>>

\* exchangeCode: refused; or with a new grant, which the request learns, or not:
\* Google's answer was lost, could not be read, or had no refresh token.
Exchange(t) ==
  /\ At(t, {"connect"}, "exchange")
  /\ \/ Go(t, "failed") /\ UNCHANGED google
     \/ /\ grants' = grants + 1
        /\ live' = live \cup {grants + 1}
        /\ \/ /\ task' = [task EXCEPT ![t].pc = "verify", ![t].grant = grants + 1]
              /\ UNCHANGED abandoned
           \/ Go(t, "failed") /\ abandoned' = abandoned \cup {grants + 1}
  /\ UNCHANGED <<account, web, registration, asked, minted>>

\* The id token, the scope, the send-as addresses and the audit row: any may fail.
Verify(t) ==
  /\ At(t, {"connect"}, "verify")
  /\ \E pc \in {"lookup", "undo"} : Go(t, pc)
  /\ UNCHANGED <<account, google, web, registration, asked, minted>>

Lookup(t) ==
  /\ At(t, {"connect"}, "lookup")
  /\ Go(t, IF account[asked[t].mailbox] = NoAccount THEN "insert" ELSE "reconnect")
  /\ UNCHANGED <<account, google, web, registration, asked, minted>>

\* A statement of the store may fail, or be performed and its answer lost.
StoreFails(t) ==
  /\ At(t, {"connect"}, "insert") \/ At(t, {"connect"}, "reconnect")
  /\ Go(t, "undo")
  /\ UNCHANGED <<account, google, web, registration, asked, minted>>

Stored(t, row) ==
  /\ account' = [account EXCEPT ![asked[t].mailbox] = row]
  /\ minted' = minted \cup {<<asked[t].mailbox, row.version, row.refresh>>}
  /\ \E pc \in {"record", "undo"} : Go(t, pc)

Reconnect(t) ==
  /\ At(t, {"connect"}, "reconnect")
  /\ LET row == account[asked[t].mailbox]
     IN  /\ Stored(t, [row EXCEPT !.status = "active", !.version = @ + 1, !.refresh = task[t].grant,
                                  !.access = task[t].grant, !.fresh = TRUE, !.old = FALSE])
         /\ abandoned' = abandoned \cup ({row.refresh} \ {None})
  /\ UNCHANGED <<live, grants, web, registration, asked>>

\* The unique constraints speak: the alias is taken, or the mailbox has got a row
\* meanwhile and the insert becomes a reconnect.
AliasTaken(t) == \E m \in Mailboxes : account[m].alias = state[asked[t].state].alias
NewRow(t) == [NoAccount EXCEPT !.status = "active", !.refresh = task[t].grant, !.access = task[t].grant,
                !.fresh = TRUE, !.alias = state[asked[t].state].alias,
                !.default = ~\E m \in Mailboxes : account[m].default]

Insert(t) ==
  /\ At(t, {"connect"}, "insert")
  /\ IF account[asked[t].mailbox] = NoAccount /\ ~AliasTaken(t)
     THEN Stored(t, NewRow(t))
     ELSE /\ \/ AliasTaken(t) /\ Go(t, "undo")
             \/ account[asked[t].mailbox] # NoAccount /\ Go(t, "lookup")
          /\ UNCHANGED <<account, minted>>
  /\ UNCHANGED <<google, web, registration, asked>>

\* auditOutcome comes after the store: when it fails, what was stored is revoked.
Record(t) ==
  /\ At(t, {"connect"}, "record")
  /\ \E pc \in {"done", "undo"} : Go(t, pc)
  /\ UNCHANGED <<account, google, web, registration, asked, minted>>

\* revokeToken is best effort: Google may never hear of it.
Tell(grant) ==
  \/ live' = live \ {grant} /\ UNCHANGED abandoned
  \/ abandoned' = abandoned \cup {grant} /\ UNCHANGED live

Undo(t) ==
  /\ At(t, {"connect"}, "undo")
  /\ Tell(task[t].grant)
  /\ Go(t, "failed")
  /\ UNCHANGED <<account, grants, web, registration, asked, minted>>

-----------------------------------------------------------------------------
(* Revoking a mailbox and choosing the default (web/pages/accounts.ts and   *)
(* google/tokens.ts).                                                       *)

RevokeLoad(t) ==
  /\ At(t, {"revoke"}, "load")
  /\ task' = [task EXCEPT ![t].row = account[asked[t].mailbox], ![t].tries = @ + 1,
                          ![t].pc = IF account[asked[t].mailbox] = NoAccount THEN "failed" ELSE "wipe"]
  /\ UNCHANGED <<account, google, web, registration, asked, minted>>

\* Mutant of MayWipe: the row is wiped whatever credential it has by now.
MayWipeMut(t) == account[asked[t].mailbox] # NoAccount

MayWipe(t) == account[asked[t].mailbox].version = task[t].row.version

Wiped(row) == [row EXCEPT !.status = "revoked", !.version = @ + 1, !.default = FALSE,
                 !.refresh = None, !.access = None, !.fresh = FALSE, !.old = FALSE]

\* The wipe is performed and the request goes on to tell Google; or the store's
\* answer is lost or the token read before cannot be decrypted, and nobody tells.
RevokeWipe(t) ==
  /\ At(t, {"revoke"}, "wipe")
  /\ IF MayWipe(t)
     THEN /\ account' = [account EXCEPT ![asked[t].mailbox] = Wiped(account[asked[t].mailbox])]
          /\ \/ /\ Go(t, IF task[t].row.refresh = None THEN "others" ELSE "tell")
                /\ UNCHANGED abandoned
             \/ Go(t, "failed") /\ abandoned' = abandoned \cup ({task[t].row.refresh} \ {None})
     ELSE /\ Go(t, IF task[t].tries = Attempts THEN "failed" ELSE "load")
          /\ UNCHANGED <<account, abandoned>>
  /\ UNCHANGED <<live, grants, web, registration, asked, minted>>

RevokeTell(t) ==
  /\ At(t, {"revoke"}, "tell")
  /\ Tell(task[t].row.refresh)
  /\ Go(t, "others")
  /\ UNCHANGED <<account, grants, web, registration, asked, minted>>

RevokeOthers(t) ==
  /\ At(t, {"revoke"}, "others")
  /\ session' = OthersRevoked(task[t].session)
  /\ Go(t, "done")
  /\ UNCHANGED <<account, google, state, registration, asked, minted>>

ReadDefault(t) ==
  /\ At(t, {"default"}, "read")
  /\ Go(t, IF account[asked[t].mailbox].status = "active" THEN "set" ELSE "failed")
  /\ UNCHANGED <<account, google, web, registration, asked, minted>>

SetDefault(t) ==
  /\ At(t, {"default"}, "set")
  /\ account' = [m \in Mailboxes |-> [account[m] EXCEPT !.default = (m = asked[t].mailbox)]]
  /\ Go(t, "done")
  /\ UNCHANGED <<google, web, registration, asked, minted>>

-----------------------------------------------------------------------------
(* Registering the companion (auth/companion.ts).  A marker and a fence are *)
(* fresh random names: each is called by the task that drew it.             *)

Own(t) == [id |-> None, marker |-> t, fence |-> t]
Answer(t, id) == task' = [task EXCEPT ![t].pc = "done", ![t].grant = id]

CompanionLook(t) ==
  /\ At(t, {"companion"}, "look")
  /\ IF setting.id # None THEN Answer(t, setting.id) ELSE Go(t, "reserve")
  /\ UNCHANGED <<account, google, web, registration, asked, minted>>

\* Mutant of Reserve: an attempt that has not ended is replaced.
ReserveMut(t) ==
  /\ At(t, {"companion"}, "reserve")
  /\ IF setting.id = None
     THEN /\ setting' = Own(t) /\ leased' = TRUE
          /\ task' = [task EXCEPT ![t].pc = "create", ![t].seen = Own(t)]
     ELSE Go(t, "found") /\ UNCHANGED <<setting, leased>>
  /\ UNCHANGED <<account, google, web, clients, asked, minted>>

\* INSERT OR IGNORE: the winner creates the client, the others look at the row.
Reserve(t) ==
  /\ At(t, {"companion"}, "reserve")
  /\ IF setting = NoAttempt
     THEN /\ setting' = Own(t) /\ leased' = TRUE
          /\ task' = [task EXCEPT ![t].pc = "create", ![t].seen = Own(t)]
     ELSE Go(t, "found") /\ UNCHANGED <<setting, leased>>
  /\ UNCHANGED <<account, google, web, clients, asked, minted>>

\* The client is created and its id learned; or its answer is lost; or it is not.
CreateClient(t) ==
  /\ At(t, {"companion"}, "create")
  /\ \/ /\ clients' = clients \cup {[id |-> t, name |-> t]}
        /\ \/ task' = [task EXCEPT ![t].pc = "record", ![t].grant = t]
           \/ Go(t, "failed")
     \/ Go(t, "failed") /\ UNCHANGED clients
  /\ UNCHANGED <<account, google, web, setting, leased, asked, minted>>

Found(t) ==
  /\ At(t, {"companion"}, "found")
  /\ IF setting.id # None THEN Answer(t, setting.id)
     ELSE task' = [task EXCEPT ![t].pc = IF leased THEN "wait" ELSE "claim", ![t].seen = setting]
  /\ UNCHANGED <<account, google, web, registration, asked, minted>>

Wait(t) ==
  /\ At(t, {"companion"}, "wait")
  /\ IF setting.id # None THEN Answer(t, setting.id) ELSE Go(t, "failed")
  /\ UNCHANGED <<account, google, web, registration, asked, minted>>

Claim(t) ==
  /\ At(t, {"companion"}, "claim")
  /\ IF setting = task[t].seen
     THEN /\ setting' = [setting EXCEPT !.fence = t] /\ leased' = TRUE
          /\ task' = [task EXCEPT ![t].pc = "list", ![t].seen = [setting EXCEPT !.fence = t]]
     ELSE Go(t, "failed") /\ UNCHANGED <<setting, leased>>
  /\ UNCHANGED <<account, google, web, clients, asked, minted>>

\* Exactly one client under the marker, or the attempt stays quarantined.
ListClients(t) ==
  /\ At(t, {"companion"}, "list")
  /\ LET candidates == {c \in clients : c.name = task[t].seen.marker}
     IN  IF Cardinality(candidates) = 1
         THEN \E c \in candidates : task' = [task EXCEPT ![t].pc = "record", ![t].grant = c.id]
         ELSE Go(t, "failed")
  /\ UNCHANGED <<account, google, web, registration, asked, minted>>

RecordClient(t) ==
  /\ At(t, {"companion"}, "record")
  /\ IF setting = task[t].seen
     THEN setting' = [NoAttempt EXCEPT !.id = task[t].grant] /\ Go(t, "done")
     ELSE Go(t, "compare") /\ UNCHANGED setting
  /\ UNCHANGED <<account, google, web, leased, clients, asked, minted>>

CompareClient(t) ==
  /\ At(t, {"companion"}, "compare")
  /\ Go(t, IF setting.id = task[t].grant THEN "done" ELSE "failed")
  /\ UNCHANGED <<account, google, web, registration, asked, minted>>

-----------------------------------------------------------------------------
(* Time, and the owner's page at Google.  Something ages while a request    *)
(* that will look at it is running; afterwards nobody can tell.             *)

Awaited(field, x) == \E t \in Tasks : Running(t) /\ field \in DOMAIN asked[t] /\ asked[t][field] = x
Reading(kind, m) == \E t \in Tasks : Running(t) /\ asked[t].kind = kind /\ asked[t].mailbox = m

AccessTokenAges ==
  /\ \E m \in Mailboxes : /\ account[m].fresh /\ Reading("token", m)
                          /\ account' = [account EXCEPT ![m].fresh = FALSE]
  /\ UNCHANGED <<google, web, registration, asked, task, minted>>

SessionAges ==
  /\ \E s \in Sessions, field \in {"alive", "recent"} :
       /\ session[s].alive /\ session[s][field] /\ Awaited("cookie", s)
       /\ session' = [session EXCEPT ![s][field] = FALSE]
  /\ UNCHANGED <<account, google, state, registration, asked, task, minted>>

StateExpires ==
  /\ \E s \in States : /\ state[s].kind # "none" /\ ~state[s].used /\ ~state[s].expired /\ Awaited("state", s)
                       /\ state' = [state EXCEPT ![s].expired = TRUE]
  /\ UNCHANGED <<account, google, session, registration, asked, task, minted>>

LeaseEnds ==
  /\ leased /\ leased' = FALSE /\ Awaited("kind", "companion")
  /\ UNCHANGED <<account, google, web, setting, clients, asked, task, minted>>

GoogleRevokes ==
  /\ \E m \in Mailboxes : /\ account[m].refresh \in live /\ Reading("token", m)
                          /\ live' = live \ {account[m].refresh}
  /\ UNCHANGED <<account, grants, abandoned, web, registration, asked, task, minted>>

-----------------------------------------------------------------------------
Step(t) ==
  \/ TokenLoad(t) \/ Rewrap(t) \/ CheckPinned(t) \/ Refresh(t) \/ NeedsReconnect(t) \/ WriteToken(t)
  \/ ReturnToken(t)
  \/ StartLogin(t) \/ StartAuthorize(t) \/ StartReauth(t) \/ StartConnect(t) \/ Enter(t) \/ Logout(t)
  \/ ReadPolicy(t) \/ EditPolicy(t) \/ Callback(t) \/ Identify(t) \/ Reauth(t) \/ Mark(t) \/ Login(t) \/ CreateSession(t)
  \/ Decide(t) \/ Complete(t)
  \/ ConnectConsume(t) \/ Exchange(t) \/ Verify(t) \/ Lookup(t) \/ StoreFails(t) \/ Reconnect(t)
  \/ Insert(t) \/ Record(t) \/ Undo(t)
  \/ RevokeLoad(t) \/ RevokeWipe(t) \/ RevokeTell(t) \/ RevokeOthers(t) \/ ReadDefault(t) \/ SetDefault(t)
  \/ CompanionLook(t) \/ Reserve(t) \/ CreateClient(t) \/ Found(t) \/ Wait(t) \/ Claim(t) \/ ListClients(t)
  \/ RecordClient(t) \/ CompareClient(t)

Time == AccessTokenAges \/ SessionAges \/ StateExpires \/ LeaseEnds \/ GoogleRevokes

Next == Time \/ \E t \in Tasks : Step(t)
Spec == Init /\ [][Next]_vars

-----------------------------------------------------------------------------
(* Properties.                                                              *)

\* Every variable has its type.
TypeOK ==
  /\ account \in [Mailboxes -> Accounts]
  /\ live \subseteq Nat /\ abandoned \subseteq Nat /\ grants \in Nat
  /\ session \in [Sessions -> WebSessions]
  /\ state \in [States -> OneUseStates]
  /\ setting \in Registrations /\ leased \in BOOLEAN
  /\ clients \subseteq [id : Tasks, name : Tasks]
  /\ task \in [Tasks -> Calls]
  /\ minted \subseteq Mailboxes \X Nat \X Nat

\* A row never mixes grants and never keeps what was withdrawn: the access token
\* was bought with the refresh token beside it, and a revoked row has neither,
\* however late a refresh or a rewrap comes back (tokens.ts:34-46).
CredentialsMatch ==
  \A m \in Mailboxes :
    /\ account[m].access \in {None, account[m].refresh}
    /\ account[m].status = "revoked" => account[m].refresh = None

\* credential_version names one grant, and a caller who pinned a version is
\* given a token of the grant that version stands for (tokens.ts:62-68,175).
PinnedIsItsGrant ==
  /\ \A x \in minted, y \in minted : (x[1] = y[1] /\ x[2] = y[2]) => x = y
  /\ \A t \in Tasks : (At(t, {"token"}, "done") /\ asked[t].pin # None)
                        => <<asked[t].mailbox, asked[t].pin, task[t].grant>> \in minted

\* A row, and whoever pinned its version, have one grant.
CredentialsAgree == CredentialsMatch /\ PinnedIsItsGrant

\* No race of connects, reconnects and revocations loses a live grant: whatever
\* Google still honours is in a row, in the hands of a request that has not ended
\* (it stopped there, if it did), or one of those the code gives up unheard, each by
\* itself and named here: a consent whose exchange had no answer the program could
\* use (connect.ts:208-217), a grant a reconnect replaced (connect.ts:52-75), the
\* one a wipe took whose answer was lost or whose token could not be decrypted
\* (tokens.ts:153-168), and one whose revocation Google did not hear (oidc.ts:139-147).
InHand(t) == \/ asked[t].kind = "connect" /\ Running(t) /\ task[t].grant # None
             \/ At(t, {"revoke"}, "tell")
Hand(t) == IF asked[t].kind = "connect" THEN task[t].grant ELSE task[t].row.refresh
NothingLeftLive ==
  live \subseteq {account[m].refresh : m \in Mailboxes} \cup abandoned \cup {Hand(t) : t \in {u \in Tasks : InHand(u)}}

\* A one-use state serves one request, of its own kind, and before it expires: two
\* callbacks, two decisions, or a callback of another flow never both get past it.
\* (A state expires only while it is unused, so an expired one that served was
\* expired when it did.)  (web/state.ts:35-45, login.ts:46.)
Served(t) == \/ asked[t].kind = "callback" /\ task[t].pc \in {"identify", "login", "reauth", "mark", "create", "done"}
             \/ asked[t].kind = "connect" /\ task[t].grant # None
             \/ asked[t].kind = "decide" /\ task[t].pc \in {"complete", "done"}
Serves == [callback |-> {"login", "reauth"}, connect |-> {"connect"}, decide |-> {"authreq"}]
StateServesOnce ==
  \A t \in {u \in Tasks : Served(u)} :
    /\ state[asked[t].state].kind \in Serves[asked[t].kind]
    /\ state[asked[t].state].used /\ ~state[asked[t].state].expired
    /\ \A u \in Tasks \ {t} : Served(u) => asked[u].state # asked[t].state

\* A session becomes recently authenticated only by a Google login of its own
\* user, which that very session asked for, or by being made by a login
\* (session.ts:80, login.ts:100-112).
FreshLoginIsItsOwn ==
  [][\A s \in Sessions :
       (~session[s].recent /\ session'[s].recent)
         => \E t \in Tasks : /\ asked[t].kind = "callback" /\ Running(t)
                             /\ asked[t].sub = session'[s].user
                             /\ state[asked[t].state].used
                             /\ \/ session[s] = NoSession /\ state[asked[t].state].kind = "login"
                                \/ state[asked[t].state].kind = "reauth" /\ state[asked[t].state].session = s]_vars

\* One client is registered for the companion, whoever asks, how often, and
\* whatever answer is lost; every request that succeeds answers with the id that
\* is recorded (companion.ts:39,57,96-102).
OneCompanion ==
  /\ Cardinality(clients) <= 1
  /\ \A t \in Tasks : At(t, {"companion"}, "done") => task[t].grant = setting.id
=============================================================================
