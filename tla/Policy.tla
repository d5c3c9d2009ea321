------------------------------- MODULE Policy -------------------------------
(***************************************************************************)
(* What a tool may do without asking: the policy the owner saves in the    *)
(* browser, the tools that change labels and drafts, and the two decisions *)
(* every call meets (policy/engine.ts, web/pages/policy.ts,                *)
(* tools/labels.ts, tools/send.ts, tools/drafts.ts, tools/gate.ts).        *)
(*                                                                         *)
(* The module is built on Access: the policy page is a request of Access   *)
(* that read a session, and here it also reads and writes the policy rows; *)
(* a tool call is a task of its own, which meets mailboxes that Access     *)
(* connects and revokes.  What the gate journals for a call is Gate's.     *)
(*                                                                         *)
(* One message of each mailbox is followed, and one draft.  Gmail gives a  *)
(* draft a new message id whenever it is saved: its version here.          *)
(***************************************************************************)
EXTENDS Access

CONSTANTS
  All,         \* account_id IS NULL: the all-accounts row
  UserLabels,  \* labels the owner made
  MaxSaves     \* bound: how often the draft is saved

Actions == {"draft.write", "send.draft", "label.manage", "label.apply",
            "spam.mark", "spam.unmark", "trash.move", "trash.restore"}
Levels == {"allow", "ask", "deny"}
DEFAULT_POLICY ==
  [a \in Actions |-> IF a \in {"draft.write", "label.apply", "spam.unmark", "trash.restore"} THEN "allow" ELSE "ask"]
raise(level) == IF level = "allow" THEN "ask" ELSE level

Scopes == Mailboxes \cup {All}
Fields == Scopes \X Actions

SENSITIVE == {"TRASH", "SPAM"}
SystemLabels == SENSITIVE \cup {"INBOX", "STARRED"}

NoCall == [mods |-> {}, approved |-> FALSE, permitted |-> FALSE, draft |-> 0, moved |-> FALSE, sent |-> 0]

Tools == {"label", "sensitive", "spam", "trash", "manage", "update_draft", "send_draft"}

Modifiers == {"+attachment", "+external", "+bulk", "+sensitive"}

CallRecords ==
  [mods : SUBSET Modifiers, approved : BOOLEAN, permitted : BOOLEAN, draft : Nat, moved : BOOLEAN, sent : Nat]

\* A tool's input names labels, a draft carries the modifiers its parts give it, and
\* what counts of a form are the fields of the page.
InputOK(r) ==
  /\ r.kind = "tool" => r.mailbox \in Mailboxes /\ r.tool \in Tools
  /\ r.kind = "tool" /\ r.tool \in {"label", "sensitive"} => r.add \subseteq SystemLabels \cup UserLabels
  /\ r.kind = "tool" /\ r.tool = "send_draft" => r.mods \subseteq Modifiers
  /\ r.kind = "policy" /\ ~r.preset => DOMAIN r.form \subseteq Fields

ASSUME PolicyAssumption ==
  /\ All \notin Mailboxes
  /\ UserLabels \cap SystemLabels = {}
  /\ MaxSaves \in Nat \ {0}
  /\ \A w \in Workloads, t \in Tasks : InputOK(w.asked[t])

VARIABLES
  rows,     \* policies: a level, or "inherit" where there is no row
  read,     \* the rows each policy page read before its batch
  labels,   \* labels of the message
  draft,    \* the version of the draft at Gmail
  call      \* what a tool call knows, and (permitted, moved, sent) its history

policyVars == <<rows, read, labels, draft, call>>
allVars == <<vars, policyVars>>

PolicyInit ==
  /\ Init
  /\ rows = [f \in Fields |-> "inherit"]
  /\ read = [t \in Tasks |-> rows]
  /\ labels = [m \in Mailboxes |-> {"INBOX"}]
  /\ draft = [m \in Mailboxes |-> 1]
  /\ call = [t \in Tasks |-> NoCall]

-----------------------------------------------------------------------------
(* The decision (policy/engine.ts).                                         *)

\* The mailbox's row, else the all-accounts row, else the default; and whether
\* the owner chose it.
resolveLevel(m, a) ==
  LET row == IF rows[<<m, a>>] # "inherit" THEN rows[<<m, a>>] ELSE rows[<<All, a>>]
  IN  [level |-> IF row = "inherit" THEN DEFAULT_POLICY[a] ELSE row, chosen |-> row # "inherit"]

decide(m, a, mods) ==
  LET r == resolveLevel(m, a)
  IN  IF mods # {} /\ ~r.chosen THEN raise(r.level) ELSE r.level

-----------------------------------------------------------------------------
(* The tools: the action each asks for, the modifiers it carries, whether   *)
(* its plan refuses, and what it would change on the message.               *)

sensitiveModifiers(ids) == IF ids \cap SystemLabels # {} THEN {"+sensitive"} ELSE {}

\* label_*, unlabel_* and update_message_labels refuse TRASH and SPAM.
LabelTool(c) ==
  [action |-> "label.apply", refused |-> (c.add \cup c.remove) \cap SENSITIVE # {},
   mods |-> sensitiveModifiers(c.add \cup c.remove), add |-> c.add, remove |-> c.remove]

\* apply_sensitive_*: always +sensitive; TRASH is the trash request.
SensitiveTool(c) ==
  [action |-> "label.apply", refused |-> FALSE, mods |-> {"+sensitive"}, add |-> c.add,
   remove |-> IF "TRASH" \in c.add THEN {} ELSE {"INBOX"}]

\* mark_*_spam and unmark_*_spam.
SpamTool(c) ==
  [action |-> IF c.on THEN "spam.mark" ELSE "spam.unmark", refused |-> FALSE, mods |-> {},
   add |-> {IF c.on THEN "SPAM" ELSE "INBOX"}, remove |-> {IF c.on THEN "INBOX" ELSE "SPAM"}]

\* trash_* and untrash_*.
TrashTool(c) ==
  [action |-> IF c.on THEN "trash.move" ELSE "trash.restore", refused |-> FALSE, mods |-> {},
   add |-> IF c.on THEN {"TRASH"} ELSE {}, remove |-> IF c.on THEN {} ELSE {"TRASH"}]

\* delete_label: the label leaves every message; a system label is refused.
ManageTool(c) ==
  [action |-> "label.manage", refused |-> c.remove \cap SystemLabels # {}, mods |-> {},
   add |-> {}, remove |-> c.remove]

UpdateDraftTool(c) == [action |-> "draft.write", refused |-> FALSE, mods |-> {}, add |-> {}, remove |-> {}]

\* send_draft carries the modifiers of its recipients and attachments.
SendDraftTool(c) == [action |-> "send.draft", refused |-> FALSE, mods |-> c.mods, add |-> {}, remove |-> {}]

Plan(t) ==
  LET c == asked[t]
  IN  CASE c.tool = "label" -> LabelTool(c)
        [] c.tool = "sensitive" -> SensitiveTool(c)
        [] c.tool = "spam" -> SpamTool(c)
        [] c.tool = "trash" -> TrashTool(c)
        [] c.tool = "manage" -> ManageTool(c)
        [] c.tool = "update_draft" -> UpdateDraftTool(c)
        [] c.tool = "send_draft" -> SendDraftTool(c)

-----------------------------------------------------------------------------
(* The policy page.                                                         *)

\* The saved levels, and which fields name a mailbox that exists.
ReadRows(t) ==
  /\ ReadPolicy(t)
  /\ read' = [read EXCEPT ![t] = [f \in Fields |->
                IF f[1] # All /\ account[f[1]] = NoAccount THEN "none" ELSE rows[f]]]
  /\ LET posted == {asked[t].form[f] : f \in {g \in DOMAIN asked[t].form : read'[t][g] # "none"}}
     IN  task'[t].pc = "edit" <=> posted \subseteq Levels \cup {"inherit"}
  /\ UNCHANGED <<rows, labels, draft, call>>

\* Mutant of AllowAll: overrides of single mailboxes stay.
AllowAllMut(t) == [f \in {g \in {All} \X Actions : read[t][g] # "allow"} |-> "allow"]

\* The preset: overrides are cleared, and every action becomes allow.
AllowAll(t) ==
  [f \in {g \in Fields : IF g[1] = All THEN read[t][g] # "allow" ELSE read[t][g] \in Levels}
     |-> IF f[1] = All THEN "allow" ELSE "inherit"]

\* A form: the fields that name a mailbox and differ from what was read.
Edited(t) ==
  [f \in {g \in DOMAIN asked[t].form : read[t][g] \notin {"none", asked[t].form[g]}} |-> asked[t].form[f]]

Changes(t) == IF asked[t].preset THEN AllowAll(t) ELSE Edited(t)

\* The level of the call's action in a table of rows, as a reader would state it:
\* by what the call does to the message, not by what its tool declares.
InForce(t, table) ==
  LET a == Plan(t).action
      saved == {s \in {asked[t].mailbox, All} : table[<<s, a>>] # "inherit"}
      risky == a = "label.apply" /\ (Plan(t).add \cup Plan(t).remove) \cap SystemLabels # {}
  IN  IF saved # {} THEN table[<<IF saved = {All} THEN All ELSE asked[t].mailbox, a>>]
      ELSE IF risky THEN "ask" ELSE DEFAULT_POLICY[a]

Permits(t, table, approved) == InForce(t, table) \in (IF approved THEN {"allow", "ask"} ELSE {"allow"})

IsTool(t) == asked[t].kind = "tool"

\* applyPolicyEdit, with the rows: one batch.
SaveRows(t) ==
  /\ EditPolicy(t)
  /\ rows' = [f \in Fields |-> IF f \in DOMAIN Changes(t) THEN Changes(t)[f] ELSE rows[f]]
  /\ call' = [u \in Tasks |-> IF IsTool(u)
                THEN [call[u] EXCEPT !.permitted = @ \/ Permits(u, rows', call[u].approved)] ELSE call[u]]
  /\ UNCHANGED <<read, labels, draft>>

\* Any other step of Access: the policy is not concerned.
Elsewhere(t) ==
  /\ Step(t)
  /\ ~At(t, {"policy"}, "read") /\ ~At(t, {"policy"}, "edit")
  /\ UNCHANGED policyVars

-----------------------------------------------------------------------------
(* A tool call (tools/define.ts, tools/gate.ts).                            *)

ToolAt(t, pc) == At(t, {"tool"}, pc)
Active(t) == account[asked[t].mailbox].status = "active"

\* The draft as it is at Gmail now.
draftPayload(t) == draft[asked[t].mailbox]

\* Resolve the account and plan: the draft is read, and nothing is written.
PlanCall(t) ==
  /\ ToolAt(t, "start")
  /\ IF Active(t) /\ ~Plan(t).refused
     THEN /\ call' = [call EXCEPT ![t].mods = Plan(t).mods, ![t].draft = draftPayload(t),
                                  ![t].permitted = Permits(t, rows, FALSE)]
          /\ Go(t, "planned")
     ELSE Go(t, "failed") /\ UNCHANGED call
  /\ UNCHANGED <<account, google, web, registration, asked, minted, rows, read, labels, draft>>

Verdict(t) == decide(asked[t].mailbox, Plan(t).action, call[t].mods)

Judge(t) ==
  /\ ToolAt(t, "planned")
  /\ Go(t, [deny |-> "failed", ask |-> "asked", allow |-> "run"][Verdict(t)])
  /\ UNCHANGED <<account, google, web, registration, asked, minted, policyVars>>

\* The owner approves or denies on the approval page.
OwnerAnswers(t) ==
  /\ ToolAt(t, "asked")
  /\ \E pc \in {"approved", "failed"} : Go(t, pc)
  /\ UNCHANGED <<account, google, web, registration, asked, minted, policyVars>>

\* execute_pending: the account first, then the claim.  A mailbox that must be
\* reconnected leaves the approval for later.
ClaimApproved(t) ==
  /\ ToolAt(t, "approved") /\ Active(t)
  /\ call' = [call EXCEPT ![t].approved = TRUE, ![t].permitted = Permits(t, rows, TRUE)]
  /\ Go(t, "claimed")
  /\ UNCHANGED <<account, google, web, registration, asked, minted, rows, read, labels, draft>>

\* Mutant of Recheck: the policy is not looked at again.
RecheckMut(t) ==
  /\ ToolAt(t, "claimed")
  /\ Go(t, "run")
  /\ UNCHANGED <<account, google, web, registration, asked, minted, policyVars>>

\* A tighter policy saved after the approval wins.
Recheck(t) ==
  /\ ToolAt(t, "claimed")
  /\ Go(t, IF Verdict(t) = "deny" THEN "failed" ELSE "run")
  /\ UNCHANGED <<account, google, web, registration, asked, minted, policyVars>>

\* A request to Gmail does what it asks, or does not; its answer may be lost.
Performed(t) == \E pc \in {"done", "failed"} : Go(t, pc)

ChangeLabels(t) ==
  /\ ToolAt(t, "run") /\ asked[t].tool \notin {"update_draft", "send_draft"}
  /\ \/ labels' = [labels EXCEPT ![asked[t].mailbox] = (@ \ Plan(t).remove) \cup Plan(t).add] /\ Performed(t)
     \/ Go(t, "failed") /\ UNCHANGED labels
  /\ UNCHANGED <<account, google, web, registration, asked, minted, rows, read, draft, call>>

\* A saved draft has a new version; 0 is a draft that was sent.
NewDraft(m) ==
  /\ draft[m] \in 1..MaxSaves
  /\ draft' = [draft EXCEPT ![m] = @ + 1]
  /\ call' = [t \in Tasks |-> IF ToolAt(t, "sending") /\ asked[t].mailbox = m
                THEN [call[t] EXCEPT !.moved = TRUE] ELSE call[t]]

SaveDraft(t) ==
  /\ ToolAt(t, "run") /\ asked[t].tool = "update_draft"
  /\ \/ NewDraft(asked[t].mailbox) /\ Performed(t)
     \/ Go(t, "failed") /\ UNCHANGED <<draft, call>>
  /\ UNCHANGED <<account, google, web, registration, asked, minted, rows, read, labels>>

\* The draft must still be what the owner approved.
Reread(t) ==
  /\ ToolAt(t, "run") /\ asked[t].tool = "send_draft"
  /\ Go(t, IF draftPayload(t) = call[t].draft THEN "sending" ELSE "failed")
  /\ UNCHANGED <<account, google, web, registration, asked, minted, policyVars>>

SendDraft(t) ==
  /\ ToolAt(t, "sending")
  /\ LET m == asked[t].mailbox
     IN  \/ /\ draft[m] # 0
            /\ draft' = [draft EXCEPT ![m] = 0]
            /\ call' = [call EXCEPT ![t].sent = draft[m]]
            /\ Performed(t)
         \/ Go(t, "failed") /\ UNCHANGED <<draft, call>>
  /\ UNCHANGED <<account, google, web, registration, asked, minted, rows, read, labels>>

ToolStep(t) ==
  \/ PlanCall(t) \/ Judge(t) \/ OwnerAnswers(t) \/ ClaimApproved(t) \/ Recheck(t)
  \/ ChangeLabels(t) \/ SaveDraft(t) \/ Reread(t) \/ SendDraft(t)

\* The owner saves the draft in Gmail while a call is about to send it.
EditDraft ==
  /\ \E t \in Tasks : /\ IsTool(t) /\ Running(t) /\ asked[t].tool = "send_draft"
                      /\ NewDraft(asked[t].mailbox)
  /\ UNCHANGED <<vars, rows, read, labels>>

PolicyNext ==
  \/ Time /\ UNCHANGED policyVars
  \/ EditDraft
  \/ \E t \in Tasks : Elsewhere(t) \/ ReadRows(t) \/ SaveRows(t) \/ ToolStep(t)

PolicySpec == PolicyInit /\ [][PolicyNext]_allVars

-----------------------------------------------------------------------------
(* Properties.                                                              *)

PolicyTypeOK ==
  /\ rows \in [Fields -> Levels \cup {"inherit"}]
  /\ read \in [Tasks -> [Fields -> Levels \cup {"inherit", "none"}]]
  /\ labels \in [Mailboxes -> SUBSET (SystemLabels \cup UserLabels)]
  /\ draft \in [Mailboxes -> 0..MaxSaves + 1]
  /\ call \in [Tasks -> CallRecords]

\* A call runs only if, at some moment of the request that runs it, the policy
\* in force permitted what it does: on its own, or after the owner's approval.
\* However the owner saves in between, a level that was never in force during
\* the request is never acted on (gate.ts:556-558, engine.ts:46-51).
DecisionInForce == \A t \in Tasks : (ToolAt(t, "run") \/ ToolAt(t, "sending")) => call[t].permitted

\* A draft is sent as it was when its sending was planned and approved, unless it
\* was saved between the second reading and the request itself (send.ts:366-375).
SentAsApproved == \A t \in Tasks : (IsTool(t) /\ call[t].sent # 0) => (call[t].sent = call[t].draft \/ call[t].moved)

\* What runs was decided: by the policy in force, about what is then sent.
RunsAsDecided == DecisionInForce /\ SentAsApproved

\* What the owner asked a page to save, and which fields another page saved after
\* this one had read them.
Wanted(t) ==
  IF asked[t].preset
  THEN [f \in Fields |-> IF f[1] = All THEN "allow" ELSE "inherit"]
  ELSE [f \in {g \in DOMAIN asked[t].form : read[t][g] # "none"} |-> asked[t].form[f]]
Meanwhile(t) == {f \in Fields : rows[f] # IF read[t][f] = "none" THEN "inherit" ELSE read[t][f]}

\* Two pages that save over each other: a page writes nothing but what its owner
\* asked for, a field it shows unchanged keeps what the other page saved, and every
\* other field ends as asked, unless the other page saved that very field meanwhile
\* (its list of overrides is then stale: such an override survives the preset).  So
\* after the preset an action is allowed on every mailbox unless it was among those.
\* The save ends every other session of its user and no other user's
\* (policy.ts:83-133, session.ts:96-99).
SavedAsPosted ==
  [][\A t \in Tasks : (At(t, {"policy"}, "edit") /\ task'[t].pc = "done") =>
       /\ \A s \in Sessions \ {task[t].session} :
            IF session[s].user = session[task[t].session].user THEN ~session'[s].alive ELSE session'[s] = session[s]
       /\ \A f \in Fields : rows'[f] # rows[f] => (f \in DOMAIN Wanted(t) /\ rows'[f] = Wanted(t)[f])
       /\ \A f \in DOMAIN Wanted(t) : /\ Wanted(t)[f] = read[t][f] => rows'[f] = rows[f]
                                     /\ f \notin Meanwhile(t) => rows'[f] = Wanted(t)[f]
       /\ asked[t].preset =>
            \A m \in Mailboxes, a \in Actions :
              {<<m, a>>, <<All, a>>} \cap Meanwhile(t) = {} => resolveLevel(m, a)'.level = "allow"]_allVars
=============================================================================
