------------------------------ MODULE MCAccess ------------------------------
(***************************************************************************)
(* Small instances of Access with Policy: requests that race, in one world.*)
(***************************************************************************)
EXTENDS Policy, TLC

CONSTANTS m1, m2, work, home, owner, other, stranger, s1, s2, s3, s4, x1, x2, x3, t1, t2, t3

\* What the requests find: m1 connected and the default, with an access token that
\* is still good and was encrypted under an older key; m2 not connected.
Row == [NoAccount EXCEPT !.status = "active", !.version = 1, !.refresh = 1, !.access = 1,
          !.fresh = TRUE, !.old = TRUE, !.default = TRUE, !.alias = work]
Connected == [m \in Mailboxes |-> IF m = m1 THEN Row ELSE NoAccount]
Revoked == [m \in Mailboxes |-> IF m = m1
              THEN [NoAccount EXCEPT !.status = "revoked", !.version = 2, !.alias = work] ELSE NoAccount]
Empty == [m \in Mailboxes |-> NoAccount]

\* Two browsers of the owner, the second not recently authenticated, one that is yet
\* to log in, and one of another owner.
Browsers == [s \in Sessions |-> IF s = s3 THEN NoSession
               ELSE [user |-> IF s = s4 THEN other ELSE owner, alive |-> TRUE, recent |-> s # s2]]

Pending(kind, s, alias) == [NoState EXCEPT !.kind = kind, !.session = s,
                              !.user = IF kind = "connect" THEN owner ELSE None, !.alias = alias]
NoStates == [x \in States |-> NoState]
Consents == [x \in States |-> IF x = x1 THEN Pending("connect", s1, work)
                              ELSE Pending("connect", s1, home)]

Token(m, pin, force) == [kind |-> "token", mailbox |-> m, pin |-> pin, force |-> force]
Revoke(m, s) == [kind |-> "revoke", mailbox |-> m, cookie |-> s]
Default(m, s) == [kind |-> "default", mailbox |-> m, cookie |-> s]
Consent(m, s, x) == [kind |-> "connect", mailbox |-> m, cookie |-> s, state |-> x]
Start(kind, s, x) == [kind |-> kind, cookie |-> s, state |-> x, alias |-> home]
Back(s, x, sub) == [kind |-> "callback", cookie |-> s, state |-> x, sub |-> sub]
Decision(s, x, yes) == [kind |-> "decide", cookie |-> s, state |-> x, approve |-> yes]
Page(kind, s) == [kind |-> kind, cookie |-> s]
Form(s, form) == [kind |-> "policy", cookie |-> s, preset |-> FALSE, form |-> form]
Preset(s) == [kind |-> "policy", cookie |-> s, preset |-> TRUE, form |-> <<>>]
Tool(tool, m) == [kind |-> "tool", tool |-> tool, mailbox |-> m]
Label(add, remove) == Tool("label", m1) @@ [add |-> add, remove |-> remove]
Sensitive(label) == Tool("sensitive", m1) @@ [add |-> {label}]
Switch(tool, on) == Tool(tool, m1) @@ [on |-> on]
DeleteLabel(label) == Tool("manage", m1) @@ [remove |-> {label}]
Sending == Tool("send_draft", m1) @@ [mods |-> {"+external"}]

World(a, b, c, accounts, states) ==
  [asked |-> (t1 :> a) @@ (t2 :> b) @@ (t3 :> c), account |-> accounts,
   session |-> Browsers, state |-> states]

Histories == {
  \* a token being refreshed or rewrapped while its grant is revoked and replaced
  World(Token(m1, None, TRUE), Revoke(m1, s1), Consent(m1, s1, x1), Connected, Consents),
  World(Token(m1, 1, FALSE), Revoke(m1, s1), Consent(m1, s1, x1), Connected, Consents),
  World(Token(m1, 2, FALSE), Revoke(m1, s1), Consent(m1, s1, x1), Revoked, Consents),
  World(Token(m1, 1, TRUE), Token(m1, None, FALSE), Consent(m1, s1, x1), Connected, Consents),
  \* two consents for one mailbox, with one alias, and for the same state
  World(Consent(m2, s1, x1), Consent(m2, s1, x2), Revoke(m2, s1), Empty, Consents),
  World(Consent(m2, s1, x1), Consent(m1, s1, x1), Default(m1, s1), Connected, Consents),
  World(Consent(m1, s1, x1), Consent(m2, s2, x2), Default(m1, s1), Empty, Consents),
  \* a revocation that loses every race
  World(Revoke(m1, s1), Consent(m1, s1, x1), Consent(m1, s1, x2), Connected, Consents),
  \* the default chosen while it is revoked
  World(Default(m1, s1), Revoke(m1, s1), Consent(m2, s1, x2), Connected, Consents),
  \* the browser's flows, crossed
  World(Start("connect_start", s2, x1), Consent(m2, s2, x1), Back(s1, x1, owner), Connected, NoStates),
  World(Start("reauth_start", s2, x1), Back(s2, x1, owner), Form(s2, <<>>), Connected, NoStates),
  World(Start("reauth_start", s2, x1), Back(s2, x1, other), Back(s1, x1, owner), Connected, NoStates),
  World(Start("reauth_start", s2, x1), Back(s2, x1, owner), Page("logout", s2), Connected, NoStates),
  World(Start("login_start", s1, x1), Back(s1, x1, stranger), Back(s2, x1, other), Connected, NoStates),
  World(Start("authorize_start", s1, x1), Decision(s1, x1, TRUE), Decision(s2, x1, TRUE), Connected, NoStates),
  World(Start("authorize_start", s1, x1), Decision(s1, x1, FALSE), Consent(m1, s1, x1), Connected, NoStates),
  \* the policy saved in two tabs, for one mailbox and for all, while a tool is called
  World(Form(s1, <<m1, "label.apply">> :> "deny"), Preset(s1), Sensitive("TRASH"), Connected, NoStates),
  World(Form(s1, (<<All, "label.apply">> :> "allow") @@ (<<m1, "label.apply">> :> "ask")),
        Form(s1, <<m1, "label.apply">> :> "inherit"), Label({"STARRED"}, {"INBOX"}), Connected, NoStates),
  World(Form(s1, <<m2, "spam.mark">> :> "deny"), Preset(s1), Consent(m2, s1, x2), Connected, Consents),
  World(Form(s1, <<All, "trash.move">> :> "deny"), Switch("trash", TRUE), Revoke(m1, s1), Connected, NoStates),
  World(Form(s1, <<All, "trash.restore">> :> "deny"), Switch("trash", FALSE), Label({"SPAM"}, {}), Connected, NoStates),
  World(Form(s1, (<<m1, "spam.mark">> :> "allow") @@ (<<m2, "spam.mark">> :> "allow")), Switch("spam", TRUE),
        Switch("spam", FALSE), Connected, NoStates),
  World(Form(s1, <<All, "label.manage">> :> "often"), DeleteLabel("mine"), DeleteLabel("INBOX"), Connected, NoStates),
  World(Form(s1, <<m1, "send.draft">> :> "deny"), Sending, Tool("update_draft", m1), Connected, NoStates),
  World(Preset(s1), Sending, Label({"mine"}, {}), Connected, NoStates),
  World(Form(s1, <<m1, "draft.write">> :> "ask"), Form(s2, <<m1, "draft.write">> :> "deny"), Preset(s1), Connected, NoStates),
  \* three requests to register the companion
  World(Page("companion", s1), Page("companion", s1), Page("companion", s1), Connected, NoStates)}
=============================================================================
