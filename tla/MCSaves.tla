------------------------------ MODULE MCSaves ------------------------------
(***************************************************************************)
(* Small instances of Saves.                                               *)
(***************************************************************************)
EXTENDS Saves, TLC

CONSTANTS h1, h2, p1, p2

Put(h, p) == [kind |-> "save", handle |-> h, path |-> p]
Clear(h) == [kind |-> "release", handle |-> h]

\* Two attachments saved to one name, one of them also asked for under another name, a
\* debt cleared, and any other tool call, which only starts a helper.
Calls == {Put(h1, p1), Put(h2, p1), Put(h1, p2), Clear(h1), [kind |-> "other"]}
=============================================================================
