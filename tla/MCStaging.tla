------------------------------ MODULE MCStaging ------------------------------
(***************************************************************************)
(* Small instances of Staging.                                             *)
(***************************************************************************)
EXTENDS Staging, TLC

CONSTANTS d1, u1, s1, s2, a1, a2

Of(f, c, l, r) == [files |-> f, calls |-> c, last |-> l, revokes |-> r]

\* Two files under one slot and one quota; a file of an operation, begun late;
\* a download with one stream, with two, with a stream and an acknowledgement,
\* and with two acknowledgements.
Histories == {Of({d1, u1}, {}, 0, FALSE), Of({u1}, {}, 1, TRUE), Of({d1}, {s1}, 0, TRUE),
              Of({d1}, {s1, s2}, 0, FALSE), Of({d1}, {s1, a1}, 0, FALSE),
              Of({d1}, {a1, a2}, 0, FALSE)}
=============================================================================
