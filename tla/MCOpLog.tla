------------------------------ MODULE MCOpLog ------------------------------
(***************************************************************************)
(* Instances of OpLog for TLC.                                             *)
(***************************************************************************)
EXTENDS OpLog

CONSTANTS a1, a2, r1, salt1

MCOp(kind, body, deps) ==
    [kind |-> kind, body |-> body, actor |-> a1, rest |-> r1, deps |-> deps,
     nacks |-> <<>>, target_fp |-> None, timestamp |-> None]

\* Dependencies out of order and repeated; and the ops that do not encode.
MCDraft == {MCOp("kind", "canonical", <<2, 1, 2>>),
            MCOp("", "none", <<>>),
            MCOp("kind", "sloppy", <<>>)}

MCTree(known, extra, asserts) ==
    [core |-> [known |-> known, whole |-> TRUE, extra |-> extra, kind |-> "kind",
               body |-> "none", actor |-> a1, rest |-> r1],
     asserts |-> asserts]

MCSays(p, v, s) == [pred |-> p, val |-> v, salt |-> s]

\* A later format; a key outside the profile and a timestamp given twice; a
\* predicate outside the profile.
MCForeign == {MCTree(FALSE, FALSE, {}),
              MCTree(TRUE, TRUE, {MCSays("timestamp", 1, NoSalt),
                                  MCSays("timestamp", 2, salt1)}),
              MCTree(TRUE, FALSE, {MCSays("other", 1, NoSalt),
                                   MCSays("nacks", 1, NoSalt)})}
=============================================================================
