----------------------------- MODULE SerialState -----------------------------
(***************************************************************************)
(* What the state service promises its callers: one document, which every  *)
(* Run changes at once and from its latest version.                        *)
(***************************************************************************)
EXTENDS StateDocument

VARIABLE doc

Init == doc \in {d \in Docs : Sound(d)}

Run(c) == doc' \in Effects(doc, c)

Next == \E c \in Caller : Run(c)

Spec == Init /\ [][Next]_doc

=============================================================================
