------------------------- MODULE MCProposalApplication -------------------------
(***************************************************************************)
(* Small workspaces for ProposalApplication: three items, left by a        *)
(* release that kept no completion policies.                               *)
(***************************************************************************)
EXTENDS ProposalApplication

CONSTANTS i1, i2, i3

Row(status, parent, deleted) ==
    [status |-> status, parent |-> parent, order |-> 0, deleted |-> deleted, rev |-> 1]

Legacy(ra, rb, rc) ==
    [items  |-> [i \in Ids |-> IF i = i1 THEN ra ELSE IF i = i2 THEN rb ELSE rc],
     policy |-> [i \in Ids |-> EmptyPolicy]]

\* A parent with an open child and room for a new item; a parent nobody
\* completed though its only active child is done, and a child in the trash.
LegacyForests ==
    {Legacy(Row("planned", None, FALSE), Row("planned", i1, FALSE), None),
     Legacy(Row("planned", None, FALSE), Row("completed", i1, FALSE), Row("planned", i1, TRUE))}

\* One command; a replacement changes one field.
SingleCommands(f) ==
    {<<d>> : d \in {e \in UNION {Requests(f, i) : i \in Ids} :
                       /\ e.op \in {"create", "replace"} => e.body.parent # e.id
                       /\ e.op = "replace" =>
                              Cardinality({k \in DOMAIN e.body :
                                               e.body[k] # f.items[e.id][k]}) = 1}}

\* Edits go to the commands without a body.
PlainCommands(f) == {s \in SingleCommands(f) : s[1].body = None}

Symmetry == Permutations(Proposals)
=============================================================================
