---------------------------- MODULE MCPsiRequest ----------------------------
(* Three parties: every combination of roles and leader addresses, one     *)
(* request per party; and requests that agree on the last party, some of   *)
(* them repeated, one of them repaired.                                    *)
EXTENDS PsiRequest

Ask(role, l) == [protocol |-> "ks05_t_mpsi", elements |-> 1, num_parties |-> 3,
                 threshold |-> 2, role |-> role, leader |-> l]

Once(f) == [s \in Sessions |-> IF s[2] = 1 THEN f[s[1]] ELSE None]

Anything == {Once(f) : f \in [Parties -> {Ask(role, l) : role \in {"member", "leader"}, l \in Parties}]}

Agreed(p) == Ask(IF p = 2 THEN "leader" ELSE "member", 2)

Repeated == {[s \in Sessions |-> IF s[2] = 1 \/ s[1] \in again THEN Agreed(s[1]) ELSE None] :
               again \in SUBSET Parties}

Repaired == [s \in Sessions |->
               IF s = <<1, 1>> THEN [Agreed(1) EXCEPT !.threshold = 1]
               ELSE IF s[2] = 1 \/ s[1] = 1 THEN Agreed(s[1]) ELSE None]

MCPlans == Anything \union Repeated \union {Repaired}
=============================================================================
