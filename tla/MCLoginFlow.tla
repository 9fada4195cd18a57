---------------------------- MODULE MCLoginFlow ----------------------------
(* LoginFlow on small instances: u1 has an authenticator and a batch of two  *)
(* recovery codes; the batches drawn later have one code each.              *)
EXTENDS LoginFlow, TLC
CONSTANTS x1, c1, c2, u1
MCTotp == [u \in User |-> IF u = u1 THEN x1 ELSE None]
MCBatch == {{c1, c2}} \cup {{c} : c \in Code \ {c1, c2}}
MCCodes == [u \in User |-> IF u = u1 THEN {c1, c2} ELSE {}]
Symmetry == Permutations(Req) \cup Permutations(Session) \cup Permutations(Challenge)
            \cup Permutations(Flow) \cup Permutations(Secret \ {x1})
            \cup Permutations({c1, c2}) \cup Permutations(Code \ {c1, c2})
=============================================================================
