--------------------------- MODULE MCTriageVerify ---------------------------
(* TriageVerify for TLC: a few candidates, and the relations between them. *)
EXTENDS TriageVerify

CONSTANTS a, b, c, d, lensA, lensB, lensC, locus1, locus2, locus3, kind1

Pairs == {{x, y} : x, y \in Cands}
None  == {}
Selves == {{x} : x \in Cands}
AlikeAB == {{a, b}} \cup Selves
RootBC == {{b, c}}

(* Three lenses on one defect, each at a locus of its own; d repeats a.     *)
Lenses3 == [x \in Cands |-> CASE x = a -> lensA [] x = b -> lensB [] OTHER -> lensC]
LociAll == [x \in Cands |-> CASE x = b -> locus2 [] x = c -> locus3 [] OTHER -> locus1]
Kind1   == [x \in Cands |-> kind1]

=============================================================================
