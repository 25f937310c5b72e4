----------------------------- MODULE MCConnSlots -----------------------------
(* Instances of ConnSlots: two slots that several clients use in turn.      *)
EXTENDS ConnSlots

CONSTANTS k1, k2, k3
=============================================================================
