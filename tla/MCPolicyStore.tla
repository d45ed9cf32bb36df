--------------------------- MODULE MCPolicyStore ---------------------------
(* Small instances of PolicyStore for TLC.                                 *)
EXTENDS PolicyStore

\* One capability of each risk around the escape hatch, which is R2.
MCRisk == <<"R0", "R1", "R2", "R2">>
=============================================================================
