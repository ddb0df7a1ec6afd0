------------------------------ MODULE MCPunchSync ------------------------------
(***************************************************************************)
(* An instance of PunchSync for TLC: the users ask for everything or for   *)
(* the later of two moments.                                               *)
(***************************************************************************)
EXTENDS PunchSync

MCRanges == {Full, [from |-> 1, upto |-> 2]}

=============================================================================
