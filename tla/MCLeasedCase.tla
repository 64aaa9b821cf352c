--------------------------- MODULE MCLeasedCase ---------------------------
(* TLC instances of LeasedCase.                                            *)
EXTENDS LeasedCase, TLC

Requests == Permutations(Request)
RequestsAndCases == Permutations(Request) \cup Permutations(Case)

Uploads == {"upload", "delete"}
AllOps == {"upload", "delete", "update"}

=============================================================================
