--------------------------------- MODULE MCApi ---------------------------------
(* Two threads of the API server and two clusters.                         *)
EXTENDS ManagementApi, TLC

CONSTANTS t1, t2, c1, c2

AllRecords == ApiRecords
Symmetry == Permutations({t1, t2}) \cup Permutations({c1, c2})
=============================================================================
