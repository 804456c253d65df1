--------------------------- MODULE MCQueryFanout ---------------------------
(***************************************************************************)
(* Small instances of QueryFanout.  The goroutines of a request run the    *)
(* same code, so they may be permuted where no liveness is asked.          *)
(***************************************************************************)
EXTENDS QueryFanout, TLC

QuerySymmetry == Permutations(Queries)

=============================================================================
