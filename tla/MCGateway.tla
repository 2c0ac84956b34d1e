------------------------------ MODULE MCGateway ------------------------------
(* Two jobs, so that one job's requests and the worker interleave with    *)
(* the other's, and one failing store call.                               *)
EXTENDS Gateway

CONSTANTS j1, j2

MCJobs == {j1, j2}
=============================================================================
