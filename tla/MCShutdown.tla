------------------------------ MODULE MCShutdown ------------------------------
(* Three requests, one of them with a snapshot the database refuses, and a queue *)
(* and batches that are smaller than what they offer. *)
EXTENDS Shutdown

CONSTANTS s1, s2, s3

MCRequests == {s1, s2, s3}
MCPoison == {s3}
=============================================================================
