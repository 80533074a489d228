---------------------------- MODULE MCWorkerPool ----------------------------
(***************************************************************************)
(* Small instances of WorkerPool: one process too few for the requests.    *)
(***************************************************************************)
EXTENDS WorkerPool

CONSTANTS r1, r2, r3

TwoRequests   == {r1, r2}
ThreeRequests == {r1, r2, r3}

AllAnswers   == {"result", "error", "long"}
ResultOrLong == {"result", "long"}

RequestSymmetry == Permutations(ThreeRequests)

=============================================================================
