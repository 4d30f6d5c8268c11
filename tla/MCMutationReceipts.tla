------------------------- MODULE MCMutationReceipts -------------------------
EXTENDS MutationReceipts

CONSTANTS r1, r2

\* One id for the kinds whose repetition would be seen outside the database, one
\* for those that may run again.
InputsOfTwo == ({r1} \X {"send", "start", "prompt"}) \cup ({r2} \X {"report", "relayed", "release"})

\* A start and a worker_done on a worker's host, each beside a request that may
\* run again.
InputsOfStart == {<<r1, "start">>, <<r2, "release">>}
InputsOfRelay == {<<r1, "relayed">>, <<r2, "release">>}
=============================================================================
