----------------------------- MODULE MCBatchJobs -----------------------------
EXTENDS BatchJobs
CONSTANTS j1, j2, j3
MCJob == {j1, j2, j3}
=============================================================================
