---------------------------- MODULE MCJobQueue ----------------------------
\* The job queue on a small instance: a pipeline job and another one, two
\* worker loops.
EXTENDS JobQueue
CONSTANTS p1, d1, w1, w2
MCJob == {p1, d1}
MCWorker == {w1, w2}
MCPipeline == {p1}
=============================================================================
