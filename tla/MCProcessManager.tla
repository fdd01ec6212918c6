-------------------------- MODULE MCProcessManager --------------------------
\* ProcessManager with interchangeable requests and ports.
EXTENDS ProcessManager, TLC

Symmetry == Permutations(Requests) \cup Permutations(Ports)
=============================================================================
