------------------------------ MODULE MCI2CBus ------------------------------
EXTENDS I2CBus, TLC

\* The threads are interchangeable.
Threads == Permutations(Thread)

=============================================================================
