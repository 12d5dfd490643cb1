---------------------------- MODULE MCScheduler -----------------------------
EXTENDS Scheduler, TLC
CONSTANTS rm, a, b, c

\* a and b start alike; safety runs identify states that differ in their names.
SymmetricWorkers == Permutations({a, b})
=============================================================================
