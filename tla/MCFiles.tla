------------------------------ MODULE MCFiles ------------------------------
EXTENDS Files, TLC

Act(do, from, to) == [do |-> do, from |-> from, to |-> to]

\* A shell's pipeline, a list that fails in its middle, and a fresh table.
MCActions == {
    << Act("dup", 1, 2), Act("close", 0, 0) >>,
    << Act("inherit", 0, 1), Act("dup", 2, 0) >>,
    << Act("clear", 0, 0), Act("open", 0, 0), Act("inherit", 1, 1) >> }

\* The threads of the parent are interchangeable.
ThreadSymmetry == Permutations(Threads)
=============================================================================
