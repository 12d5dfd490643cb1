----------------------------- MODULE MCContext -----------------------------
EXTENDS Context, TLC

CONSTANTS a, b, c

MCArgs == {[i \in 1 .. 6 |-> <<"arg", i>>]}

MCKinds == (a :> {"kernel"}) @@ (b :> {"process"}) @@ (c :> {"kernel", "thread"})

MCContents ==
    [p \in Slots \X Rings |-> {[r \in Data |-> <<r, p[2], p[1]>>]}]

=============================================================================
