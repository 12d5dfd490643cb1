----------------------------- MODULE MCConsole -----------------------------
(***************************************************************************)
(* Instance of Console: two threads, of one process or of two that write   *)
(* to different sinks, and a ring of two scancodes.                        *)
(***************************************************************************)
EXTENDS Console

MCHomes == {[t \in Threads |-> "p"], [t \in Threads |-> IF t = "a" THEN "p" ELSE "q"]}
MCOut == [p \in Procs |-> IF p = "q" THEN "serial" ELSE "fb"]
MCTexts == {<<"char", "control">>, <<"sequence", "char", "release">>}
=============================================================================
