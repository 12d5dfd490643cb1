------------------------------- MODULE MCFs -------------------------------
(***************************************************************************)
(* Instance of Fs: two threads; paths of one, two and three components on  *)
(* both file systems, a trailing '/', a path outside every mount, and one  *)
(* below a mount inside the RAM file system.                               *)
(***************************************************************************)
EXTENDS Fs

Symm == Permutations(Threads)

MCPaths == {<<"">>, <<"", "ram", "">>, <<"", "ram", "a">>, <<"", "ram", "a", "b">>, <<"", "ram", "a", "b", "c">>,
            <<"", "ram", "l">>, <<"", "proc", "d">>, <<"", "proc", "d", "d">>}
MCOpenOpts == {{"READ"}, {"CREATE_ALL", "WRITE"}, {"CREATE_DIR", "EXECUTE"}, {"CREATE_LINK", "WRITE"}}
MCUnlinkOpts == {{}, {"RECURSIVE"}}
MCPerms == {{"r"}, {"r", "w", "x"}}
MCMounts == {<<"", "ram", "a">>}
MCDevs == {<<"", "d">>, <<"", "d", "d">>}
=============================================================================
