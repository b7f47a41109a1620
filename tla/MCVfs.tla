------------------------------- MODULE MCVfs --------------------------------
(* Two clients; an archive with a file, a directory and a file in it, and one *)
(* in which another name extends the directory's.                             *)
EXTENDS Vfs, TLC

Header(name, type, size) == [ustar |-> TRUE, name |-> name, type |-> type, size |-> size]
Data == Header(<<".", "/", "x">>, "FILE", 0)  \* contents that look like a header
End == [Data EXCEPT !.ustar = FALSE]

MCTars == {<<Header(<<".", "/">>, "DIRECTORY", 0), Header(<<".", "/", "d", "/">>, "DIRECTORY", 0),
             Header(<<".", "/", "l">>, "LINK", 0), Header(<<".", "/", "d", "/", "f">>, "FILE", 513),
             Data, Data, End>>,
           <<Header(<<".", "/">>, "DIRECTORY", 0), Header(<<".", "/", "d", "/">>, "DIRECTORY", 0),
             Header(<<".", "/", "d", "e">>, "FILE", 512), Data, End>>}

Symmetry == Permutations(Clients)

MCPaths == {<<>>, <<<<"d">>>>, <<<<"d">>, <<"f">>>>}
=============================================================================
