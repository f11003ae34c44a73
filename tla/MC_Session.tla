----------------------------- MODULE MC_Session -----------------------------
(* Instances of Session for TLC. *)
EXTENDS Session

\* root_dir and a neighbour whose name begins with its own.
FileDir  == <<"srv", "file">>
FileOld  == <<"srv", "file2">>
AtRoot   == {FileDir}
Anywhere == {FileDir, <<"home">>}

FewNames  == {"srv", "file", "file2", "home", "a"}
FileNames == {"file", "file2"}
OneName   == {"a"}
ThreeDirs == {<<>>, <<"srv">>, <<"home">>, FileDir, FileOld}

\* Down, up, to the neighbour, nowhere; out of the root and back; from elsewhere to the
\* root, above "/" on the way.
SomeLines ==
  { <<>>, <<"a">>, <<".", "..">>, <<"..", "..", "file">>, <<"..", "file2">>, <<"a", "..", "a">>,
    <<"..", "..", "..", "srv", "file">>, <<"a", "..", "..", "file2", "a">> }

EveryFault == AllFaults

\* normalize_path's stack against the path read as a whole, for every short path.
ShortPaths == UNION {[1 .. n -> {"file", "a", "..", "."}] : n \in 0 .. 6}
ASSUME StackAgrees == \A path \in ShortPaths : Normalize(path) = OneUser!Leads(path)
=============================================================================
