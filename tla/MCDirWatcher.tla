---------------------------- MODULE MCDirWatcher ----------------------------
(* Instances of DirWatcher for TLC: a directory with a file that does not  *)
(* match and a subdirectory, there or not in the beginning, with a         *)
(* matching file.                                                          *)
EXTENDS DirWatcher

Dir == <<"d">>
Other == <<"d", "b">>
Sub == <<"d", "e">>
Match == <<"d", "e", "f">>
AllPaths == {Dir, Other, Sub, Match}
AllDirs == {Dir, Sub}
MatchingFiles == {Match}
Trees == {AllPaths, {Dir, Other}}
DirAndFile == {Dir, Other}
=============================================================================
