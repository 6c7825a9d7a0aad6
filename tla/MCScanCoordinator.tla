------------------------- MODULE MCScanCoordinator -------------------------
(* One scan root with a directory in it, and a file in that. *)
EXTENDS ScanCoordinator

MCNames == {"music", "album", "song"}
MCRoot == <<"music">>
MCPaths == {MCRoot, <<"music", "album">>, <<"music", "album", "song">>}
MCScanRoots == {MCRoot}
=============================================================================
