---------------------------- MODULE MCFsServer ----------------------------
(* Instances of FsServer for TLC.                                         *)
EXTENDS FsServer, TLC

CONSTANTS name1, name2
ClientSymmetry == Permutations(Clients)
MCPaths == {<<name1>>, <<name2>>}
MCModes == {{}, {"CREAT"}}
===========================================================================
