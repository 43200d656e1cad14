---------------------------- MODULE MCShellVars ----------------------------
(* Instances of ShellVars for TLC.                                         *)
EXTENDS ShellVars

\* a string of 16 characters, a longer one with the same beginning, short ones
CONSTANTS max16, long17, a, b
MCStrings == {EMPTY, max16, long17, a, b}
MCCopy == [s \in MCStrings |-> IF s = long17 THEN max16 ELSE s]

MCBothFlags == {{}, {"EXPORT", "READONLY"}}
=============================================================================
