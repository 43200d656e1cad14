---------------------------- MODULE MCEnvSched ----------------------------
(* Instances of EnvSched for TLC.                                         *)
EXTENDS EnvSched

\* init.c: user_icode and fs_serv, both with priority 1
MCBootPri == <<1, 1>>
\* a single boot env with a slice of two ticks
MCBootPriMixed == <<2>>
============================================================================
