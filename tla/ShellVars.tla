----------------------------- MODULE ShellVars -----------------------------
(***************************************************************************)
(* The shell variables that the kernel keeps for every environment: the    *)
(* table env_vars, the system calls sys_set_var, sys_get_var,              *)
(* sys_unset_var and sys_get_var_by_index (kern/syscall_all.c) and the     *)
(* inheritance in env_alloc (kern/env.c).  A system call is one action.    *)
(* The shell passes valid pointers and indices, so the returns of          *)
(* -E_INVAL, which change nothing, are not taken.                          *)
(***************************************************************************)
EXTENDS Integers, FiniteSets

CONSTANTS
  Envs,      \* the slots of envs
  Boot,      \* those in use after boot
  Strings,   \* character strings
  NameArgs,  \* those that programs pass as names,
  ValueArgs, \* as values
  FlagArgs,  \* and the flags they pass
  Copy,      \* Copy[s]: s cut off after MAX_VAR_NAME_LEN = MAX_VAR_VALUE_LEN bytes
  EMPTY,     \* the empty string, also what a zeroed page holds
  MAX_VARS,  \* entries of a table
  NoVar      \* see VarStore

ASSUME VarsAssumption ==
  /\ Boot \subseteq Envs /\ EMPTY \in Strings
  /\ NameArgs \subseteq Strings /\ ValueArgs \subseteq Strings
  /\ FlagArgs \subseteq SUBSET {"EXPORT", "READONLY"}
  /\ Copy \in [Strings -> Strings]
  /\ \A s \in Strings : Copy[Copy[s]] = Copy[s]
  /\ MAX_VARS \in Nat \ {0}
  /\ \A v \in Strings, f \in SUBSET {"EXPORT", "READONLY"} :
       NoVar # [value |-> v, flags |-> f]

Index == 0 .. MAX_VARS - 1
Names == {Copy[s] : s \in NameArgs}
Values == {Copy[s] : s \in ValueArgs}
Kept == {Copy[s] : s \in Strings} \cup {EMPTY}
Flag == {"USED", "EXPORT", "READONLY"}
Var == [name : Kept, value : Kept, flags : SUBSET Flag]

VARIABLES live,      \* environments that are not free
          env_vars,  \* the table of each
          ret        \* result of the last system call

vars == <<live, env_vars, ret>>

Zeroed == [i \in Index |-> [name |-> EMPTY, value |-> EMPTY, flags |-> {}]]

Init == live = Boot /\ env_vars = [e \in Envs |-> Zeroed] /\ ret = "0"

Used(e) == {i \in Index : "USED" \in env_vars[e][i].flags}

FindVarBug(e, nm) == {i \in Used(e) \ {MAX_VARS - 1} : env_vars[e][i].name = nm}

(* find_var stops at the first of these entries.                           *)
FindVar(e, nm) ==
  {i \in Index : "USED" \in env_vars[e][i].flags /\ env_vars[e][i].name = nm}

CutBug(s) == s

(* A user string is copied up to the length of an entry's field.           *)
Cut(s) == Copy[s]

First(S, i) == i \in S /\ \A j \in S : i <= j

Fails(code) == ret' = code /\ UNCHANGED <<live, env_vars>>
Write(e, i, var) == /\ env_vars' = [env_vars EXCEPT ![e][i] = var]
                    /\ ret' = "0" /\ UNCHANGED live

-----------------------------------------------------------------------------
SysSetVar(e, user_name, user_value, flags) ==
  LET nm == Cut(user_name)
      v == Cut(user_value)
  IN  \/ \E i \in FindVar(e, nm) :
           /\ First(FindVar(e, nm), i)
           /\ IF "READONLY" \in env_vars[e][i].flags THEN Fails("E_PERM")
              ELSE Write(e, i, [env_vars[e][i] EXCEPT !.value = v, !.flags = @ \cup flags])
      \/ /\ FindVar(e, nm) = {} /\ Used(e) = Index
         /\ Fails("E_NO_MEM")
      \/ /\ FindVar(e, nm) = {}
         /\ \E i \in Index \ Used(e) :
              /\ First(Index \ Used(e), i)
              /\ Write(e, i, [name |-> nm, value |-> v, flags |-> {"USED"} \cup flags])

SysGetVar(e, user_name) ==
  LET nm == Cut(user_name)
  IN  \/ FindVar(e, nm) = {} /\ Fails("E_VAR_NOT_FOUND")
      \/ \E i \in FindVar(e, nm) :
           /\ First(FindVar(e, nm), i)
           /\ ret' = env_vars[e][i].value
           /\ UNCHANGED <<live, env_vars>>

SysUnsetVarBug(e, user_name) ==
  LET nm == Cut(user_name)
  IN  \/ FindVar(e, nm) = {} /\ Fails("0")
      \/ \E i \in FindVar(e, nm) :
           /\ First(FindVar(e, nm), i)
           /\ Write(e, i, [env_vars[e][i] EXCEPT !.flags = {}])

(* The entry keeps its name and its value, but is not in use any more.     *)
SysUnsetVar(e, user_name) ==
  LET nm == Cut(user_name)
  IN  \/ FindVar(e, nm) = {} /\ Fails("0")
      \/ \E i \in FindVar(e, nm) :
           /\ First(FindVar(e, nm), i)
           /\ IF "READONLY" \in env_vars[e][i].flags THEN Fails("E_PERM")
              ELSE Write(e, i, [env_vars[e][i] EXCEPT !.flags = {}])

(* declare without arguments calls it for every index.                     *)
SysGetVarByIndex(e, index) ==
  /\ ret' = IF index \in Used(e) THEN env_vars[e][index].value ELSE "E_VAR_NOT_FOUND"
  /\ UNCHANGED <<live, env_vars>>

InheritedBug(e) == env_vars[e]

(* The child's page is zeroed, then the exported entries are copied to     *)
(* where they are in the parent's table.                                   *)
Inherited(e) ==
  [i \in Index |-> IF {"USED", "EXPORT"} \subseteq env_vars[e][i].flags
                   THEN env_vars[e][i] ELSE Zeroed[i]]

(* env_alloc for a child of the running env e (sys_exofork).               *)
EnvAlloc(e, c) ==
  /\ live' = live \cup {c}
  /\ env_vars' = [env_vars EXCEPT ![c] = Inherited(e)]
  /\ ret' = "0"

(* exit and the parent's wait: nobody uses the table in between.  A boot   *)
(* env has no parent that would reap it.                                   *)
EnvFree(e) ==
  /\ e \notin Boot
  /\ live' = live \ {e}
  /\ env_vars' = [env_vars EXCEPT ![e] = Zeroed]
  /\ ret' = "0"

Next ==
  \E e \in live :
    \/ \E s \in NameArgs, v \in ValueArgs, f \in FlagArgs : SysSetVar(e, s, v, f)
    \/ \E s \in NameArgs : SysGetVar(e, s) \/ SysUnsetVar(e, s)
    \/ \E i \in Index : SysGetVarByIndex(e, i)
    \/ \E c \in Envs \ live : EnvAlloc(e, c)
    \/ EnvFree(e)

Spec == Init /\ [][Next]_vars

-----------------------------------------------------------------------------
(* Tables of MAX_VARS entries, the strings in them cut to their length.    *)
TypeOK ==
  /\ live \subseteq Envs
  /\ env_vars \in [Envs -> [Index -> Var]]
  /\ ret \in Kept \cup {"0", "E_PERM", "E_NO_MEM", "E_VAR_NOT_FOUND"}

(* No table has two entries in use with the same name, however often names *)
(* were unset and set again and tables inherited: find_var's first match   *)
(* is the only one.                                                        *)
NamesUnique ==
  \A e \in Envs : \A i, j \in Used(e) :
    env_vars[e][i].name = env_vars[e][j].name => i = j

(* A READONLY variable keeps its entry, value and flags as long as its env *)
(* lives: neither sys_set_var nor sys_unset_var touches it.                *)
ReadonlyKept ==
  [][\A e \in live \cap live' : \A i \in Used(e) :
       "READONLY" \in env_vars[e][i].flags => env_vars'[e][i] = env_vars[e][i]]_vars

(* The dictionary a table stands for.                                      *)
Lookup(e, nm) ==
  LET found == FindVar(e, nm)
      var == env_vars[e][CHOOSE i \in found : TRUE]
  IN  IF found = {} THEN NoVar
      ELSE [value |-> var.value, flags |-> var.flags \ {"USED"}]

Dict == [e \in Envs |-> [nm \in Names |-> Lookup(e, nm)]]

Store == INSTANCE VarStore WITH dict <- Dict

(* The system calls implement the dictionary: entries found by a linear    *)
(* search, freed by clearing their flags and inherited in place behave as  *)
(* variables with names, E_NO_MEM means that MAX_VARS of them are defined, *)
(* and a new env has the exported ones of its parent and no others.        *)
ImplementsStore == Store!Spec
=============================================================================
