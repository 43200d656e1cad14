-------------------------- MODULE ShellVarsProofs --------------------------
(* Proofs about the shell variables, for every table size and all names.   *)
EXTENDS ShellVars, FiniteSetTheorems, TLAPS

(* Entries in use have a name that some program has passed.                *)
NamesPassed == \A e \in Envs : \A i \in Used(e) : env_vars[e][i].name \in Names

VarsInv == TypeOK /\ NamesUnique /\ NamesPassed

(* A string copied into an entry has the length of an entry.               *)
LEMMA CopyType == ASSUME NEW s \in Strings PROVE Copy[s] \in Kept
BY VarsAssumption DEF Kept

(* An empty entry is an entry.                                             *)
LEMMA ZeroedType == Zeroed \in [Index -> Var] /\ \A i \in Index : Zeroed[i].flags = {}
BY VarsAssumption DEF Zeroed, Var, Flag, Kept

(* Every system call keeps the tables and results in their types.          *)
LEMMA WriteType ==
  ASSUME TypeOK, NEW e \in Envs, NEW i \in Index, NEW var \in Var, Write(e, i, var)
  PROVE  TypeOK'
BY DEF TypeOK, Write

(* No call that only returns a code disturbs the tables.                   *)
LEMMA FailsInv ==
  ASSUME VarsInv, NEW code \in {"0", "E_PERM", "E_NO_MEM", "E_VAR_NOT_FOUND"}, Fails(code)
  PROVE  VarsInv'
BY DEF VarsInv, TypeOK, NamesUnique, NamesPassed, Used, Fails

(* Writing an entry keeps the invariant if it ends up unused, or with a    *)
(* name that no other entry in use has.                                    *)
LEMMA WriteInv ==
  ASSUME VarsInv, NEW e \in Envs, NEW i \in Index, NEW var \in Var, Write(e, i, var),
         "USED" \in var.flags =>
            /\ var.name \in Names
            /\ \A j \in Used(e) : env_vars[e][j].name = var.name => j = i
  PROVE  VarsInv'
<1> USE DEF VarsInv
<1>1. TypeOK'
  BY WriteType
<1>2. \A d \in Envs, j \in Index :
        env_vars'[d][j] = IF d = e /\ j = i THEN var ELSE env_vars[d][j]
  BY DEF Write, TypeOK
<1>3. NamesPassed'
  BY <1>2 DEF NamesPassed, Used
<1>4. NamesUnique'
  <2> SUFFICES ASSUME NEW d \in Envs, NEW j \in Used(d)', NEW k \in Used(d)',
                      env_vars'[d][j].name = env_vars'[d][k].name
               PROVE  j = k
    BY DEF NamesUnique
  <2>1. CASE d # e
    BY <1>2, <2>1 DEF NamesUnique, Used
  <2>2. CASE d = e /\ j = i
    BY <1>2, <2>2 DEF NamesUnique, Used
  <2>3. CASE d = e /\ k = i
    BY <1>2, <2>3 DEF NamesUnique, Used
  <2>4. CASE d = e /\ j # i /\ k # i
    BY <1>2, <2>4 DEF NamesUnique, Used
  <2> QED BY <2>1, <2>2, <2>3, <2>4
<1> QED BY <1>1, <1>3, <1>4

(* The state at boot.                                                      *)
LEMMA InitVarsInv == Init => VarsInv
BY ZeroedType, VarsAssumption DEF Init, VarsInv, TypeOK, NamesUnique, NamesPassed, Used

(* sys_set_var preserves the invariant: a new entry is made only when      *)
(* find_var has found none with the name.                                  *)
LEMMA SetInv ==
  ASSUME VarsInv, NEW e \in Envs, NEW s \in NameArgs, NEW v \in ValueArgs,
         NEW f \in FlagArgs, SysSetVar(e, s, v, f)
  PROVE  VarsInv'
<1> DEFINE nm == Copy[s]
           val == Copy[v]
<1>1. s \in Strings /\ v \in Strings /\ f \subseteq {"EXPORT", "READONLY"}
  BY VarsAssumption
<1>2. nm \in Kept /\ val \in Kept /\ nm \in Names
  BY <1>1, CopyType DEF Names
<1> HIDE DEF nm, val
<1>3. CASE \E i \in FindVar(e, nm) : "READONLY" \in env_vars[e][i].flags /\ Fails("E_PERM")
  BY <1>3, FailsInv
<1>4. ASSUME NEW i \in FindVar(e, nm),
             Write(e, i, [env_vars[e][i] EXCEPT !.value = val, !.flags = @ \cup f])
      PROVE  VarsInv'
  <2> DEFINE var == [env_vars[e][i] EXCEPT !.value = val, !.flags = @ \cup f]
  <2>1. env_vars[e][i] \in Var /\ i \in Index /\ i \in Used(e) /\ env_vars[e][i].name = nm
    BY DEF VarsInv, TypeOK, FindVar, Used
  <2>2. var \in Var /\ var.name = nm
    BY <2>1, <1>1, <1>2 DEF Var, Flag
  <2>3. \A j \in Used(e) : env_vars[e][j].name = nm => j = i
    BY <2>1 DEF VarsInv, NamesUnique
  <2> HIDE DEF var
  <2>4. Write(e, i, var)
    BY <1>4 DEF var
  <2> QED BY <2>1, <2>2, <2>3, <2>4, <1>2, WriteInv
<1>5. CASE Fails("E_NO_MEM")
  BY <1>5, FailsInv
<1>6. ASSUME FindVar(e, nm) = {}, NEW i \in Index \ Used(e),
             Write(e, i, [name |-> nm, value |-> val, flags |-> {"USED"} \cup f])
      PROVE  VarsInv'
  <2> DEFINE var == [name |-> nm, value |-> val, flags |-> {"USED"} \cup f]
  <2>1. var \in Var /\ var.name = nm
    BY <1>1, <1>2 DEF Var, Flag
  <2>2. \A j \in Used(e) : env_vars[e][j].name # nm
    BY <1>6 DEF FindVar, Used
  <2> HIDE DEF var
  <2>3. Write(e, i, var)
    BY <1>6 DEF var
  <2> QED BY <2>1, <2>2, <2>3, <1>2, WriteInv
<1> QED BY <1>3, <1>4, <1>5, <1>6 DEF SysSetVar, Cut, nm, val

(* So does sys_unset_var.                                                  *)
LEMMA UnsetInv ==
  ASSUME VarsInv, NEW e \in Envs, NEW s \in NameArgs, SysUnsetVar(e, s)
  PROVE  VarsInv'
<1>1. CASE Fails("0") \/ Fails("E_PERM")
  BY <1>1, FailsInv
<1>2. ASSUME NEW i \in Index, Write(e, i, [env_vars[e][i] EXCEPT !.flags = {}])
      PROVE  VarsInv'
  <2> DEFINE var == [env_vars[e][i] EXCEPT !.flags = {}]
  <2>1. var \in Var /\ var.flags = {}
    BY DEF VarsInv, TypeOK, Var
  <2> HIDE DEF var
  <2>2. Write(e, i, var)
    BY <1>2 DEF var
  <2> QED BY <2>1, <2>2, WriteInv
<1> QED BY <1>1, <1>2 DEF SysUnsetVar, Cut, FindVar

(* And env_alloc, which copies entries to the same places, and env_free.   *)
LEMMA LifeInv ==
  ASSUME VarsInv, NEW e \in Envs, NEW c \in Envs, NEW T \in [Index -> Var],
         \A i \in Index : T[i] = env_vars[e][i] \/ T[i].flags = {},
         env_vars' = [env_vars EXCEPT ![c] = T], live' \subseteq Envs, ret' = "0"
  PROVE  VarsInv'
<1>1. TypeOK'
  BY DEF VarsInv, TypeOK
<1>2. \A d \in Envs, i \in Index :
        env_vars'[d][i] = IF d = c THEN T[i] ELSE env_vars[d][i]
  BY DEF VarsInv, TypeOK
<1>3. NamesPassed'
  BY <1>2 DEF VarsInv, NamesPassed, Used
<1>4. NamesUnique'
  BY <1>2 DEF VarsInv, NamesUnique, Used
<1> QED BY <1>1, <1>3, <1>4 DEF VarsInv

(* Every step preserves the invariant.                                     *)
LEMMA NextVarsInv == VarsInv /\ [Next]_vars => VarsInv'
<1> SUFFICES ASSUME VarsInv, [Next]_vars PROVE VarsInv'
  OBVIOUS
<1>1. CASE UNCHANGED vars
  BY <1>1 DEF VarsInv, TypeOK, NamesUnique, NamesPassed, Used, vars
<1>2. ASSUME NEW e \in live, NEW s \in NameArgs, SysGetVar(e, s) PROVE VarsInv'
  <2>1. CASE Fails("E_VAR_NOT_FOUND")
    BY <2>1, FailsInv
  <2>2. ASSUME NEW i \in Index, ret' = env_vars[e][i].value, UNCHANGED <<live, env_vars>>
        PROVE  VarsInv'
    BY <2>2 DEF VarsInv, TypeOK, NamesUnique, NamesPassed, Used, Var
  <2> QED BY <1>2, <2>1, <2>2 DEF SysGetVar, Cut, FindVar
<1>3. ASSUME NEW e \in live, NEW i \in Index, SysGetVarByIndex(e, i) PROVE VarsInv'
  BY <1>3 DEF SysGetVarByIndex, VarsInv, TypeOK, NamesUnique, NamesPassed, Used, Var
<1>4. ASSUME NEW e \in live, NEW c \in Envs, EnvAlloc(e, c) PROVE VarsInv'
  <2>1. Inherited(e) \in [Index -> Var]
    BY ZeroedType DEF Inherited, VarsInv, TypeOK
  <2>2. \A i \in Index : Inherited(e)[i] = env_vars[e][i] \/ Inherited(e)[i].flags = {}
    BY ZeroedType DEF Inherited
  <2> QED BY <1>4, <2>1, <2>2, LifeInv DEF EnvAlloc, VarsInv, TypeOK
<1>5. ASSUME NEW e \in live, EnvFree(e) PROVE VarsInv'
  BY <1>5, ZeroedType, LifeInv DEF EnvFree, VarsInv, TypeOK
<1> QED BY <1>1, <1>2, <1>3, <1>4, <1>5, SetInv, UnsetInv DEF Next, VarsInv, TypeOK

(* Names stay unique in every table, for any number of environments and    *)
(* variables and any limit on the length of names.                         *)
THEOREM VarsInvariant == Spec => []VarsInv
BY InitVarsInv, NextVarsInv, PTL DEF Spec

(* The tables keep their types.                                            *)
THEOREM TypeCorrect == Spec => []TypeOK
<1>1. VarsInv => TypeOK
  BY DEF VarsInv
<1> QED BY VarsInvariant, <1>1, PTL

(* find_var's first match is the only one.                                 *)
THEOREM UniqueNames == Spec => []NamesUnique
<1>1. VarsInv => NamesUnique
  BY DEF VarsInv
<1> QED BY VarsInvariant, <1>1, PTL

-----------------------------------------------------------------------------
(* READONLY.                                                               *)

(* The step property under ReadonlyKept.                                   *)
ReadonlyStep ==
  \A e \in live \cap live' : \A i \in Used(e) :
    "READONLY" \in env_vars[e][i].flags => env_vars'[e][i] = env_vars[e][i]

(* A call that writes only an entry without the flag.                      *)
LEMMA WriteKeeps ==
  ASSUME TypeOK, NEW e \in Envs, NEW i \in Index, NEW var, Write(e, i, var),
         i \notin Used(e) \/ "READONLY" \notin env_vars[e][i].flags
  PROVE  ReadonlyStep
BY DEF TypeOK, Write, ReadonlyStep, Used

(* Every step keeps the READONLY entries of the envs that live on.         *)
LEMMA NextKeeps == VarsInv /\ [Next]_vars => ReadonlyStep
<1> SUFFICES ASSUME VarsInv, [Next]_vars PROVE ReadonlyStep
  OBVIOUS
<1> USE DEF VarsInv
<1>1. CASE UNCHANGED env_vars
  BY <1>1 DEF ReadonlyStep
<1>2. ASSUME NEW e \in live, NEW s \in NameArgs, NEW v \in ValueArgs, NEW f \in FlagArgs,
             SysSetVar(e, s, v, f)
      PROVE  ReadonlyStep
  BY <1>1, <1>2, WriteKeeps DEF SysSetVar, Cut, Fails, FindVar, TypeOK
<1>3. ASSUME NEW e \in live, NEW s \in NameArgs, SysUnsetVar(e, s) PROVE ReadonlyStep
  BY <1>1, <1>3, WriteKeeps DEF SysUnsetVar, Cut, Fails, FindVar, TypeOK
<1>4. ASSUME NEW e \in live, NEW c \in Envs \ live, EnvAlloc(e, c) PROVE ReadonlyStep
  BY <1>4 DEF EnvAlloc, ReadonlyStep, TypeOK
<1>5. ASSUME NEW e \in live, EnvFree(e) PROVE ReadonlyStep
  BY <1>5 DEF EnvFree, ReadonlyStep, TypeOK
<1> QED BY <1>1, <1>2, <1>3, <1>4, <1>5
        DEF Next, vars, SysGetVar, SysGetVarByIndex, Fails

(* A READONLY variable is neither changed nor removed while its env lives. *)
THEOREM ReadonlyNeverChanges == Spec => ReadonlyKept
<1>1. VarsInv /\ [Next]_vars => [ReadonlyStep]_vars
  BY NextKeeps
<1>2. ReadonlyKept <=> [][ReadonlyStep]_vars
  BY DEF ReadonlyKept, ReadonlyStep
<1> QED BY VarsInvariant, <1>1, <1>2, PTL DEF Spec

-----------------------------------------------------------------------------
(* The tables implement the dictionaries of VarStore.                      *)

(* The dictionary entry of a variable in use.                              *)
EntryOf(var) == [value |-> var.value, flags |-> var.flags \ {"USED"}]

(* A dictionary entry is never mistaken for a missing one.                 *)
LEMMA EntryIsNoNoVar == ASSUME NEW var \in Var, NEW v, NEW f,
                               EntryOf(var) = [value |-> v, flags |-> f]
                        PROVE  EntryOf(var) # NoVar
<1>1. var.value \in Strings /\ var.flags \ {"USED"} \in SUBSET {"EXPORT", "READONLY"}
  BY VarsAssumption DEF Var, Kept, Flag
<1> QED BY <1>1, VarsAssumption DEF EntryOf

(* Looking up the name of an entry in use finds that entry.                *)
LEMMA LookupFound ==
  ASSUME VarsInv, NEW e \in Envs, NEW nm, NEW i \in FindVar(e, nm)
  PROVE  /\ FindVar(e, nm) = {i} /\ i \in Index /\ env_vars[e][i] \in Var
         /\ Lookup(e, nm) = EntryOf(env_vars[e][i])
         /\ Lookup(e, nm) # NoVar
<1>1. i \in Index /\ env_vars[e][i] \in Var
  BY DEF VarsInv, TypeOK, FindVar
<1>2. \A j \in FindVar(e, nm) : j = i
  BY DEF VarsInv, NamesUnique, FindVar, Used
<1>3. FindVar(e, nm) = {i}
  BY <1>2
<1>4. Lookup(e, nm) = EntryOf(env_vars[e][i])
  BY <1>3 DEF Lookup, EntryOf
<1> QED BY <1>1, <1>3, <1>4, EntryIsNoNoVar DEF EntryOf

(* Looking up any other name finds nothing.                                *)
LEMMA LookupMissing ==
  ASSUME NEW e, NEW nm, FindVar(e, nm) = {} PROVE Lookup(e, nm) = NoVar
BY DEF Lookup

(* The names defined in the dictionary are those of the entries in use, so *)
(* MAX_VARS of them are defined iff no entry is free.                      *)
LEMMA FullTable ==
  ASSUME VarsInv, NEW e \in Envs
  PROVE  Store!Cardinality(Store!Defined(e)) = MAX_VARS <=> Used(e) = Index
<1> DEFINE D == Store!Defined(e)
           Slot(nm) == CHOOSE i \in FindVar(e, nm) : TRUE
           f == [nm \in D |-> Slot(nm)]
<1>1. D = {nm \in Names : FindVar(e, nm) # {}}
  BY LookupFound, LookupMissing DEF Store!Defined, Dict
<1>2. \A nm \in D : Slot(nm) \in FindVar(e, nm)
  BY <1>1
<1>3. f \in Injection(D, Index)
  <2>1. \A nm \in D : Slot(nm) \in Index /\ env_vars[e][Slot(nm)].name = nm
    BY <1>2 DEF FindVar
  <2> QED BY <2>1 DEF Injection, IsInjective
<1>4. IsFiniteSet(Index) /\ Cardinality(Index) = MAX_VARS
  BY VarsAssumption, FS_Interval DEF Index
<1>5. f \in Surjection(D, Index) <=> Used(e) = Index
  <2>1. ASSUME f \in Surjection(D, Index) PROVE Used(e) = Index
    <3>1. \A i \in Index : \E nm \in D : Slot(nm) = i
      BY <2>1 DEF Surjection
    <3> QED BY <3>1, <1>2 DEF FindVar, Used
  <2>2. ASSUME Used(e) = Index PROVE f \in Surjection(D, Index)
    <3>1. ASSUME NEW i \in Index PROVE \E nm \in D : Slot(nm) = i
      <4> DEFINE nm == env_vars[e][i].name
      <4>1. i \in FindVar(e, nm) /\ nm \in Names
        BY <2>2 DEF FindVar, Used, VarsInv, NamesPassed
      <4>2. nm \in D
        BY <4>1, <1>1
      <4>3. Slot(nm) = i
        BY <4>1, LookupFound
      <4> QED BY <4>2, <4>3
    <3>2. f \in [D -> Index]
      BY <1>3 DEF Injection
    <3> QED BY <3>1, <3>2 DEF Surjection
  <2> QED BY <2>1, <2>2
<1> HIDE DEF f, D
<1>6. Cardinality(D) = Cardinality(Index) <=> f \in Surjection(D, Index)
  BY <1>3, <1>4, FS_Injection
<1>7. Store!Cardinality(D) = Cardinality(D)
  BY DEF Store!Cardinality, Cardinality
<1> QED BY <1>4, <1>5, <1>6, <1>7 DEF D

(* A step that leaves the entries found for a name alone leaves its        *)
(* variable alone.                                                         *)
LEMMA SameLookup ==
  ASSUME NEW d, NEW x, FindVar(d, x)' = FindVar(d, x),
         \A i \in FindVar(d, x) : env_vars'[d][i] = env_vars[d][i]
  PROVE  Lookup(d, x)' = Lookup(d, x)
<1>1. CASE FindVar(d, x) = {}
  BY <1>1 DEF Lookup
<1>2. CASE FindVar(d, x) # {}
  <2>1. (CHOOSE i \in FindVar(d, x) : TRUE) \in FindVar(d, x)
    BY <1>2
  <2> QED BY <1>2, <2>1 DEF Lookup
<1> QED BY <1>1, <1>2

(* Writing the entry of a name, or a free entry with that name, changes    *)
(* the variable of that name and no other.                                 *)
LEMMA WriteEntry ==
  ASSUME VarsInv, NEW e \in Envs, NEW nm \in Names, NEW i \in Index, NEW var \in Var,
         Write(e, i, var), FindVar(e, nm) \subseteq {i},
         i \in Used(e) => env_vars[e][i].name = nm,
         "USED" \in var.flags => var.name = nm,
         NEW new, new = IF "USED" \in var.flags THEN EntryOf(var) ELSE NoVar
  PROVE  Store!Entry(e, nm, new)
<1>1. \A d \in Envs, j \in Index :
        env_vars'[d][j] = IF d = e /\ j = i THEN var ELSE env_vars[d][j]
  BY DEF Write, VarsInv, TypeOK
<1>2. ASSUME NEW d \in Envs, NEW x \in Names, d # e \/ x # nm
      PROVE  Lookup(d, x)' = Lookup(d, x)
  <2>1. \A j \in Index : j \in FindVar(d, x)' <=> j \in FindVar(d, x)
    BY <1>1, <1>2 DEF FindVar, Used
  <2>2. FindVar(d, x)' = FindVar(d, x)
    BY <2>1 DEF FindVar
  <2>3. \A j \in FindVar(d, x) : env_vars'[d][j] = env_vars[d][j]
    BY <1>1, <1>2 DEF FindVar, Used
  <2> QED BY <2>2, <2>3, SameLookup
<1>3. Lookup(e, nm)' = new
  <2>1. CASE "USED" \in var.flags
    <3>1. FindVar(e, nm)' = {i}
      BY <1>1, <2>1 DEF FindVar
    <3>2. env_vars'[e][i] = var
      BY <1>1
    <3> QED BY <3>1, <3>2, <2>1 DEF Lookup, EntryOf
  <2>2. CASE "USED" \notin var.flags
    <3>1. FindVar(e, nm)' = {}
      BY <1>1, <2>2 DEF FindVar
    <3> QED BY <3>1, <2>2 DEF Lookup
  <2> QED BY <2>1, <2>2
<1>4. Dict' = [Dict EXCEPT ![e][nm] = new]
  BY <1>2, <1>3 DEF Dict
<1>5. Dict'[e][nm] = new
  BY <1>3 DEF Dict
<1> QED BY <1>4, <1>5 DEF Store!Entry, Write

(* A call that only returns a code fails in the dictionary as well.        *)
LEMMA StoreFails ==
  ASSUME NEW code, Fails(code) PROVE Store!Fails(code)
BY DEF Fails, Store!Fails, Dict, Lookup, FindVar

(* The dictionary's view of an entry that find_var finds.                  *)
LEMMA StoreFound ==
  ASSUME VarsInv, NEW e \in Envs, NEW nm \in Names, NEW i \in FindVar(e, nm)
  PROVE  /\ Dict[e][nm] = EntryOf(env_vars[e][i]) /\ Dict[e][nm] # NoVar
         /\ nm \in Store!Defined(e)
         /\ Store!Readonly(e, nm) <=> "READONLY" \in env_vars[e][i].flags
<1>1. Dict[e][nm] = EntryOf(env_vars[e][i]) /\ Dict[e][nm] # NoVar
  BY LookupFound DEF Dict
<1> QED BY <1>1 DEF Store!Defined, Store!Readonly, EntryOf

(* Its view of a name that find_var does not find.                         *)
LEMMA StoreMissing ==
  ASSUME NEW e \in Envs, NEW nm \in Names, FindVar(e, nm) = {}
  PROVE  Dict[e][nm] = NoVar /\ nm \notin Store!Defined(e) /\ ~Store!Readonly(e, nm)
BY LookupMissing DEF Dict, Store!Defined, Store!Readonly

(* sys_set_var sets a variable of the dictionary.                          *)
LEMMA SetRefines ==
  ASSUME VarsInv, NEW e \in Envs, NEW s \in NameArgs, NEW v \in ValueArgs,
         NEW f \in FlagArgs, SysSetVar(e, s, v, f)
  PROVE  Store!Set(e, Copy[s], Copy[v], f)
<1> DEFINE nm == Copy[s]
           val == Copy[v]
<1>1. /\ nm \in Names /\ nm \in Kept /\ val \in Kept
      /\ f \in SUBSET {"EXPORT", "READONLY"}
  BY VarsAssumption, CopyType DEF Names
<1> HIDE DEF nm, val
<1>2. ASSUME NEW i \in FindVar(e, nm), "READONLY" \in env_vars[e][i].flags, Fails("E_PERM")
      PROVE  Store!Set(e, nm, val, f)
  BY <1>1, <1>2, StoreFails, StoreFound DEF Store!Set
<1>3. ASSUME NEW i \in FindVar(e, nm), "READONLY" \notin env_vars[e][i].flags,
             Write(e, i, [env_vars[e][i] EXCEPT !.value = val, !.flags = @ \cup f])
      PROVE  Store!Set(e, nm, val, f)
  <2> DEFINE old == env_vars[e][i]
             var == [old EXCEPT !.value = val, !.flags = @ \cup f]
             new == [value |-> val, flags |-> (old.flags \ {"USED"}) \cup f]
  <2>1. old \in Var /\ i \in Index /\ old.name = nm /\ "USED" \in old.flags
    BY LookupFound DEF FindVar
  <2>2. /\ var \in Var /\ var.name = nm /\ "USED" \in var.flags
        /\ var.value = val /\ var.flags = old.flags \cup f
    BY <2>1, <1>1 DEF Var, Flag
  <2>3. EntryOf(var) = new
    BY <2>2, <1>1 DEF EntryOf
  <2>4. FindVar(e, nm) \subseteq {i}
    BY LookupFound
  <2>5. Write(e, i, var)
    BY <1>3
  <2> HIDE DEF var
  <2>6. Store!Entry(e, nm, new)
    BY <2>1, <2>2, <2>3, <2>4, <2>5, <1>1, WriteEntry
  <2>7. Dict[e][nm] = EntryOf(old) /\ Dict[e][nm] # NoVar
    BY StoreFound, <1>1
  <2>8. Store!Put(e, nm, val, f)
    BY <2>6, <2>7 DEF Store!Put, EntryOf
  <2> QED BY <2>8, <1>1, <1>3, StoreFound DEF Store!Set
<1>4. ASSUME FindVar(e, nm) = {}, Used(e) = Index, Fails("E_NO_MEM")
      PROVE  Store!Set(e, nm, val, f)
  <2>1. nm \notin Store!Defined(e) /\ ~Store!Readonly(e, nm)
    BY <1>1, <1>4, StoreMissing
  <2>2. Store!Cardinality(Store!Defined(e)) = MAX_VARS
    BY <1>4, FullTable
  <2>3. Store!Fails("E_NO_MEM")
    BY <1>4, StoreFails
  <2> QED BY <2>1, <2>2, <2>3 DEF Store!Set
<1>5. ASSUME FindVar(e, nm) = {}, NEW i \in Index \ Used(e),
             Write(e, i, [name |-> nm, value |-> val, flags |-> {"USED"} \cup f])
      PROVE  Store!Set(e, nm, val, f)
  <2> DEFINE var == [name |-> nm, value |-> val, flags |-> {"USED"} \cup f]
             new == [value |-> val, flags |-> f]
  <2>1. var \in Var /\ var.name = nm /\ "USED" \in var.flags
    BY <1>1 DEF Var, Flag
  <2>2. EntryOf(var) = new
    BY <1>1 DEF EntryOf
  <2>3. Write(e, i, var)
    BY <1>5
  <2> HIDE DEF var
  <2>4. Store!Entry(e, nm, new)
    BY <2>1, <2>2, <2>3, <1>1, <1>5, WriteEntry
  <2>5. Store!Put(e, nm, val, f)
    BY <2>4, <1>1, <1>5, StoreMissing DEF Store!Put
  <2>6. ~Store!Readonly(e, nm)
    BY <1>1, <1>5, StoreMissing
  <2>7. Store!Cardinality(Store!Defined(e)) # MAX_VARS
    BY <1>5, FullTable
  <2> QED BY <2>5, <2>6, <2>7 DEF Store!Set
<1> QED BY <1>2, <1>3, <1>4, <1>5 DEF SysSetVar, Cut, nm, val

(* sys_get_var and sys_get_var_by_index read the dictionary.               *)
LEMMA GetRefines ==
  ASSUME VarsInv, NEW e \in Envs, NEW s \in NameArgs, SysGetVar(e, s)
  PROVE  Store!Get(e, Copy[s])
<1> DEFINE nm == Copy[s]
<1>1. nm \in Names
  BY DEF Names
<1> HIDE DEF nm
<1>2. ASSUME FindVar(e, nm) = {}, Fails("E_VAR_NOT_FOUND")
      PROVE  Store!Get(e, nm)
  BY <1>1, <1>2, StoreFails, StoreMissing DEF Store!Get, Store!Fails
<1>3. ASSUME NEW i \in FindVar(e, nm), ret' = env_vars[e][i].value,
             UNCHANGED <<live, env_vars>>
      PROVE  Store!Get(e, nm)
  <2>1. UNCHANGED <<live, Dict>>
    BY <1>3 DEF Dict, Lookup, FindVar
  <2>2. nm \in Store!Defined(e) /\ Dict[e][nm] = EntryOf(env_vars[e][i])
    BY <1>1, StoreFound
  <2>3. Dict[e][nm].value = env_vars[e][i].value
    BY <2>2 DEF EntryOf
  <2> QED BY <1>3, <2>1, <2>2, <2>3 DEF Store!Get
<1> QED BY <1>2, <1>3 DEF SysGetVar, Cut, nm

(* declare's listing returns values of variables of the dictionary.        *)
LEMMA ListRefines ==
  ASSUME VarsInv, NEW e \in Envs, NEW index \in Index, SysGetVarByIndex(e, index)
  PROVE  Store!List(e)
<1>1. UNCHANGED <<live, Dict>>
  BY DEF Dict, Lookup, FindVar, SysGetVarByIndex
<1>2. CASE index \notin Used(e)
  BY <1>1, <1>2 DEF SysGetVarByIndex, Store!List
<1>3. CASE index \in Used(e)
  <2> DEFINE nm == env_vars[e][index].name
  <2>1. nm \in Names /\ index \in FindVar(e, nm)
    BY <1>3 DEF VarsInv, NamesPassed, FindVar, Used
  <2> HIDE DEF nm
  <2>2. nm \in Store!Defined(e) /\ Dict[e][nm] = EntryOf(env_vars[e][index])
    BY <2>1, StoreFound
  <2>3. ret' = Dict[e][nm].value
    BY <2>2, <1>3 DEF SysGetVarByIndex, EntryOf
  <2> QED BY <1>1, <2>2, <2>3 DEF Store!List
<1> QED BY <1>2, <1>3

(* sys_unset_var removes a variable, if it is there.                       *)
LEMMA UnsetRefines ==
  ASSUME VarsInv, NEW e \in Envs, NEW s \in NameArgs, SysUnsetVar(e, s)
  PROVE  Store!Unset(e, Copy[s])
<1> DEFINE nm == Copy[s]
<1>1. nm \in Names
  BY DEF Names
<1> HIDE DEF nm
<1>2. ASSUME FindVar(e, nm) = {}, Fails("0")
      PROVE  Store!Unset(e, nm)
  <2>1. Dict[e][nm] = NoVar /\ ~Store!Readonly(e, nm)
    BY <1>1, <1>2, StoreMissing
  <2>2. ret' = "0" /\ UNCHANGED <<live, Dict>>
    BY <1>2, StoreFails DEF Store!Fails
  <2>3. Dict = [Dict EXCEPT ![e][nm] = NoVar]
    BY <2>1 DEF Dict
  <2> QED BY <2>1, <2>2, <2>3 DEF Store!Unset, Store!Entry
<1>3. ASSUME NEW i \in FindVar(e, nm), "READONLY" \in env_vars[e][i].flags, Fails("E_PERM")
      PROVE  Store!Unset(e, nm)
  BY <1>1, <1>3, StoreFails, StoreFound DEF Store!Unset
<1>4. ASSUME NEW i \in FindVar(e, nm), "READONLY" \notin env_vars[e][i].flags,
             Write(e, i, [env_vars[e][i] EXCEPT !.flags = {}])
      PROVE  Store!Unset(e, nm)
  <2> DEFINE var == [env_vars[e][i] EXCEPT !.flags = {}]
  <2>1. /\ i \in Index /\ env_vars[e][i].name = nm
        /\ FindVar(e, nm) \subseteq {i} /\ env_vars[e][i] \in Var
    BY LookupFound DEF FindVar
  <2>2. var \in Var /\ var.flags = {}
    BY <2>1 DEF Var
  <2>3. Write(e, i, var)
    BY <1>4
  <2> HIDE DEF var
  <2>4. Store!Entry(e, nm, NoVar)
    BY <1>1, <2>1, <2>2, <2>3, WriteEntry
  <2>5. ~Store!Readonly(e, nm)
    BY <1>1, <1>4, StoreFound
  <2> QED BY <2>4, <2>5 DEF Store!Unset
<1> QED BY <1>2, <1>3, <1>4 DEF SysUnsetVar, Cut, nm

(* env_alloc gives the child exactly the exported variables of its parent. *)
LEMMA AllocRefines ==
  ASSUME VarsInv, NEW e \in Envs, NEW c \in Envs, EnvAlloc(e, c)
  PROVE  Store!Create(e, c)
<1>1. \A d \in Envs, i \in Index :
        env_vars'[d][i] = IF d = c THEN Inherited(e)[i] ELSE env_vars[d][i]
  BY DEF EnvAlloc, VarsInv, TypeOK, Inherited
<1>2. ASSUME NEW d \in Envs, NEW x \in Names, d # c
      PROVE  Lookup(d, x)' = Lookup(d, x)
  <2>1. FindVar(d, x)' = FindVar(d, x)
    BY <1>1, <1>2 DEF FindVar
  <2> QED BY <2>1, <1>1, <1>2, SameLookup DEF FindVar
<1>3. ASSUME NEW x \in Names
      PROVE  Lookup(c, x)' = IF Dict[e][x] # NoVar /\ "EXPORT" \in Dict[e][x].flags
                             THEN Dict[e][x] ELSE NoVar
  <2>1. CASE FindVar(e, x) = {}
    <3>1. FindVar(c, x)' = {}
      BY <1>1, <2>1, ZeroedType DEF FindVar, Inherited
    <3>2. Lookup(c, x)' = NoVar
      BY <3>1 DEF Lookup
    <3> QED BY <3>2, <2>1, StoreMissing
  <2>2. ASSUME NEW i \in FindVar(e, x), "EXPORT" \in env_vars[e][i].flags
        PROVE  Lookup(c, x)' = Dict[e][x] /\ "EXPORT" \in Dict[e][x].flags /\ Dict[e][x] # NoVar
    <3>1. FindVar(e, x) = {i} /\ i \in Index
      BY LookupFound
    <3>2. env_vars'[c][i] = env_vars[e][i]
      BY <1>1, <2>2, <3>1 DEF Inherited, FindVar
    <3>3. FindVar(c, x)' = {i}
      <4>1. i \in FindVar(c, x)'
        BY <3>1, <3>2, <2>2 DEF FindVar
      <4>2. \A j \in Index : j \in FindVar(c, x)' => j \in FindVar(e, x)
        BY <1>1, ZeroedType DEF FindVar, Inherited
      <4> QED BY <4>1, <4>2, <3>1 DEF FindVar
    <3>4. Lookup(c, x)' = EntryOf(env_vars[e][i])
      BY <3>2, <3>3 DEF Lookup, EntryOf
    <3> QED BY <3>4, <2>2, StoreFound DEF EntryOf
  <2>3. ASSUME NEW i \in FindVar(e, x), "EXPORT" \notin env_vars[e][i].flags
        PROVE  Lookup(c, x)' = NoVar /\ "EXPORT" \notin Dict[e][x].flags
    <3>1. FindVar(e, x) = {i}
      BY LookupFound
    <3>2. \A j \in Index : j \in FindVar(c, x)' =>
            j \in FindVar(e, x) /\ "EXPORT" \in env_vars[e][j].flags
      BY <1>1, ZeroedType DEF FindVar, Inherited
    <3>3. FindVar(c, x)' = {}
      BY <3>1, <3>2, <2>3 DEF FindVar
    <3>4. Lookup(c, x)' = NoVar
      BY <3>3 DEF Lookup
    <3>5. Dict[e][x] = EntryOf(env_vars[e][i])
      BY StoreFound
    <3> QED BY <3>4, <3>5, <2>3 DEF EntryOf
  <2> QED BY <2>1, <2>2, <2>3
<1>4. Dict' = [Dict EXCEPT ![c] = [x \in Names |->
                 IF Dict[e][x] # NoVar /\ "EXPORT" \in Dict[e][x].flags
                 THEN Dict[e][x] ELSE NoVar]]
  BY <1>2, <1>3 DEF Dict
<1> QED BY <1>4 DEF EnvAlloc, Store!Create

(* env_free empties the dictionary.                                        *)
LEMMA FreeRefines ==
  ASSUME VarsInv, NEW e \in Envs, EnvFree(e) PROVE Store!Free(e)
<1>1. \A d \in Envs, i \in Index :
        env_vars'[d][i] = IF d = e THEN Zeroed[i] ELSE env_vars[d][i]
  BY DEF EnvFree, VarsInv, TypeOK, Zeroed
<1>2. ASSUME NEW d \in Envs, NEW x \in Names, d # e
      PROVE  Lookup(d, x)' = Lookup(d, x)
  <2>1. FindVar(d, x)' = FindVar(d, x)
    BY <1>1, <1>2 DEF FindVar
  <2> QED BY <2>1, <1>1, <1>2, SameLookup DEF FindVar
<1>3. ASSUME NEW x \in Names PROVE Lookup(e, x)' = NoVar
  <2>1. FindVar(e, x)' = {}
    BY <1>1, ZeroedType DEF FindVar
  <2> QED BY <2>1 DEF Lookup
<1>4. Dict' = [Dict EXCEPT ![e] = Store!Empty]
  BY <1>2, <1>3 DEF Dict, Store!Empty
<1> QED BY <1>4 DEF EnvFree, Store!Free

(* The tables at boot are empty dictionaries.                              *)
LEMMA InitRefines == Init => Store!Init
<1> SUFFICES ASSUME Init PROVE Store!Init
  OBVIOUS
<1>1. ASSUME NEW d \in Envs, NEW x \in Names PROVE Lookup(d, x) = NoVar
  <2>1. FindVar(d, x) = {}
    BY ZeroedType DEF Init, FindVar
  <2> QED BY <2>1, LookupMissing
<1>2. Dict = [d \in Envs |-> Store!Empty]
  BY <1>1 DEF Dict, Store!Empty
<1> QED BY <1>2 DEF Init, Store!Init

(* Every step of the kernel is a step of the dictionaries, or none.        *)
LEMMA NextRefines == VarsInv /\ [Next]_vars => [Store!Next]_(Store!vars)
<1> SUFFICES ASSUME VarsInv, [Next]_vars PROVE [Store!Next]_(Store!vars)
  OBVIOUS
<1>1. CASE UNCHANGED vars
  BY <1>1 DEF vars, Store!vars, Dict, Lookup, FindVar
<1>2. ASSUME NEW e \in live, NEW s \in NameArgs, NEW v \in ValueArgs, NEW f \in FlagArgs,
             SysSetVar(e, s, v, f)
      PROVE  Store!Next
  <2>1. Copy[s] \in Names /\ Copy[v] \in Values /\ f \in SUBSET Store!Flags /\ e \in Envs
    BY VarsAssumption DEF Names, Values, Store!Flags, VarsInv, TypeOK
  <2>2. Store!Set(e, Copy[s], Copy[v], f)
    BY <1>2, <2>1, SetRefines
  <2> QED BY <2>1, <2>2 DEF Store!Next
<1>3. ASSUME NEW e \in live, NEW s \in NameArgs, SysGetVar(e, s) \/ SysUnsetVar(e, s)
      PROVE  Store!Next
  <2>1. Copy[s] \in Names /\ e \in Envs
    BY DEF Names, VarsInv, TypeOK
  <2>2. Store!Get(e, Copy[s]) \/ Store!Unset(e, Copy[s])
    BY <1>3, <2>1, GetRefines, UnsetRefines
  <2> QED BY <2>1, <2>2 DEF Store!Next
<1>4. ASSUME NEW e \in live, NEW i \in Index, SysGetVarByIndex(e, i) PROVE Store!Next
  BY <1>4, ListRefines DEF Store!Next, VarsInv, TypeOK
<1>5. ASSUME NEW e \in live, NEW c \in Envs \ live, EnvAlloc(e, c) PROVE Store!Next
  BY <1>5, AllocRefines DEF Store!Next, VarsInv, TypeOK
<1>6. ASSUME NEW e \in live, EnvFree(e) PROVE Store!Next
  BY <1>6, FreeRefines DEF Store!Next, VarsInv, TypeOK
<1> QED BY <1>1, <1>2, <1>3, <1>4, <1>5, <1>6 DEF Next

(* The variable system calls implement the dictionaries of VarStore, for   *)
(* any table size: a program can not tell the array, its linear search and *)
(* its stale entries from a map of names to variables.                     *)
THEOREM TableImplementsStore == Spec => ImplementsStore
BY InitRefines, NextRefines, VarsInvariant, PTL DEF Spec, ImplementsStore, Store!Spec
=============================================================================
