------------------------------ MODULE VarStore ------------------------------
(***************************************************************************)
(* What the variable system calls promise to a program: each environment   *)
(* has a dictionary of at most MAX_VARS variables, a READONLY one is never *)
(* changed or removed, and a new environment starts with the EXPORTed ones *)
(* of its parent.                                                          *)
(***************************************************************************)
EXTENDS Integers, FiniteSets

CONSTANTS Envs, Boot, Names, Values, MAX_VARS, NoVar

VARIABLES live,   \* the environments in use
          dict,   \* the dictionary of each of them
          ret     \* result of the last call

vars == <<live, dict, ret>>

Flags == {"EXPORT", "READONLY"}
Empty == [nm \in Names |-> NoVar]
Defined(e) == {nm \in Names : dict[e][nm] # NoVar}
Readonly(e, nm) == dict[e][nm] # NoVar /\ "READONLY" \in dict[e][nm].flags

Init == live = Boot /\ dict = [e \in Envs |-> Empty] /\ ret = "0"

Fails(code) == ret' = code /\ UNCHANGED <<live, dict>>

(* The entry of nm becomes new; the first conjunct fails fast in TLC.      *)
Entry(e, nm, new) ==
  /\ dict'[e][nm] = new /\ ret' = "0" /\ UNCHANGED live
  /\ dict' = [dict EXCEPT ![e][nm] = new]

Put(e, nm, v, f) ==
  LET old == dict[e][nm]
  IN  Entry(e, nm, [value |-> v, flags |-> IF old = NoVar THEN f ELSE old.flags \cup f])

Set(e, nm, v, f) ==
  IF Readonly(e, nm) THEN Fails("E_PERM")
  ELSE IF nm \notin Defined(e) /\ Cardinality(Defined(e)) = MAX_VARS THEN Fails("E_NO_MEM")
  ELSE Put(e, nm, v, f)

Get(e, nm) == /\ ret' = IF nm \in Defined(e) THEN dict[e][nm].value ELSE "E_VAR_NOT_FOUND"
              /\ UNCHANGED <<live, dict>>

(* One step of a listing: some variable, or none.                          *)
List(e) == /\ ret' \in {dict[e][nm].value : nm \in Defined(e)} \cup {"E_VAR_NOT_FOUND"}
           /\ UNCHANGED <<live, dict>>

Unset(e, nm) ==
  IF Readonly(e, nm) THEN Fails("E_PERM")
  ELSE Entry(e, nm, NoVar)

Create(e, c) ==
  /\ live' = live \cup {c} /\ ret' = "0"
  /\ dict' = [dict EXCEPT ![c] = [nm \in Names |->
       IF dict[e][nm] # NoVar /\ "EXPORT" \in dict[e][nm].flags THEN dict[e][nm] ELSE NoVar]]

Free(e) == /\ e \notin Boot
           /\ live' = live \ {e} /\ ret' = "0"
           /\ dict' = [dict EXCEPT ![e] = Empty]

Next ==
  \E e \in live :
    \/ \E nm \in Names, v \in Values, f \in SUBSET Flags : Set(e, nm, v, f)
    \/ \E nm \in Names : Get(e, nm) \/ Unset(e, nm)
    \/ List(e)
    \/ \E c \in Envs \ live : Create(e, c)
    \/ Free(e)

Spec == Init /\ [][Next]_vars
=============================================================================
