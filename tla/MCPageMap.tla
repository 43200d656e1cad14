----------------------------- MODULE MCPageMap ------------------------------
(* One page table for UTEMP and UCOW (pages 0 and 1), one for a data page  *)
(* (2), the stack (3), the hole above it (4) and the exception stack (5);  *)
(* the tables themselves are seen at 6 and 7, the directory at 8.          *)
EXTENDS PageMap

TwoTables == [s \in 0 .. 8 |-> IF s < 2 THEN 6 ELSE IF s < 6 THEN 7 ELSE 8]

(* A kernel that has halted changes nothing any more, so the states in     *)
(* which it halted are one.  Physical pages are interchangeable, so states *)
(* that differ only in which page is which are one: what counts of a page  *)
(* is its content and counter and, if it has several, the entries that     *)
(* hold it.                                                                *)
UserHolders(p) == {<<e, s>> \in Env \X Va : pte[e][s].page = p}

Described(h) ==
  IF h = NoPte THEN <<>>
  ELSE <<IF pp_ref[h.page] = 1 THEN {} ELSE UserHolders(h.page), pp_ref[h.page], mem[h.page], h.perm>>

Held == {pte[h[1]][h[2]].page : h \in Env \X Slot} \cup {env_vars[e] : e \in Env}

PagesRenamed ==
  IF panic # "none" THEN <<panic>>
  ELSE
  <<[e \in Env |-> [s \in Slot |-> Described(pte[e][s])]],
    [e \in Env |-> env_vars[e] # 0 /\ pp_ref[env_vars[e]] = 1],
    Cardinality(Held), Cardinality(page_free_list), Cardinality(lost),
    Cardinality({p \in Pages : pp_ref[p] = 0}),
    {<<t.asid, t.pair, [s \in DOMAIN t.lo |-> Described(t.lo[s])]>> : t \in tlb},
    envVars, panic, op, cow>>
=============================================================================
