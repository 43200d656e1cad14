-------------------------- MODULE PageShareProofs ---------------------------
(***************************************************************************)
(* Proofs about PageMap, continued: a page that an env may write, and that *)
(* is not shared by PTE_LIBRARY, is in nobody else's table.  fork, spawn   *)
(* and cow_entry map such a page twice for a while, so the invariant names *)
(* the steps at which they do.                                             *)
(* The second half shows that the memory of programs is as MemSpaces says: *)
(* what every step does to one entry, or to one page, is a step of         *)
(* MemSpaces or nothing that a program can see.                            *)
(***************************************************************************)
EXTENDS PageMapProofs

(* Entries are valid and hold a page, or are not.                          *)
EntriesOk(tables) ==
  \A e \in Env : \A v \in Va :
    tables[e][v] \in Pte \cup {NoPte} /\ (tables[e][v].page = 0 => tables[e][v] = NoPte)

LEMMA EntryTypes ==
  ASSUME NEW tables \in [Env -> [Slot -> Pte \cup {NoPte}]]
  PROVE  EntriesOk(tables)
<1>1. Va \subseteq Slot /\ 0 \notin Pages
  BY Addresses DEF Pages
<1>2. ASSUME NEW e \in Env, NEW v \in Va
      PROVE  tables[e][v] \in Pte \cup {NoPte} /\ (tables[e][v].page = 0 => tables[e][v] = NoPte)
  <2>1. tables[e][v] \in Pte \cup {NoPte}
    BY <1>1
  <2> QED BY <1>1, <2>1 DEF Pte
<1> QED BY <1>2 DEF EntriesOk

(* The tables before and after a step.                                     *)
LEMMA TablesTyped ==
  ASSUME MapInv, MapInv'
  PROVE  EntriesOk(pte) /\ EntriesOk(pte')
<1>1. pte \in [Env -> [Slot -> Pte \cup {NoPte}]] /\ pte' \in [Env -> [Slot -> Pte \cup {NoPte}]]
  BY DEF MapInv, PagesOk, PageType
<1> QED BY <1>1, EntryTypes

-----------------------------------------------------------------------------
(* What a step does to SharingOk.                                          *)

(* The steps of routines during which a page is mapped twice are over only *)
(* when it is not.                                                         *)
ExcusesKept ==
  \A x, y \in Env : \A v, u \in Va :
    /\ Private(pte'[x][v]) /\ pte'[y][u].page = pte'[x][v].page
    /\ MayShare(x, v, y, u)
    => MayShare(x, v, y, u)'

(* No routine leaves such a step.                                          *)
LEMMA ExcusesStay ==
  ASSUME NEW e \in Env, \A f \in Env : f # e => cow'[f] = cow[f] /\ op'[f] = op[f],
         cow'[e] = cow[e] \/ cow[e].at # "unmap",
         op'[e] = op[e] \/ op[e].at \notin {"dup", "given", "filled"}
  PROVE  ExcusesKept
BY DEF ExcusesKept, MayShare, Remapped, Protecting, Giving

(* Entries are removed at most.                                            *)
LEMMA SharingShrinks ==
  ASSUME SharingOk, EntriesOk(pte'), ExcusesKept,
         \A x \in Env : \A v \in Va : pte'[x][v] = pte[x][v] \/ pte'[x][v] = NoPte
  PROVE  SharingOk'
<1> SUFFICES ASSUME NEW x \in Env, NEW y \in Env, NEW v \in Va, NEW u \in Va,
                    Private(pte'[x][v]), pte'[y][u].page = pte'[x][v].page
             PROVE  MayShare(x, v, y, u)'
  BY DEF SharingOk, Private
<1>1. pte'[x][v] # NoPte /\ pte'[x][v].page # 0
  BY DEF Private, EntriesOk
<1>2. pte'[y][u] # NoPte
  BY <1>1 DEF NoPte
<1>3. pte'[x][v] = pte[x][v] /\ pte'[y][u] = pte[y][u]
  BY <1>1, <1>2
<1>4. MayShare(x, v, y, u)
  BY <1>3 DEF SharingOk
<1> QED BY <1>4 DEF ExcusesKept

(* The entry at s of env e gets a page that others may hold.               *)
Joins(e, s) ==
  \A y \in Env : \A u \in Va :
    (y # e \/ u # s) /\ pte'[y][u].page = pte'[e][s].page =>
      /\ Private(pte'[e][s]) => MayShare(e, s, y, u)'
      /\ Private(pte'[y][u]) => MayShare(y, u, e, s)'

LEMMA SharingJoins ==
  ASSUME SharingOk, ExcusesKept, NEW e \in Env, NEW s \in Va, OnlyVa(e, s), Joins(e, s)
  PROVE  SharingOk'
<1> SUFFICES ASSUME NEW x \in Env, NEW y \in Env, NEW v \in Va, NEW u \in Va,
                    Private(pte'[x][v]), pte'[y][u].page = pte'[x][v].page
             PROVE  MayShare(x, v, y, u)'
  BY DEF SharingOk, Private
<1>1. CASE x = e /\ v = s /\ y = e /\ u = s
  BY <1>1 DEF MayShare
<1>2. CASE x = e /\ v = s /\ (y # e \/ u # s)
  BY <1>2 DEF Joins
<1>3. CASE y = e /\ u = s /\ (x # e \/ v # s)
  BY <1>3 DEF Joins
<1>4. CASE (x # e \/ v # s) /\ (y # e \/ u # s)
  <2>1. pte'[x][v] = pte[x][v] /\ pte'[y][u] = pte[y][u]
    BY <1>4 DEF OnlyVa
  <2>2. MayShare(x, v, y, u)
    BY <2>1 DEF SharingOk
  <2> QED BY <2>2 DEF ExcusesKept
<1> QED BY <1>1, <1>2, <1>3, <1>4

(* The entry at s of env e is removed, left as it is, or gets a page that  *)
(* no other entry holds.                                                   *)
Lonely(e, s) ==
  \A y \in Env : \A u \in Va : y # e \/ u # s => pte'[y][u].page # pte'[e][s].page

Alone(e, s, perm) ==
  \/ pte'[e][s] = NoPte \/ pte'[e][s] = pte[e][s]
  \/ pte'[e][s].perm = perm /\ Lonely(e, s)

LEMMA SharingAlone ==
  ASSUME SharingOk, EntriesOk(pte'), ExcusesKept, NEW e \in Env, NEW s \in Va, OnlyVa(e, s),
         NEW perm, Alone(e, s, perm)
  PROVE  SharingOk'
<1>1. CASE pte'[e][s] = NoPte \/ pte'[e][s] = pte[e][s]
  <2>1. \A x \in Env : \A v \in Va : pte'[x][v] = pte[x][v] \/ pte'[x][v] = NoPte
    BY <1>1 DEF OnlyVa
  <2> QED BY <2>1, SharingShrinks
<1>2. CASE Lonely(e, s)
  <2>1. Joins(e, s)
    BY <1>2 DEF Joins, Lonely
  <2> QED BY <2>1, SharingJoins
<1> QED BY <1>1, <1>2 DEF Alone

-----------------------------------------------------------------------------
(* What a step does to the other parts.                                    *)

(* One entry changes, and its permissions are as they should be.           *)
LEMMA PermsStay ==
  ASSUME PermsOk, NEW e \in Env, NEW s \in Va, OnlyVa(e, s),
         pte'[e][s] # NoPte => EntryOk(s, pte'[e][s].perm)
  PROVE  PermsOk'
<1>1. \A x \in Env : \A v \in Va : pte'[x][v] = pte[x][v] \/ (x = e /\ v = s)
  BY DEF OnlyVa
<1> QED BY <1>1 DEF PermsOk

(* Entries are removed at most.                                            *)
LEMMA PermsShrink ==
  ASSUME PermsOk, \A x \in Env : \A v \in Va : pte'[x][v] = pte[x][v] \/ pte'[x][v] = NoPte
  PROVE  PermsOk'
BY DEF PermsOk, NoPte

(* The entries that the handler and the routine of f rely on stay.         *)
Undisturbed(f) ==
  /\ pte'[f][UCOW] = pte[f][UCOW] /\ pte'[f][UTEMP] = pte[f][UTEMP]
  /\ op[f].at = "dup" => pte'[f][op[f].va] = pte[f][op[f].va]

LEMMA ScratchStays ==
  ASSUME ScratchOk, NEW f \in Env, Undisturbed(f)
  PROVE  /\ cow'[f] = cow[f] => HandlerScratch(f)'
         /\ op'[f] = op[f] /\ cow'[f] = cow[f] => RoutineScratch(f)'
<1>1. HandlerScratch(f) /\ RoutineScratch(f)
  BY DEF ScratchOk
<1>2. ASSUME cow'[f] = cow[f] PROVE HandlerScratch(f)'
  BY <1>1, <1>2 DEF HandlerScratch, Undisturbed
<1>3. ASSUME op'[f] = op[f], cow'[f] = cow[f] PROVE RoutineScratch(f)'
  BY <1>1, <1>3 DEF RoutineScratch, Undisturbed
<1> QED BY <1>2, <1>3

(* A step of e.                                                            *)
LEMMA ScratchOfOne ==
  ASSUME ScratchOk, NEW e \in Env,
         \A f \in Env : f # e => cow'[f] = cow[f] /\ op'[f] = op[f] /\ Undisturbed(f),
         HandlerScratch(e)', RoutineScratch(e)'
  PROVE  ScratchOk'
<1>1. ASSUME NEW f \in Env PROVE HandlerScratch(f)' /\ RoutineScratch(f)'
  <2>1. CASE f = e
    BY <2>1
  <2>2. CASE f # e
    BY <2>2, ScratchStays
  <2> QED BY <2>1, <2>2
<1> QED BY <1>1 DEF ScratchOk

(* Nobody else's entries change.                                           *)
LEMMA OthersUndisturbed ==
  ASSUME NEW e \in Env, NEW s, OnlyVa(e, s)
  PROVE  \A f \in Env : f # e => Undisturbed(f)
BY DEF OnlyVa, Undisturbed

(* An entry of e changes that its routines do not rely on.                 *)
LEMMA ElsewhereUndisturbed ==
  ASSUME MapInv, NEW e \in Env, NEW s, OnlyVa(e, s), s \notin {UCOW, UTEMP},
         op[e].at = "dup" => s # op[e].va
  PROVE  Undisturbed(e)
<1>1. UCOW \in Va /\ UTEMP \in Va /\ (op[e].at = "dup" => op[e].va \in Va)
  BY Addresses DEF MapInv, ForkOk
<1> QED BY <1>1 DEF OnlyVa, Undisturbed

(* Nothing of all this changes.                                            *)
ShareCore == SharingOk /\ ScratchOk /\ PermsOk /\ FillOk

(* A page that spawn is about to fill stays the child's only: nobody maps  *)
(* a page but one that no entry holds, or one of an env that runs.         *)
LEMMA FillsStay ==
  ASSUME ShareInv, EntriesOk(pte), EntriesOk(pte'),
         \A e \in Env : op'[e].at = "fill" =>
           \/ op'[e] = op[e] /\ pte'[op[e].child][UTEXT] = pte[op[e].child][UTEXT]
           \/ Unshared(op[e].child, UTEXT)',
         \A f \in Env : \A u \in Va :
           \/ pte'[f][u] = NoPte \/ pte'[f][u] = pte[f][u] \/ Lonely(f, u)
           \/ \E x \in Env : \E v \in Va :
                env_status[x] = "RUNNABLE" /\ pte'[f][u].page = pte[x][v].page
  PROVE  FillOk'
<1> SUFFICES ASSUME NEW e \in Env, op'[e].at = "fill",
                    op'[e] = op[e] /\ pte'[op[e].child][UTEXT] = pte[op[e].child][UTEXT]
             PROVE  Unshared(op[e].child, UTEXT)'
  BY DEF FillOk
<1>1. PICK c : c = op[e].child
  OBVIOUS
<1>2. op'[e].child = c /\ pte'[c][UTEXT] = pte[c][UTEXT] /\ Unshared(c, UTEXT)
  BY <1>1 DEF ShareInv, FillOk
<1>3. c \in Env /\ env_status[c] = "NOT_RUNNABLE" /\ UTEXT \in Va
  BY <1>1, Addresses DEF ShareInv, MapInv, BuildsChild
<1>4. pte[c][UTEXT].page # 0
  BY <1>2, <1>3 DEF Unshared, EntriesOk
<1>5. ASSUME NEW f \in Env, NEW u \in Va, pte'[f][u].page = pte'[c][UTEXT].page
      PROVE  f = c /\ u = UTEXT
  <2>1. CASE pte'[f][u] = NoPte
    BY <1>2, <1>4, <1>5, <2>1 DEF NoPte
  <2>2. CASE pte'[f][u] = pte[f][u]
    BY <1>2, <1>5, <2>2 DEF Unshared
  <2>3. CASE Lonely(f, u)
    BY <1>3, <1>5, <2>3 DEF Lonely
  <2>4. ASSUME NEW x \in Env, NEW v \in Va, env_status[x] = "RUNNABLE",
               pte'[f][u].page = pte[x][v].page
        PROVE  FALSE
    BY <1>2, <1>3, <1>5, <2>4 DEF Unshared
  <2> QED BY <2>1, <2>2, <2>3, <2>4
<1> QED BY <1>2, <1>5 DEF Unshared

LEMMA Still ==
  ASSUME ShareInv, MapInv', UNCHANGED <<pte, op, cow>>
  PROVE  ShareCore'
<1>1. SharingOk'
  BY DEF ShareInv, SharingOk, MayShare, Remapped, Protecting, Giving
<1>2. ScratchOk'
  BY DEF ShareInv, ScratchOk, HandlerScratch, RoutineScratch
<1>3. PermsOk'
  BY DEF ShareInv, PermsOk
<1>4. FillOk'
  BY DEF ShareInv, FillOk, Unshared
<1> QED BY <1>1, <1>2, <1>3, <1>4 DEF ShareCore

-----------------------------------------------------------------------------
(* What the system calls do to the entries of users.                       *)

(* A memory function with this frame changes one user entry at most.       *)
LEMMA FrameEffect ==
  ASSUME MapInv, NEW m, NEW n, Good(n, {}), m.pte = pte, pte' = n.pte,
         NEW e \in Env, NEW s \in Slot, Frame(m, n, e, s)
  PROVE  OnlyVa(e, s)
<1>1. /\ pte \in [Env -> [Slot -> Pte \cup {NoPte}]]
      /\ pte' \in [Env -> [Slot -> Pte \cup {NoPte}]]
  BY DEF MapInv, PagesOk, PageType, Good, IsMem
<1>2. Va \subseteq Slot /\ PDX[s] \notin Va
  BY Addresses
<1>3. \A f \in Env : f # e => \A x \in Slot : pte'[f][x] = pte[f][x]
  BY DEF Frame
<1>4. \A f \in Env : f # e => pte'[f] = pte[f]
  BY <1>1, <1>3
<1>5. \A v \in Va : v # s => pte'[e][v] = pte[e][v]
  BY <1>2 DEF Frame
<1> QED BY <1>4, <1>5 DEF OnlyVa

(* A page with the counter 0 was in no entry.                              *)
LEMMA FreshIsLonely ==
  ASSUME NEW m, Good(m, {}), m.pte = pte, NEW e \in Env, NEW s \in Va, OnlyVa(e, s),
         pte'[e][s].page \in Pages, m.ref[pte'[e][s].page] = 0
  PROVE  Lonely(e, s)
<1>1. \A x \in Env : \A v \in Slot : m.pte[x][v].page # pte'[e][s].page
  BY ZeroIsUnheld DEF Good
<1> QED BY <1>1, Addresses DEF Lonely, OnlyVa

(* sys_mem_alloc.                                                          *)
LEMMA AllocEffect ==
  ASSUME MapInv, NEW m, Good(m, {}), m.pte = pte, NEW e \in Env, NEW s \in Va, NEW perm \in Perms,
         NEW n, n = SysMemAlloc(m, e, s, perm), pte' = n.pte
  PROVE  /\ OnlyVa(e, s) /\ Alone(e, s, perm)
         /\ AllocOk(m, e, s) => pte'[e][s] # NoPte /\ pte'[e][s].perm = perm /\ Lonely(e, s)
         /\ ~ AllocOk(m, e, s) => pte'[e][s] = NoPte \/ pte'[e][s] = pte[e][s]
<1>1. TlbType /\ s \in Slot \ {UVPT} /\ s \in Slot
  BY Addresses DEF MapInv, PagesOk
<1>2. /\ Good(n, {}) /\ Frame(m, n, e, s)
      /\ AllocOk(m, e, s) => /\ First(m) \in Pages /\ m.ref[First(m)] = 0
                             /\ n.pte[e][s] = [page |-> First(m), perm |-> perm]
      /\ ~ AllocOk(m, e, s) => n.pte[e][s] = NoPte \/ n.pte[e][s] = m.pte[e][s]
  BY <1>1, GoodMemAlloc
<1>3. OnlyVa(e, s)
  BY <1>1, <1>2, FrameEffect
<1>4. CASE AllocOk(m, e, s)
  <2>1. pte'[e][s].page \in Pages /\ m.ref[pte'[e][s].page] = 0 /\ pte'[e][s].perm = perm
    BY <1>2, <1>4
  <2>2. Lonely(e, s)
    BY <1>3, <2>1, FreshIsLonely
  <2>3. pte'[e][s] # NoPte
    BY <2>1 DEF NoPte, Pages
  <2> QED BY <1>3, <1>4, <2>1, <2>2, <2>3 DEF Alone
<1>5. CASE ~ AllocOk(m, e, s)
  BY <1>2, <1>3, <1>5 DEF Alone
<1> QED BY <1>4, <1>5

(* passive_alloc.                                                          *)
LEMMA PassiveEffect ==
  ASSUME MapInv, NEW m, Good(m, {}), m.pte = pte, NEW e \in Env, NEW s \in Va,
         NEW n, n = PassiveAlloc(m, e, s), PassiveOk(m, e, s), pte' = n.pte
  PROVE  /\ OnlyVa(e, s) /\ Alone(e, s, {"D"}) /\ pte'[e][s] # NoPte
         /\ pte[e][s] # NoPte => pte' = pte
         /\ pte[e][s] = NoPte => pte'[e][s].perm = {"D"}
<1>1. TlbType /\ s \in Slot \ {UVPT} /\ s \in Slot
  BY Addresses DEF MapInv, PagesOk
<1>2. /\ Good(n, {}) /\ Frame(m, n, e, s) /\ n.pte[e][s] # NoPte
      /\ m.pte[e][s] # NoPte => n = m
      /\ m.pte[e][s] = NoPte => /\ n.pte[e][s].perm = IF s \in Va THEN {"D"} ELSE {}
                                /\ m.ref[n.pte[e][s].page] = 0 /\ n.pte[e][s].page \in Pages
  BY <1>1, GoodPassive
<1>3. OnlyVa(e, s)
  BY <1>1, <1>2, FrameEffect
<1>4. CASE pte[e][s] = NoPte
  <2>1. pte'[e][s].page \in Pages /\ m.ref[pte'[e][s].page] = 0 /\ pte'[e][s].perm = {"D"}
    BY <1>2, <1>4
  <2>2. Lonely(e, s)
    BY <1>3, <2>1, FreshIsLonely
  <2> QED BY <1>2, <1>3, <1>4, <2>1, <2>2 DEF Alone
<1>5. CASE pte[e][s] # NoPte
  BY <1>2, <1>3, <1>5 DEF Alone
<1> QED BY <1>4, <1>5

(* sys_mem_map.                                                            *)
LEMMA MapEffect ==
  ASSUME MapInv, NEW e \in Env, NEW s \in Va, NEW f \in Env, NEW t \in Va, NEW perm \in Perms,
         NEW n, n = SysMemMap(M, e, s, f, t, perm), pte' = n.pte
  PROVE  /\ OnlyVa(f, t) /\ Good(n, {})
         /\ MapOk(M, e, s, f, t) =>
              /\ pte[e][s] # NoPte
              /\ pte'[f][t] = [page |-> pte[e][s].page, perm |-> perm]
         /\ ~ MapOk(M, e, s, f, t) => pte'[f][t] = NoPte \/ pte'[f][t] = pte[f][t]
<1>1. Good(M, {}) /\ TlbType /\ s \in Slot /\ t \in Slot /\ t # UVPT /\ M.pte = pte
  BY GoodNow, Addresses DEF MapInv, M, Mem
<1>2. Maps(M, e, s, f, t, perm, n)
  BY <1>1 DEF Maps
<1>3. /\ Good(n, {})
      /\ MapOk(M, e, s, f, t) => n.pte[f][t] = [page |-> M.pte[e][s].page, perm |-> perm]
      /\ ~ MapOk(M, e, s, f, t) => n.pte[f][t] = NoPte \/ n.pte[f][t] = M.pte[f][t]
      /\ Frame(M, n, f, t)
  BY <1>2, GoodMemMap
<1>4. OnlyVa(f, t)
  BY <1>1, <1>3, FrameEffect
<1> QED BY <1>1, <1>3, <1>4 DEF MapOk

(* sys_mem_unmap.                                                          *)
LEMMA RemoveEffect ==
  ASSUME MapInv, NEW e \in Env, NEW s \in Va, Commit(PageRemove(M, e, s))
  PROVE  OnlyVa(e, s) /\ pte'[e][s] = NoPte
<1>1. Good(M, {}) /\ TlbType /\ s \in Slot
  BY GoodNow, Addresses DEF MapInv
<1>2. PageRemove(M, e, s).pte = [M.pte EXCEPT ![e][s] = NoPte]
  BY <1>1, GoodRemove
<1>3. pte' = [pte EXCEPT ![e][s] = NoPte] /\ pte \in [Env -> [Slot -> Pte \cup {NoPte}]]
  BY <1>2 DEF Commit, M, Mem, MapInv, PagesOk, PageType
<1> QED BY <1>1, <1>3, Addresses DEF OnlyVa

(* The memory now.                                                         *)
LEMMA Now ==
  ASSUME MapInv
  PROVE  Good(M, {}) /\ TlbType /\ M.pte = pte
BY GoodNow DEF MapInv, M, Mem

-----------------------------------------------------------------------------
(* Steps.                                                                  *)

(* A step of e changes at most the entry at s of env f, which is e or the  *)
(* child that it builds; it does not come to filling a page that others    *)
(* have.                                                                   *)
StepOf(e, f, s) ==
  /\ OnlyVa(f, s) /\ (f # e => Undisturbed(f))
  /\ \A x \in Env : x # e => cow'[x] = cow[x] /\ op'[x] = op[x]
  /\ env_status[e] = "RUNNABLE" /\ (f = e \/ (op[e].at # "user" /\ f = op[e].child))
  /\ op'[e].at = "fill" => (op'[e] = op[e] /\ f = e) \/ Unshared(op[e].child, UTEXT)'

ScratchAfter(e) == HandlerScratch(e)' /\ RoutineScratch(e)'

LEMMA StepScratch ==
  ASSUME ScratchOk, NEW e \in Env, NEW f \in Env, NEW s, StepOf(e, f, s), ScratchAfter(e)
  PROVE  ScratchOk'
<1>1. \A x \in Env : x # e => cow'[x] = cow[x] /\ op'[x] = op[x] /\ Undisturbed(x)
  BY OthersUndisturbed DEF StepOf
<1> QED BY <1>1, ScratchOfOne DEF ScratchAfter

(* The children of others, and that of e unless it is f, keep their pages. *)
LEMMA StepFills ==
  ASSUME ShareInv, MapInv', NEW e \in Env, NEW f \in Env, NEW s \in Va, StepOf(e, f, s),
         \/ pte'[f][s] = NoPte \/ pte'[f][s] = pte[f][s] \/ Lonely(f, s)
         \/ \E v \in Va : pte'[f][s].page = pte[e][v].page
  PROVE  FillOk'
<1>1. EntriesOk(pte) /\ EntriesOk(pte')
  BY TablesTyped DEF ShareInv
<1>2. ASSUME NEW x \in Env, op'[x].at = "fill"
      PROVE  \/ op'[x] = op[x] /\ pte'[op[x].child][UTEXT] = pte[op[x].child][UTEXT]
             \/ Unshared(op[x].child, UTEXT)'
  <2> SUFFICES ASSUME op'[x] = op[x], x = e => f = e
               PROVE  pte'[op[x].child][UTEXT] = pte[op[x].child][UTEXT]
    BY <1>2 DEF StepOf
  <2>1. /\ op[x].child \in Env /\ env_status[op[x].child] = "NOT_RUNNABLE"
        /\ env_parent[op[x].child] = x
    BY <1>2 DEF ShareInv, MapInv, BuildsChild
  <2>2. f # e => env_parent[f] = e
    BY DEF StepOf, ShareInv, MapInv, BuildsChild
  <2>3. op[x].child # f
    BY <2>1, <2>2 DEF StepOf
  <2> QED BY <2>1, <2>3 DEF StepOf, OnlyVa
<1>3. \A y \in Env : \A u \in Va : pte'[y][u] = pte[y][u] \/ (y = f /\ u = s)
  BY DEF StepOf, OnlyVa
<1>4. env_status[e] = "RUNNABLE"
  BY DEF StepOf
<1> QED BY <1>1, <1>2, <1>3, <1>4, FillsStay

(* The entry becomes empty, stays or gets a page of its own.               *)
LEMMA AloneStep ==
  ASSUME ShareInv, MapInv', NEW e \in Env, NEW f \in Env, NEW s \in Va,
         StepOf(e, f, s), ScratchAfter(e), ExcusesKept,
         NEW perm, Alone(f, s, perm), EntryOk(s, perm)
  PROVE  ShareCore'
<1>1. OnlyVa(f, s) /\ EntriesOk(pte')
  BY TablesTyped DEF StepOf, ShareInv
<1>2. SharingOk'
  BY <1>1, SharingAlone DEF ShareInv
<1>3. PermsOk'
  <2>1. pte'[f][s] # NoPte => EntryOk(s, pte'[f][s].perm)
    BY DEF Alone, ShareInv, PermsOk
  <2> QED BY <1>1, <2>1, PermsStay DEF ShareInv
<1>4. ScratchOk'
  BY StepScratch DEF ShareInv
<1>5. FillOk'
  BY StepFills DEF Alone
<1> QED BY <1>2, <1>3, <1>4, <1>5 DEF ShareCore

(* The entry gets a page that others may hold.                             *)
LEMMA JoinStep ==
  ASSUME ShareInv, MapInv', NEW e \in Env, NEW f \in Env, NEW s \in Va,
         StepOf(e, f, s), ScratchAfter(e), ExcusesKept,
         Joins(f, s), EntryOk(s, pte'[f][s].perm),
         NEW v \in Va, pte'[f][s].page = pte[e][v].page
  PROVE  ShareCore'
<1>1. OnlyVa(f, s)
  BY DEF StepOf
<1>2. SharingOk' /\ PermsOk'
  BY <1>1, SharingJoins, PermsStay DEF ShareInv
<1>3. ScratchOk'
  BY StepScratch DEF ShareInv
<1>4. FillOk'
  BY StepFills
<1> QED BY <1>2, <1>3, <1>4 DEF ShareCore

(* Entries of e are removed at most.                                       *)
LEMMA ShrinkStep ==
  ASSUME ShareInv, MapInv', ExcusesKept, ScratchOk',
         \A x \in Env : \A v \in Va : pte'[x][v] = pte[x][v] \/ pte'[x][v] = NoPte,
         \A x \in Env : op'[x].at = "fill" =>
           op'[x] = op[x] /\ pte'[op[x].child][UTEXT] = pte[op[x].child][UTEXT]
  PROVE  ShareCore'
<1>1. EntriesOk(pte) /\ EntriesOk(pte')
  BY TablesTyped DEF ShareInv
<1>2. FillOk'
  BY <1>1, FillsStay
<1> QED BY <1>1, <1>2, SharingShrinks, PermsShrink DEF ShareInv, ShareCore

(* The routines and handlers stay where they are, and the entry is none    *)
(* they rely on.                                                           *)
LEMMA ProgramStep ==
  ASSUME ShareInv, MapInv', NEW e \in Env, NEW s \in Va, OnlyVa(e, s), UNCHANGED <<op, cow>>,
         env_status[e] = "RUNNABLE", s \notin {UCOW, UTEMP}, op[e].at = "dup" => s # op[e].va,
         NEW perm, Alone(e, s, perm), EntryOk(s, perm)
  PROVE  ShareCore'
<1>1. Undisturbed(e)
  BY ElsewhereUndisturbed DEF ShareInv
<1>2. ScratchAfter(e)
  BY <1>1, ScratchStays DEF ShareInv, ScratchAfter
<1>3. StepOf(e, e, s)
  BY DEF StepOf
<1>4. ExcusesKept
  BY ExcusesStay
<1> QED BY <1>2, <1>3, <1>4, AloneStep

(* sys_mem_alloc.                                                          *)
LEMMA MemAllocShares ==
  ASSUME ShareInv, MapInv', NEW e \in Env, NEW s \in UserVa, NEW perm \in UserPerms,
         MemAlloc(e, s, perm)
  PROVE  ShareCore'
<1>1. /\ Commit(SysMemAlloc(M, e, s, perm)) /\ UNCHANGED <<op, cow>> /\ op[e].at = "user"
      /\ MapInv /\ env_status[e] = "RUNNABLE"
  BY DEF MemAlloc, InProgram, InUser, Runs, UserLeaves, Idle, ShareInv
<1>2. PICK n : n = SysMemAlloc(M, e, s, perm)
  OBVIOUS
<1>3. perm \in Perms /\ EntryOk(s, perm) /\ s \in Va /\ s \notin {UCOW, UTEMP}
      /\ pte' = n.pte
  BY <1>1, <1>2, Addresses DEF UserPerms, EntryOk, Perms, Commit
<1>4. OnlyVa(e, s) /\ Alone(e, s, perm)
  BY <1>1, <1>2, <1>3, Now, AllocEffect
<1> QED BY <1>1, <1>3, <1>4, ProgramStep

(* sys_mem_unmap.                                                          *)
LEMMA MemUnmapShares ==
  ASSUME ShareInv, MapInv', NEW e \in Env, NEW s \in UserVa, MemUnmap(e, s)
  PROVE  ShareCore'
<1>1. /\ Commit(PageRemove(M, e, s)) /\ UNCHANGED <<op, cow>> /\ op[e].at = "user" /\ MapInv
      /\ env_status[e] = "RUNNABLE"
  BY DEF MemUnmap, InProgram, InUser, Runs, UserLeaves, Idle, ShareInv
<1>2. s \in Va /\ s \notin {UCOW, UTEMP}
  BY Addresses
<1>3. OnlyVa(e, s) /\ Alone(e, s, {"D"})
  BY <1>1, <1>2, RemoveEffect DEF Alone
<1> QED BY <1>1, <1>2, <1>3, ProgramStep DEF EntryOk

(* The kernel halts.                                                       *)
LEMMA HaltsShares ==
  ASSUME ShareInv, MapInv', NEW why, Halts(why)
  PROVE  ShareCore'
BY Still DEF Halts, pageVars

(* A program stores a word.                                                *)
LEMMA StoreShares ==
  ASSUME ShareInv, MapInv', NEW e \in Env, NEW s, NEW w, Store(e, s, w)
  PROVE  ShareCore'
BY Still DEF Store

-----------------------------------------------------------------------------
(* Exceptions.                                                             *)

(* What the entries at UTEMP and UCOW and the one duppage works on are.    *)
LEMMA Scratch ==
  ASSUME ShareInv, NEW e \in Env
  PROVE  /\ HandlerScratch(e) /\ RoutineScratch(e)
         /\ op[e].at = "dup" => op[e].va \in Va /\ op[e].va \notin {UCOW, UTEMP}
                                /\ pte[e][op[e].va] # NoPte
<1>1. HandlerScratch(e) /\ RoutineScratch(e)
  BY DEF ShareInv, ScratchOk
<1>2. ASSUME op[e].at = "dup"
      PROVE  op[e].va \in Va /\ op[e].va \notin {UCOW, UTEMP} /\ pte[e][op[e].va] # NoPte
  <2>1. op[e].va \in Va
    BY <1>2 DEF ShareInv, MapInv, ForkOk
  <2>2. pte[e][op[e].va] # NoPte /\ op[e].va # UCOW /\ pte[e][UTEMP] = NoPte
    BY <1>1, <1>2 DEF RoutineScratch, Private
  <2> QED BY <2>1, <2>2
<1> QED BY <1>1, <1>2

(* do_tlb_refill.                                                          *)
LEMMA DoTlbRefillShares ==
  ASSUME ShareInv, MapInv', NEW e \in Env, NEW s \in Slot, DoTlbRefill(e, s)
  PROVE  ShareCore'
<1>1. s \in Touches(e) /\ MapInv /\ env_status[e] = "RUNNABLE"
  BY DEF DoTlbRefill, Runs, ShareInv
<1>2. CASE ~ PassiveOk(M, e, s)
  BY <1>2, HaltsShares DEF DoTlbRefill
<1>3. CASE PassiveOk(M, e, s)
  <2>1. PICK i, n : i = TlbInvalidate(M, env_asid[e], s) /\ n = PassiveAlloc(i, e, s)
    OBVIOUS
  <2>2. Refill(n, e, s) /\ UNCHANGED <<op, cow>>
    BY <1>3, <2>1 DEF DoTlbRefill
  <2>3. pte' = n.pte
    BY <2>2 DEF Refill, Commit, Mem
  <2>4. Good(i, {}) /\ i.pte = pte /\ PassiveOk(i, e, s)
    <3>1. Good(M, {})
      BY <1>1, Now
    <3>2. Good(i, {})
      BY <2>1, <3>1, GoodInvalidate
    <3>3. PassiveOk(i, e, s)
      BY <1>3, <2>1, PassiveOkInvalidated
    <3>4. i.pte = pte
      BY <2>1 DEF M, TlbInvalidate, Mem
    <3> QED BY <3>2, <3>3, <3>4
  <2>5. CASE pte[e][s] # NoPte
    <3>1. pte' = pte
      BY <2>1, <2>3, <2>4, <2>5 DEF PassiveAlloc
    <3> QED BY <2>2, <3>1, Still
  <2>6. CASE pte[e][s] = NoPte
    <3>1. s \in Va /\ s \notin {UCOW, UTEMP}
      BY <1>1, <2>6, Addresses DEF Touches, WritesTo
    <3>2. OnlyVa(e, s) /\ Alone(e, s, {"D"})
      BY <1>1, <2>1, <2>3, <2>4, <3>1, PassiveEffect
    <3>3. op[e].at = "dup" => s # op[e].va
      BY <2>6, Scratch
    <3> QED BY <1>1, <2>2, <3>1, <3>2, <3>3, ProgramStep DEF EntryOk
  <2> QED BY <2>5, <2>6
<1> QED BY <1>2, <1>3

-----------------------------------------------------------------------------
(* cow_entry.                                                              *)

(* A step of the handler, to the state h, that changes the entry at s.     *)
HandlerGoes(e, s, h) ==
  /\ OnlyVa(e, s) /\ op' = op /\ cow' = [cow EXCEPT ![e] = h]
  /\ h = NoCow \/ h.va = cow[e].va
  /\ s \in {UCOW, cow[e].va}

LEMMA HandlerStep ==
  ASSUME ShareInv, NEW e \in Env, Runs(e), cow[e].at \in {"alloc", "copy", "map", "unmap"},
         NEW s, NEW h, HandlerGoes(e, s, h)
  PROVE  /\ StepOf(e, e, s) /\ RoutineScratch(e)' /\ cow'[e] = h
         /\ cow[e].at # "unmap" => ExcusesKept
         /\ s # UCOW => pte'[e][UCOW] = pte[e][UCOW]
<1>1. MapInv /\ cow[e] # NoCow
  BY DEF ShareInv, NoCow
<1>2. cow[e].va \notin {UCOW, UTEMP} /\ {UCOW, UTEMP} \subseteq Va /\ UCOW # UTEMP
  BY <1>1, HandlerState, Addresses, MapAssumption
<1>3. cow'[e] = h /\ \A x \in Env : x # e => cow'[x] = cow[x]
  BY <1>1 DEF HandlerGoes, MapInv, RoutineType
<1>4. StepOf(e, e, s)
  BY <1>3 DEF HandlerGoes, StepOf, Runs
<1>5. pte'[e][UTEMP] = pte[e][UTEMP] /\ (s # UCOW => pte'[e][UCOW] = pte[e][UCOW])
  BY <1>2 DEF HandlerGoes, OnlyVa
<1>6. RoutineScratch(e)'
  <2>1. ASSUME op[e].at = "dup"
        PROVE  /\ op[e].va <= USTACK /\ op[e].va # UCOW /\ "D" \notin op[e].perm
               /\ Private(pte'[e][op[e].va]) /\ cow[e].va # op[e].va
    <3>1. op[e].va <= USTACK /\ op[e].va # UCOW /\ "D" \notin op[e].perm
          /\ Private(pte[e][op[e].va]) /\ op[e].va \in Va /\ cow[e].va # op[e].va
      BY <1>1, <2>1, Scratch DEF RoutineScratch
    <3>2. pte'[e][op[e].va] = pte[e][op[e].va]
      BY <3>1 DEF HandlerGoes, OnlyVa
    <3> QED BY <3>1, <3>2
  <2>2. /\ op[e].at \notin {"give", "given", "filled"} => pte[e][UTEMP] = NoPte
        /\ op[e].at \in {"give", "given", "filled"} => Private(pte[e][UTEMP])
    BY Scratch DEF RoutineScratch
  <2>3. cow'[e] # NoCow => cow'[e].va = cow[e].va
    BY <1>3 DEF HandlerGoes
  <2> QED BY <1>5, <2>1, <2>2, <2>3 DEF RoutineScratch, HandlerGoes
<1>7. ASSUME cow[e].at # "unmap" PROVE ExcusesKept
  BY <1>3, <1>7, ExcusesStay DEF HandlerGoes
<1> QED BY <1>3, <1>4, <1>5, <1>6, <1>7

(* It allocates a page at UCOW, or fails to.                               *)
LEMMA CowAllocShares ==
  ASSUME ShareInv, MapInv', NEW e \in Env, CowAlloc(e)
  PROVE  ShareCore'
<1>1. PICK h, n : /\ h = [at |-> "copy", va |-> cow[e].va, perm |-> cow[e].perm]
                  /\ n = SysMemAlloc(M, e, UCOW, cow[e].perm)
  OBVIOUS
<1>2. /\ Runs(e) /\ cow[e].at = "alloc" /\ pte' = n.pte /\ op' = op
      /\ cow' = [cow EXCEPT ![e] = h] /\ MapInv
  BY <1>1 DEF CowAlloc, Commit, CowGoes, CowLeaves, ShareInv
<1>3. UCOW \in Va /\ cow[e].perm \in Perms /\ "D" \in cow[e].perm
  BY <1>2, HandlerState
<1>4. OnlyVa(e, UCOW) /\ Alone(e, UCOW, cow[e].perm)
  BY <1>1, <1>2, <1>3, Now, AllocEffect
<1>5. HandlerGoes(e, UCOW, h)
  BY <1>1, <1>2, <1>4 DEF HandlerGoes
<1>6. StepOf(e, e, UCOW) /\ RoutineScratch(e)' /\ cow'[e] = h /\ ExcusesKept
  BY <1>2, <1>5, HandlerStep
<1>7. pte[e][UCOW] = NoPte /\ "LIBRARY" \notin cow[e].perm /\ "COW" \notin cow[e].perm
  BY <1>2, Scratch DEF HandlerScratch, NoCow
<1>8. pte'[e][UCOW] = NoPte \/ Private(pte'[e][UCOW])
  BY <1>3, <1>4, <1>7 DEF Alone, Private
<1>9. ScratchAfter(e)
  BY <1>1, <1>6, <1>7, <1>8 DEF ScratchAfter, HandlerScratch
<1> QED BY <1>3, <1>4, <1>6, <1>7, <1>9, AloneStep DEF EntryOk

(* It copies the page; the kernel allocates one if it must.                *)
LEMMA CowCopyShares ==
  ASSUME ShareInv, MapInv', NEW e \in Env, CowCopy(e)
  PROVE  ShareCore'
<1>1. CASE Halts("passive_alloc: out of memory")
  BY <1>1, HaltsShares
<1>2. CASE PassiveOk(M, e, UCOW)
  <2>1. PICK h, n : /\ h = [at |-> "map", va |-> cow[e].va, perm |-> cow[e].perm]
                    /\ n = PassiveAlloc(M, e, UCOW)
    OBVIOUS
  <2>2. /\ Runs(e) /\ cow[e].at = "copy" /\ op' = op
        /\ cow' = [cow EXCEPT ![e] = h] /\ MapInv /\ Commit(Copied(n, e))
    BY <1>2, <2>1 DEF CowCopy, CowGoes, CowLeaves, ShareInv
  <2>3. pte' = n.pte
    BY <2>2 DEF Commit, Copied, Writes, Mem
  <2>4. UCOW \in Va
    BY Addresses
  <2>5. /\ OnlyVa(e, UCOW) /\ Alone(e, UCOW, {"D"}) /\ pte'[e][UCOW] # NoPte
        /\ pte[e][UCOW] # NoPte => pte' = pte
        /\ pte[e][UCOW] = NoPte => pte'[e][UCOW].perm = {"D"}
    BY <1>2, <2>1, <2>2, <2>3, <2>4, Now, PassiveEffect
  <2>6. HandlerGoes(e, UCOW, h)
    BY <2>1, <2>2, <2>5 DEF HandlerGoes
  <2>7. StepOf(e, e, UCOW) /\ RoutineScratch(e)' /\ cow'[e] = h /\ ExcusesKept
    BY <2>2, <2>6, HandlerStep
  <2>8. /\ pte[e][UCOW] = NoPte \/ Private(pte[e][UCOW])
        /\ "LIBRARY" \notin cow[e].perm /\ "COW" \notin cow[e].perm
    BY <2>2, Scratch DEF HandlerScratch, NoCow
  <2>9. Private(pte'[e][UCOW])
    BY <2>5, <2>8 DEF Private
  <2>10. ScratchAfter(e)
    BY <2>1, <2>7, <2>8, <2>9 DEF ScratchAfter, HandlerScratch
  <2> QED BY <2>4, <2>5, <2>7, <2>10, AloneStep DEF EntryOk
<1> QED BY <1>1, <1>2 DEF CowCopy

(* A private page of e that no routine maps twice at the moment is in no   *)
(* other entry.                                                            *)
LEMMA NobodyElse ==
  ASSUME ShareInv, NEW e \in Env, NEW v \in Va, Private(pte[e][v]),
         NEW y \in Env, NEW u \in Va, pte[y][u].page = pte[e][v].page,
         cow[e].at # "unmap", ~ (op[e].at = "dup" /\ v = op[e].va),
         ~ (op[e].at \in {"given", "filled"} /\ v = UTEMP),
         env_status[e] = "RUNNABLE"
  PROVE  y = e /\ u = v
<1>1. MayShare(e, v, y, u)
  BY DEF ShareInv, SharingOk
<1>2. ~ (op[y].at \in {"given", "filled"} /\ op[y].child = e)
  BY DEF ShareInv, MapInv, BuildsChild
<1> QED BY <1>1, <1>2 DEF MayShare, Remapped, Protecting, Giving

(* It maps its copy over the page.                                         *)
LEMMA CowMapShares ==
  ASSUME ShareInv, MapInv', NEW e \in Env, CowMap(e)
  PROVE  ShareCore'
<1>1. PICK h, n, v, perm : /\ h = [at |-> "unmap", va |-> cow[e].va, perm |-> cow[e].perm]
                           /\ n = SysMemMap(M, e, UCOW, e, v, perm)
                           /\ v = cow[e].va /\ perm = cow[e].perm
  OBVIOUS
<1>2. /\ Runs(e) /\ cow[e].at = "map" /\ pte' = n.pte /\ op' = op
      /\ cow' = [cow EXCEPT ![e] = h] /\ MapInv
  BY <1>1 DEF CowMap, Commit, CowGoes, CowLeaves, ShareInv
<1>3. /\ UCOW \in Va /\ perm \in Perms /\ v \in Va /\ v # UCOW
      /\ UCOW # USTACK /\ UCOW # UTEMP
  <2>1. /\ UCOW \in Va /\ perm \in Perms /\ v \in Va /\ v # UCOW
    BY <1>1, <1>2, HandlerState
  <2> QED BY <2>1, MapAssumption DEF Va
<1>4. /\ OnlyVa(e, v)
      /\ MapOk(M, e, UCOW, e, v) => pte'[e][v] = [page |-> pte[e][UCOW].page, perm |-> perm]
      /\ ~ MapOk(M, e, UCOW, e, v) => pte'[e][v] = NoPte \/ pte'[e][v] = pte[e][v]
  BY <1>1, <1>2, <1>3, MapEffect
<1>5. HandlerGoes(e, v, h)
  BY <1>1, <1>2, <1>4 DEF HandlerGoes
<1>6. StepOf(e, e, v) /\ RoutineScratch(e)' /\ cow'[e] = h /\ ExcusesKept
      /\ pte'[e][UCOW] = pte[e][UCOW]
  BY <1>2, <1>3, <1>5, HandlerStep
<1>7. Private(pte[e][UCOW]) /\ "LIBRARY" \notin perm /\ "COW" \notin perm
  BY <1>1, <1>2, Scratch DEF HandlerScratch, NoCow
<1>11. "D" \in perm
  BY <1>1, <1>2, HandlerState
<1>8. ScratchAfter(e)
  BY <1>1, <1>6, <1>7 DEF ScratchAfter, HandlerScratch
<1>9. CASE MapOk(M, e, UCOW, e, v)
  <2>1. ASSUME NEW y \in Env, NEW u \in Va, y # e \/ u # v,
               pte'[y][u].page = pte'[e][v].page
        PROVE  y = e /\ u = UCOW
    <3>1. pte[y][u].page = pte[e][UCOW].page
      BY <1>4, <1>9, <2>1 DEF OnlyVa
    <3>2. ~ (op[e].at = "dup" /\ UCOW = op[e].va)
      BY Scratch
    <3>3. env_status[e] = "RUNNABLE"
      BY <1>2 DEF Runs
    <3> QED BY <1>2, <1>3, <1>7, <3>1, <3>2, <3>3, NobodyElse
  <2>2. MayShare(e, v, e, UCOW)' /\ MayShare(e, UCOW, e, v)'
    BY <1>1, <1>6 DEF MayShare, Remapped
  <2>3. Joins(e, v)
    BY <2>1, <2>2 DEF Joins
  <2>4. EntryOk(v, pte'[e][v].perm) /\ pte'[e][v].page = pte[e][UCOW].page
    BY <1>4, <1>7, <1>9, <1>11 DEF EntryOk
  <2> QED BY <1>3, <1>6, <1>8, <2>3, <2>4, JoinStep
<1>10. CASE ~ MapOk(M, e, UCOW, e, v)
  <2>1. Alone(e, v, {"D"})
    BY <1>4, <1>10 DEF Alone
  <2> QED BY <1>3, <1>6, <1>8, <2>1, AloneStep DEF EntryOk
<1> QED BY <1>9, <1>10

(* It unmaps UCOW.                                                         *)
LEMMA CowUnmapShares ==
  ASSUME ShareInv, MapInv', NEW e \in Env, CowUnmap(e)
  PROVE  ShareCore'
<1>1. /\ Runs(e) /\ cow[e].at = "unmap" /\ op' = op /\ Commit(PageRemove(M, e, UCOW))
      /\ cow' = [cow EXCEPT ![e] = NoCow] /\ MapInv /\ UCOW \in Va
  BY Addresses DEF CowUnmap, CowLeaves, ShareInv
<1>2. OnlyVa(e, UCOW) /\ pte'[e][UCOW] = NoPte
  BY <1>1, RemoveEffect
<1>3. HandlerGoes(e, UCOW, NoCow)
  BY <1>1, <1>2 DEF HandlerGoes
<1>4. StepOf(e, e, UCOW) /\ RoutineScratch(e)' /\ cow'[e] = NoCow
  BY <1>1, <1>3, HandlerStep
<1>5. ScratchAfter(e)
  BY <1>2, <1>4 DEF ScratchAfter, HandlerScratch, NoCow
<1>6. ExcusesKept
  <2> SUFFICES ASSUME NEW x \in Env, NEW y \in Env, NEW v \in Va, NEW u \in Va,
                      Private(pte'[x][v]), pte'[y][u].page = pte'[x][v].page,
                      MayShare(x, v, y, u)
               PROVE  MayShare(x, v, y, u)'
    BY DEF ExcusesKept
  <2>1. pte'[x][v] # NoPte /\ pte'[y][u] # NoPte
    BY <1>1, TablesTyped DEF Private, EntriesOk, NoPte
  <2>2. CASE x = y /\ Remapped(x, v, u)
    <3>1. x # e
      BY <1>2, <2>1, <2>2 DEF Remapped
    <3>2. cow'[x] = cow[x]
      BY <1>4, <3>1 DEF StepOf
    <3> QED BY <2>2, <3>2 DEF MayShare, Remapped
  <2>3. CASE ~ (x = y /\ Remapped(x, v, u))
    BY <1>1, <2>3 DEF MayShare, Protecting, Giving
  <2> QED BY <2>2, <2>3
<1>7. Alone(e, UCOW, {"D"})
  BY <1>2 DEF Alone
<1> QED BY <1>1, <1>4, <1>5, <1>6, <1>7, AloneStep DEF EntryOk

-----------------------------------------------------------------------------
(* fork and spawn.                                                         *)

(* A step of the routine of e, to r, in user code.                         *)
RoutineMoves(e, r) ==
  /\ InUser(e) /\ \A x \in Env : cow'[x] = cow[x]
  /\ op' = [op EXCEPT ![e] = r]

LEMMA RoutineMoved ==
  ASSUME ShareInv, NEW e \in Env, NEW r, RoutineMoves(e, r)
  PROVE  /\ env_status[e] = "RUNNABLE" /\ cow[e] = NoCow /\ cow'[e] = NoCow
         /\ op'[e] = r /\ \A x \in Env : x # e => op'[x] = op[x]
         /\ pte[e][UCOW] = NoPte
         /\ op[e].at \notin {"give", "given", "filled"} => pte[e][UTEMP] = NoPte
         /\ op[e].at \notin {"dup", "given", "filled"} => ExcusesKept
<1>1. env_status[e] = "RUNNABLE" /\ cow[e] = NoCow /\ cow'[e] = NoCow
  BY DEF RoutineMoves, InUser, Runs
<1>2. op'[e] = r /\ \A x \in Env : x # e => op'[x] = op[x]
  BY DEF RoutineMoves, ShareInv, MapInv, RoutineType
<1>3. pte[e][UCOW] = NoPte /\ (op[e].at \notin {"give", "given", "filled"} => pte[e][UTEMP] = NoPte)
  BY <1>1, Scratch DEF HandlerScratch, RoutineScratch, NoCow
<1>4. ASSUME op[e].at \notin {"dup", "given", "filled"} PROVE ExcusesKept
  BY <1>2, <1>4, ExcusesStay DEF RoutineMoves
<1> QED BY <1>1, <1>2, <1>3, <1>4

(* It changes an entry of its own, not the one at UCOW.                    *)
LEMMA RoutineOwn ==
  ASSUME ShareInv, NEW e \in Env, NEW r, RoutineMoves(e, r), NEW s, OnlyVa(e, s), s # UCOW,
         RoutineScratch(e)', r.at # "fill"
  PROVE  StepOf(e, e, s) /\ ScratchAfter(e)
<1>1. /\ pte'[e][UCOW] = NoPte /\ cow'[e] = NoCow /\ \A x \in Env : x # e => op'[x] = op[x]
      /\ env_status[e] = "RUNNABLE" /\ op'[e] = r
  BY RoutineMoved, Addresses DEF OnlyVa
<1>2. HandlerScratch(e)'
  BY <1>1 DEF HandlerScratch, NoCow
<1> QED BY <1>1, <1>2 DEF StepOf, ScratchAfter, RoutineMoves

(* It changes an entry of its child.                                       *)
LEMMA RoutineChild ==
  ASSUME ShareInv, NEW e \in Env, NEW r, RoutineMoves(e, r), op[e].at # "user",
         NEW c, c = op[e].child, NEW s, OnlyVa(c, s), s \notin {UCOW, UTEMP},
         RoutineScratch(e)', r.at = "fill" => r.child = c /\ Unshared(c, UTEXT)'
  PROVE  c \in Env /\ c # e /\ StepOf(e, c, s) /\ ScratchAfter(e)
<1>1. MapInv /\ env_status[e] = "RUNNABLE" /\ cow'[e] = NoCow
  BY RoutineMoved DEF ShareInv
<1>2. c \in Env /\ env_status[c] = "NOT_RUNNABLE"
  BY <1>1, ChildState
<1>3. c # e /\ op[c].at = "user"
  BY <1>1, <1>2 DEF MapInv, BuildsChild
<1>4. Undisturbed(c)
  BY <1>1, <1>2, <1>3, ElsewhereUndisturbed
<1>5. pte'[e] = pte[e]
  BY <1>3 DEF OnlyVa
<1>6. HandlerScratch(e)'
  BY <1>1, <1>5, RoutineMoved DEF HandlerScratch, NoCow
<1>7. op'[e] = r /\ \A x \in Env : x # e => op'[x] = op[x] /\ cow'[x] = cow[x]
  BY RoutineMoved DEF RoutineMoves
<1>8. op'[e].at = "fill" => Unshared(op[e].child, UTEXT)'
  BY <1>7
<1> QED BY <1>1, <1>2, <1>3, <1>4, <1>6, <1>7, <1>8 DEF StepOf, ScratchAfter

(* A page of e that another entry may write privately is that entry's, so  *)
(* when e runs user code it is its own.                                    *)
LEMMA OthersPrivate ==
  ASSUME ShareInv, NEW e \in Env, env_status[e] = "RUNNABLE", cow[e] = NoCow,
         op[e].at \notin {"given", "filled"}, NEW v \in Va, NEW y \in Env, NEW u \in Va, Private(pte[y][u]),
         pte[e][v].page = pte[y][u].page
  PROVE  y = e /\ u = v
<1>1. MayShare(y, u, e, v)
  BY DEF ShareInv, SharingOk
<1>2. \A f \in Env : op[f].at # "user" => op[f].child # e
  BY DEF ShareInv, MapInv, BuildsChild
<1> QED BY <1>1, <1>2 DEF MayShare, Remapped, Protecting, Giving, NoCow

(* The routine ends with its entries as they are: fork or spawn starts the *)
(* child, or the env exits.                                                *)
LEMMA EndShares ==
  ASSUME ShareInv, MapInv', NEW e \in Env, RoutineMoves(e, Idle), pte' = pte,
         op[e].at \notin {"dup", "give", "given", "filled"}
  PROVE  ShareCore'
<1>1. UXSTACK \in Va /\ UXSTACK # UCOW
  BY Addresses, MapAssumption DEF Va
<1>2. OnlyVa(e, UXSTACK) /\ Alone(e, UXSTACK, {"D"})
  BY <1>1 DEF OnlyVa, Alone
<1>3. op'[e] = Idle /\ pte'[e][UTEMP] = NoPte /\ ExcusesKept
  BY RoutineMoved
<1>4. RoutineScratch(e)'
  BY <1>3 DEF RoutineScratch, Idle
<1>5. StepOf(e, e, UXSTACK) /\ ScratchAfter(e)
  BY <1>1, <1>2, <1>4, RoutineOwn DEF Idle
<1> QED BY <1>1, <1>2, <1>3, <1>5, AloneStep DEF EntryOk

(* fork and spawn start their child.                                       *)
LEMMA StartShares ==
  ASSUME ShareInv, MapInv', NEW e \in Env, ForkDone(e) \/ SpawnDone(e)
  PROVE  ShareCore'
<1>1. RoutineMoves(e, Idle) /\ pte' = pte /\ op[e].at \in {"fork", "share"}
  BY DEF ForkDone, SpawnDone, StartChild, RoutineMoves, pageVars
<1> QED BY <1>1, EndShares

(* An env that runs its program exits.                                     *)
LEMMA PanicMoves ==
  ASSUME ShareInv, NEW e \in Env, InUser(e), UserPanics(e)
  PROVE  RoutineMoves(e, Idle)
<1>1. cow[e] = NoCow /\ cow' = [cow EXCEPT ![e] = NoCow] /\ op' = [op EXCEPT ![e] = Idle]
  BY DEF InUser, UserPanics
<1>2. \A x \in Env : cow'[x] = cow[x]
  BY <1>1 DEF ShareInv, MapInv, RoutineType
<1> QED BY <1>1, <1>2 DEF RoutineMoves

(* exit.                                                                   *)
LEMMA ExitShares ==
  ASSUME ShareInv, MapInv', NEW e \in Env, Exit(e)
  PROVE  ShareCore'
<1>1. InUser(e) /\ UserPanics(e) /\ pte' = pte /\ op[e].at = "user"
  BY DEF Exit, InProgram, pageVars, Idle
<1> QED BY <1>1, PanicMoves, EndShares

(* do_tlb_mod enters the handler, or the program panics.                   *)
LEMMA TlbModShares ==
  ASSUME ShareInv, MapInv', NEW e \in Env, InUser(e), NEW s, NEW perm, TlbMod(e, s, perm),
         "COW" \in perm => s \in UserVa /\ pte[e][s] # NoPte /\ pte[e][s].perm = perm,
         "COW" \notin perm => op[e].at = "user"
  PROVE  ShareCore'
<1>1. env_status[e] = "RUNNABLE" /\ cow[e] = NoCow /\ MapInv
  BY DEF InUser, Runs, ShareInv
<1>2. /\ {UXSTACK, UCOW, UTEMP, USTACK} \subseteq Va
      /\ UXSTACK \notin {UCOW, UTEMP} /\ UXSTACK \notin 0 .. USTACK
  BY Addresses, MapAssumption DEF Va
<1>3. CASE Halts("passive_alloc: out of memory")
  BY <1>3, HaltsShares
<1>4. CASE Halts("TLB Mod but no user handler registered")
  BY <1>4, HaltsShares
<1>5. CASE PassiveOk(M, e, UXSTACK) /\ env_user_tlb_mod_entry[e]
  <2>1. PICK n : n = PassiveAlloc(M, e, UXSTACK)
    OBVIOUS
  <2>2. pte' = n.pte
    BY <1>5, <2>1 DEF TlbMod, Commit
  <2>3. OnlyVa(e, UXSTACK) /\ Alone(e, UXSTACK, {"D"})
    BY <1>1, <1>2, <1>5, <2>1, <2>2, Now, PassiveEffect
  <2>4. pte'[e][UCOW] = pte[e][UCOW] /\ pte'[e][UTEMP] = pte[e][UTEMP]
    BY <1>2, <2>3 DEF OnlyVa
  <2>5. pte[e][UCOW] = NoPte
    BY <1>1, Scratch DEF HandlerScratch, NoCow
  <2>6. CASE "COW" \notin perm
    <3>1. UserPanics(e)
      BY <1>5, <2>6 DEF TlbMod
    <3>2. RoutineMoves(e, Idle) /\ op[e].at = "user"
      BY <2>6, <3>1, PanicMoves
    <3>3. op'[e] = Idle /\ ExcusesKept /\ pte[e][UTEMP] = NoPte
      BY <3>2, RoutineMoved
    <3>4. RoutineScratch(e)'
      BY <2>4, <3>3 DEF RoutineScratch, Idle
    <3>5. StepOf(e, e, UXSTACK) /\ ScratchAfter(e)
      BY <1>2, <2>3, <3>2, <3>4, RoutineOwn DEF Idle
    <3> QED BY <1>2, <2>3, <3>3, <3>5, AloneStep DEF EntryOk
  <2>7. CASE "COW" \in perm
    <3>1. PICK h : h = (perm \ {"COW"}) \cup {"D"}
      OBVIOUS
    <3>2. cow' = [cow EXCEPT ![e] = [at |-> "alloc", va |-> s, perm |-> h]] /\ op' = op
      BY <1>5, <2>7, <3>1 DEF TlbMod
    <3>3. /\ cow'[e] = [at |-> "alloc", va |-> s, perm |-> h]
          /\ \A x \in Env : x # e => cow'[x] = cow[x]
      BY <3>2 DEF ShareInv, MapInv, RoutineType
    <3>4. s \in Va /\ pte[e][s].perm = perm /\ "D" \notin perm /\ "LIBRARY" \notin perm
      BY <2>7, Addresses DEF ShareInv, PermsOk, EntryOk, MapInv, EntryPerms
    <3>5. HandlerScratch(e)'
      BY <2>4, <2>5, <3>1, <3>3, <3>4 DEF HandlerScratch
    <3>6. RoutineScratch(e)'
      <4>1. ASSUME op[e].at = "dup"
            PROVE  /\ op[e].va <= USTACK /\ op[e].va # UCOW /\ "D" \notin op[e].perm
                   /\ Private(pte'[e][op[e].va]) /\ s # op[e].va
        <5>1. op[e].va <= USTACK /\ op[e].va # UCOW /\ "D" \notin op[e].perm
              /\ Private(pte[e][op[e].va]) /\ op[e].va \in Va
          BY <4>1, Scratch DEF RoutineScratch
        <5>2. op[e].va # UXSTACK
          BY <1>2, <5>1, MapAssumption DEF Va
        <5>3. pte'[e][op[e].va] = pte[e][op[e].va]
          BY <2>3, <5>1, <5>2 DEF OnlyVa
        <5>4. s # op[e].va
          BY <3>4, <5>1 DEF Private
        <5> QED BY <5>1, <5>3, <5>4
      <4>2. /\ op[e].at \notin {"give", "given", "filled"} => pte[e][UTEMP] = NoPte
            /\ op[e].at \in {"give", "given", "filled"} => Private(pte[e][UTEMP])
        BY Scratch DEF RoutineScratch
      <4> QED BY <2>4, <3>2, <3>3, <4>1, <4>2 DEF RoutineScratch
    <3>7. StepOf(e, e, UXSTACK) /\ ScratchAfter(e)
      BY <1>1, <2>3, <3>2, <3>3, <3>5, <3>6 DEF StepOf, ScratchAfter
    <3>8. ExcusesKept
      BY <1>1, <3>2, <3>3, ExcusesStay DEF NoCow
    <3> QED BY <1>2, <2>3, <3>7, <3>8, AloneStep DEF EntryOk
  <2> QED BY <2>6, <2>7
<1> QED BY <1>3, <1>4, <1>5 DEF TlbMod

(* A program writes to a page of its own, or to a window.                  *)
LEMMA DoTlbModShares ==
  ASSUME ShareInv, MapInv', NEW e \in Env, (\E s \in UserVa : DoTlbMod(e, s)) \/ WriteWindow(e)
  PROVE  ShareCore'
<1>1. ASSUME NEW s \in UserVa, DoTlbMod(e, s) PROVE ShareCore'
  <2>1. /\ InUser(e) /\ TlbMod(e, s, pte[e][s].perm) /\ env_status[e] = "RUNNABLE"
        /\ s \in WritesTo(e) /\ MapInv
    BY <1>1 DEF DoTlbMod, InUser, Runs, ShareInv
  <2>2. PICK h \in Hits(e, s) : "D" \notin h.perm
    BY <1>1 DEF DoTlbMod
  <2>3. pte[e][s] = h /\ h # NoPte
    BY <2>1, <2>2, HitIsEntry
  <2>4. ASSUME "COW" \notin h.perm PROVE op[e].at = "user"
    <3>1. s # USTACK
      BY <2>2, <2>3, <2>4, Addresses DEF ShareInv, PermsOk, EntryOk
    <3> QED BY <2>1, <3>1 DEF WritesTo, Idle
  <2> QED BY <2>1, <2>3, <2>4, TlbModShares
<1>2. ASSUME WriteWindow(e) PROVE ShareCore'
  <2>1. PICK none : none = {}
    OBVIOUS
  <2>2. "COW" \notin none /\ InUser(e) /\ TlbMod(e, UVPT, none) /\ op[e].at = "user"
    BY <1>2, <2>1 DEF WriteWindow, InProgram, Idle
  <2> QED BY <2>2, TlbModShares
<1> QED BY <1>1, <1>2

(* The entries of users do not change, and the routine begins: fork and    *)
(* spawn have got a child.                                                 *)
LEMMA BeginShares ==
  ASSUME ShareInv, MapInv', NEW e \in Env, InProgram(e), NEW at, NEW c,
         OpGoes(e, at, c, 0, {}), at \in {"fork", "args"}, cow' = cow,
         \A f \in Env : \A v \in Va : pte'[f][v] = pte[f][v]
  PROVE  ShareCore'
<1>1. PICK r : r = [at |-> at, child |-> c, va |-> 0, perm |-> {}]
  OBVIOUS
<1>2. RoutineMoves(e, r) /\ op[e].at = "user"
  BY <1>1 DEF InProgram, OpGoes, RoutineMoves, Idle
<1>3. /\ op'[e] = r /\ \A x \in Env : x # e => op'[x] = op[x]
      /\ pte[e][UTEMP] = NoPte /\ pte[e][UCOW] = NoPte /\ ExcusesKept /\ cow'[e] = NoCow
  BY <1>2, RoutineMoved
<1>4. {UCOW, UTEMP} \subseteq Va
  BY Addresses
<1>5. \A x \in Env : x # e => Undisturbed(x)
  <2>1. \A x \in Env : op[x].at = "dup" => op[x].va \in Va
    BY DEF ShareInv, MapInv, ForkOk
  <2> QED BY <1>4, <2>1 DEF Undisturbed
<1>6. HandlerScratch(e)' /\ RoutineScratch(e)'
  BY <1>1, <1>3, <1>4 DEF HandlerScratch, RoutineScratch, NoCow
<1>7. ScratchOk'
  BY <1>3, <1>5, <1>6, ScratchOfOne DEF ShareInv
<1>8. ASSUME NEW x \in Env, op'[x].at = "fill"
      PROVE  op'[x] = op[x] /\ pte'[op[x].child][UTEXT] = pte[op[x].child][UTEXT]
  <2>1. op'[x] = op[x] /\ op[x].at = "fill"
    BY <1>1, <1>3, <1>8
  <2>2. op[x].child \in Env /\ UTEXT \in Va
    BY <2>1, Addresses DEF ShareInv, MapInv, BuildsChild
  <2> QED BY <2>1, <2>2
<1> QED BY <1>3, <1>7, <1>8, ShrinkStep

(* fork's call of exofork.                                                 *)
LEMMA ForkCallShares ==
  ASSUME ShareInv, MapInv', NEW e \in Env, ForkCall(e)
  PROVE  ShareCore'
<1>1. PICK c : c = CHOOSE f \in FreeEnvs : \A g \in FreeEnvs : f <= g
  OBVIOUS
<1>2. InProgram(e) /\ MapInv
  BY DEF ForkCall, ShareInv
<1>3. CASE Halts("page_free: pp_ref is not 0")
  BY <1>3, HaltsShares
<1>4. CASE UserPanics(e) /\ UNCHANGED pageVars
  BY <1>2, <1>4, ExitShares DEF Exit
<1>5. CASE ExoforkOk(M) /\ EnvAlloc(M, c, e) /\ OpGoes(e, "fork", c, 0, {}) /\ cow' = cow
  <2>1. FreeEnvs # {} /\ Cardinality(M.free) >= 2
    BY <1>5 DEF ExoforkOk
  <2>2. c \in Env /\ env_status[c] = "FREE"
    BY <1>1, <2>1, EnvThere
  <2>3. \A f \in Env : \A v \in Va : pte'[f][v] = pte[f][v]
    BY <1>2, <1>5, <2>1, <2>2, EnvAllocStep
  <2> QED BY <1>2, <1>5, <2>3, BeginShares
<1> QED BY <1>1, <1>3, <1>4, <1>5 DEF ForkCall

(* spawn's call of exofork; when it fails, what init_stack had at UTEMP is *)
(* unmapped.                                                               *)
LEMMA SpawnCallShares ==
  ASSUME ShareInv, MapInv', NEW e \in Env, SpawnCall(e)
  PROVE  ShareCore'
<1>1. PICK c, perm : c = (CHOOSE f \in FreeEnvs : \A g \in FreeEnvs : f <= g) /\ perm = {"D"}
  OBVIOUS
<1>2. InProgram(e) /\ MapInv
  BY DEF SpawnCall, ShareInv
<1>3. CASE Halts("page_free: pp_ref is not 0")
  BY <1>3, HaltsShares
<1>4. CASE ExoforkOk(M) /\ EnvAlloc(M, c, e) /\ OpGoes(e, "args", c, 0, {}) /\ cow' = cow
  <2>1. FreeEnvs # {} /\ Cardinality(M.free) >= 2
    BY <1>4 DEF ExoforkOk
  <2>2. c \in Env /\ env_status[c] = "FREE"
    BY <1>1, <2>1, EnvThere
  <2>3. \A f \in Env : \A v \in Va : pte'[f][v] = pte[f][v]
    BY <1>2, <1>4, <2>1, <2>2, EnvAllocStep
  <2> QED BY <1>2, <1>4, <2>3, BeginShares
<1>5. CASE Commit(PageRemove(SysMemAlloc(M, e, UTEMP, perm), e, UTEMP)) /\ Abandon(e)
  <2>1. PICK m : m = SysMemAlloc(M, e, UTEMP, perm)
    OBVIOUS
  <2>2. Good(M, {}) /\ TlbType /\ M.pte = pte
    BY <1>2, Now
  <2>3. /\ UTEMP \in Va /\ UTEMP \in Slot /\ UTEMP \in Slot \ {UVPT} /\ perm \in Perms
        /\ UTEMP # UCOW
    BY <1>1, Addresses, MapAssumption DEF Perms
  <2>4. Good(m, {}) /\ Frame(M, m, e, UTEMP)
    BY <2>1, <2>2, <2>3, GoodMemAlloc
  <2>5. PageRemove(m, e, UTEMP).pte = [m.pte EXCEPT ![e][UTEMP] = NoPte]
    BY <2>2, <2>3, <2>4, GoodRemove
  <2>6. /\ pte' = [m.pte EXCEPT ![e][UTEMP] = NoPte]
        /\ m.pte \in [Env -> [Slot -> Pte \cup {NoPte}]] /\ pte \in [Env -> [Slot -> Pte \cup {NoPte}]]
    BY <1>2, <1>5, <2>1, <2>4, <2>5 DEF Commit, Good, IsMem, MapInv, PagesOk, PageType
  <2>7. OnlyVa(e, UTEMP) /\ pte'[e][UTEMP] = NoPte
    <3>1. ASSUME NEW f \in Env, f # e PROVE pte'[f] = pte[f]
      <4>1. \A x \in Slot : m.pte[f][x] = pte[f][x]
        BY <2>2, <2>4, <3>1 DEF Frame
      <4> QED BY <2>6, <3>1, <4>1
    <3>2. \A v \in Va : v # UTEMP => m.pte[e][v] = pte[e][v]
      BY <2>2, <2>3, <2>4, Addresses DEF Frame
    <3>3. pte'[e][UTEMP] = NoPte /\ \A v \in Va : v # UTEMP => pte'[e][v] = m.pte[e][v]
      BY <2>3, <2>6, Addresses
    <3> QED BY <3>1, <3>2, <3>3 DEF OnlyVa
  <2>8. RoutineMoves(e, Idle) /\ op[e].at = "user"
    BY <1>2, <1>5 DEF InProgram, Abandon, RoutineMoves, Idle
  <2>9. op'[e] = Idle /\ ExcusesKept
    BY <2>8, RoutineMoved
  <2>10. RoutineScratch(e)'
    BY <2>7, <2>9 DEF RoutineScratch, Idle
  <2>11. StepOf(e, e, UTEMP) /\ ScratchAfter(e)
    BY <2>3, <2>7, <2>8, <2>10, RoutineOwn DEF Idle
  <2>12. Alone(e, UTEMP, {"D"})
    BY <2>7 DEF Alone
  <2> QED BY <2>3, <2>9, <2>11, <2>12, AloneStep DEF EntryOk
<1> QED BY <1>1, <1>3, <1>4, <1>5 DEF SpawnCall

(* init_stack allocates a page at UTEMP and writes it.                     *)
LEMMA InitStackAllocShares ==
  ASSUME ShareInv, MapInv', NEW e \in Env, NEW w, InitStackAlloc(e, w)
  PROVE  ShareCore'
<1>1. PICK m, perm, r : /\ m = SysMemAlloc(M, e, UTEMP, perm) /\ perm = {"D"}
                        /\ r = [at |-> "give", child |-> op[e].child, va |-> 0, perm |-> {}]
  OBVIOUS
<1>2. /\ op[e].at = "args" /\ InUser(e) /\ cow' = cow /\ MapInv
  BY DEF InitStackAlloc, Abandon, ShareInv
<1>3. UTEMP \in Va /\ perm \in Perms /\ UTEMP # UCOW /\ "D" \in perm
      /\ "COW" \notin perm /\ "LIBRARY" \notin perm
  BY <1>1, Addresses, MapAssumption DEF Perms
<1>4. pte' = m.pte
  BY <1>1 DEF InitStackAlloc, Commit, Written, Writes, Mem
<1>5. /\ OnlyVa(e, UTEMP) /\ Alone(e, UTEMP, perm)
      /\ AllocOk(M, e, UTEMP) => pte'[e][UTEMP] # NoPte /\ pte'[e][UTEMP].perm = perm
      /\ ~ AllocOk(M, e, UTEMP) => pte'[e][UTEMP] = NoPte \/ pte'[e][UTEMP] = pte[e][UTEMP]
  <2>1. Good(M, {}) /\ M.pte = pte
    BY <1>2, Now
  <2>2. m = SysMemAlloc(M, e, UTEMP, perm)
    BY <1>1
  <2> QED BY <1>2, <1>3, <1>4, <2>1, <2>2, AllocEffect
<1>6. CASE AllocOk(M, e, UTEMP)
  <2>1. RoutineMoves(e, r)
    BY <1>1, <1>2, <1>6 DEF InitStackAlloc, OpGoes, RoutineMoves
  <2>2. op'[e] = r /\ ExcusesKept
    BY <1>2, <2>1, RoutineMoved
  <2>3. RoutineScratch(e)'
    BY <1>1, <1>3, <1>5, <1>6, <2>2 DEF RoutineScratch, Private
  <2>4. StepOf(e, e, UTEMP) /\ ScratchAfter(e)
    BY <1>1, <1>3, <1>5, <2>1, <2>3, RoutineOwn
  <2> QED BY <1>3, <1>5, <2>2, <2>4, AloneStep DEF EntryOk
<1>7. CASE ~ AllocOk(M, e, UTEMP)
  <2>1. RoutineMoves(e, Idle)
    BY <1>2, <1>7 DEF InitStackAlloc, Abandon, RoutineMoves
  <2>2. op'[e] = Idle /\ ExcusesKept /\ pte[e][UTEMP] = NoPte
    BY <1>2, <2>1, RoutineMoved
  <2>3. RoutineScratch(e)'
    BY <1>5, <1>7, <2>2 DEF RoutineScratch, Idle
  <2>4. StepOf(e, e, UTEMP) /\ ScratchAfter(e)
    BY <1>3, <1>5, <2>1, <2>3, RoutineOwn DEF Idle
  <2> QED BY <1>3, <1>5, <2>2, <2>4, AloneStep DEF EntryOk
<1> QED BY <1>6, <1>7

(* It maps the page for its child.                                         *)
LEMMA InitStackGiven ==
  ASSUME ShareInv, MapInv', NEW e \in Env, InitStackMap(e), MapOk(M, e, UTEMP, op[e].child, USTACK)
  PROVE  ShareCore'
<1>1. PICK c, perm, n, r : /\ c = op[e].child /\ perm = {"D"}
                           /\ n = SysMemMap(M, e, UTEMP, c, USTACK, perm)
                           /\ r = [at |-> "given", child |-> c, va |-> 0, perm |-> {}]
  OBVIOUS
<1>2. /\ op[e].at = "give" /\ RoutineMoves(e, r) /\ pte' = n.pte /\ MapInv
      /\ MapOk(M, e, UTEMP, c, USTACK)
  BY <1>1 DEF InitStackMap, OpGoes, RoutineMoves, Commit, ShareInv
<1>3. /\ UTEMP \in Va /\ USTACK \in Va /\ USTACK \notin {UCOW, UTEMP}
      /\ perm \in Perms /\ "COW" \notin perm
  BY <1>1, Addresses, MapAssumption DEF Perms
<1>4. c \in Env
  BY <1>1, <1>2, ChildState
<1>5. OnlyVa(c, USTACK) /\ pte'[c][USTACK] = [page |-> pte[e][UTEMP].page, perm |-> perm]
  <2>1. n = SysMemMap(M, e, UTEMP, c, USTACK, perm) /\ MapInv /\ pte' = n.pte
    BY <1>1, <1>2
  <2>2. UTEMP \in Va /\ USTACK \in Va /\ perm \in Perms
    BY <1>3
  <2>3. /\ OnlyVa(c, USTACK)
        /\ MapOk(M, e, UTEMP, c, USTACK) =>
             /\ pte[e][UTEMP] # NoPte
             /\ pte'[c][USTACK] = [page |-> pte[e][UTEMP].page, perm |-> perm]
    BY <1>4, <2>1, <2>2, MapEffect
  <2> QED BY <1>2, <2>3
<1>6. op'[e] = r /\ ExcusesKept /\ cow[e] = NoCow /\ env_status[e] = "RUNNABLE"
  BY <1>2, RoutineMoved
<1>7. Private(pte[e][UTEMP])
  BY <1>2, Scratch DEF RoutineScratch
<1>8. c # e
  <2>1. env_status[c] = "NOT_RUNNABLE"
    BY <1>1, <1>2, ChildState
  <2> QED BY <1>6, <2>1
<1>9. RoutineScratch(e)'
  <2>1. pte'[e] = pte[e]
    BY <1>5, <1>8 DEF OnlyVa
  <2> QED BY <1>1, <1>6, <1>7, <2>1 DEF RoutineScratch
<1>10. StepOf(e, c, USTACK) /\ ScratchAfter(e)
  <2>1. op[e].at # "user" /\ c = op[e].child /\ r.at # "fill" /\ RoutineMoves(e, r)
    BY <1>1, <1>2
  <2>2. OnlyVa(c, USTACK) /\ USTACK \notin {UCOW, UTEMP}
    BY <1>3, <1>5
  <2> QED BY <1>9, <2>1, <2>2, RoutineChild
<1>11. Joins(c, USTACK)
  <2>1. ASSUME NEW y \in Env, NEW u \in Va, y # c \/ u # USTACK,
               pte'[y][u].page = pte'[c][USTACK].page
        PROVE  y = e /\ u = UTEMP
    <3>1. pte[y][u].page = pte[e][UTEMP].page
      BY <1>5, <2>1 DEF OnlyVa
    <3> QED BY <1>2, <1>3, <1>6, <1>7, <3>1, NobodyElse DEF NoCow
  <2>2. MayShare(c, USTACK, e, UTEMP)' /\ MayShare(e, UTEMP, c, USTACK)'
    BY <1>1, <1>6 DEF MayShare, Giving
  <2> QED BY <2>1, <2>2 DEF Joins
<1>12. EntryOk(USTACK, pte'[c][USTACK].perm) /\ pte'[c][USTACK].page = pte[e][UTEMP].page
  BY <1>1, <1>5 DEF EntryOk
<1> QED BY <1>3, <1>4, <1>6, <1>10, <1>11, <1>12, JoinStep

(* It cannot, and unmaps it.                                               *)
LEMMA InitStackGivesUp ==
  ASSUME ShareInv, MapInv', NEW e \in Env, InitStackMap(e),
         ~ MapOk(M, e, UTEMP, op[e].child, USTACK)
  PROVE  ShareCore'
<1>1. PICK c, perm, m : /\ c = op[e].child /\ perm = {"D"}
                        /\ m = SysMemMap(M, e, UTEMP, c, USTACK, perm)
  OBVIOUS
<1>2. /\ op[e].at = "give" /\ RoutineMoves(e, Idle) /\ MapInv
      /\ Commit(PageRemove(m, e, UTEMP)) /\ ~ MapOk(M, e, UTEMP, c, USTACK)
  BY <1>1 DEF InitStackMap, Abandon, RoutineMoves, ShareInv
<1>3. /\ UTEMP \in Va /\ USTACK \in Va /\ USTACK \notin {UCOW, UTEMP} /\ UCOW \in Va /\ UTEMP # UCOW
      /\ perm \in Perms /\ UTEMP \in Slot /\ USTACK \in Slot /\ USTACK \in Slot \ {UVPT}
  BY <1>1, Addresses, MapAssumption DEF Perms
<1>4. op'[e] = Idle /\ ExcusesKept /\ env_status[e] = "RUNNABLE" /\ cow'[e] = NoCow
      /\ (\A x \in Env : x # e => op'[x] = op[x]) /\ pte[e][UCOW] = NoPte
      /\ \A x \in Env : cow'[x] = cow[x]
  <2>1. \A x \in Env : cow'[x] = cow[x]
    BY <1>2 DEF RoutineMoves
  <2> QED BY <1>2, <2>1, RoutineMoved
<1>5. c \in Env /\ env_status[c] = "NOT_RUNNABLE"
  BY <1>1, <1>2, ChildState
<1>6. c # e /\ op[c].at = "user"
  BY <1>2, <1>4, <1>5 DEF MapInv, BuildsChild
<1>7. Good(M, {}) /\ TlbType /\ M.pte = pte
  BY <1>2, Now
<1>8. Maps(M, e, UTEMP, c, USTACK, perm, m)
  BY <1>1, <1>3, <1>5, <1>7 DEF Maps
<1>9. /\ Good(m, {})
      /\ MapOk(M, e, UTEMP, c, USTACK) =>
           m.pte[c][USTACK] = [page |-> M.pte[e][UTEMP].page, perm |-> perm]
      /\ ~ MapOk(M, e, UTEMP, c, USTACK) =>
           m.pte[c][USTACK] = NoPte \/ m.pte[c][USTACK] = M.pte[c][USTACK]
      /\ Frame(M, m, c, USTACK)
  BY <1>8, GoodMemMap
<1>10. PageRemove(m, e, UTEMP).pte = [m.pte EXCEPT ![e][UTEMP] = NoPte]
  BY <1>3, <1>7, <1>9, GoodRemove
<1>11. /\ pte' = [m.pte EXCEPT ![e][UTEMP] = NoPte]
       /\ m.pte \in [Env -> [Slot -> Pte \cup {NoPte}]] /\ pte \in [Env -> [Slot -> Pte \cup {NoPte}]]
  BY <1>2, <1>9, <1>10 DEF Commit, Good, IsMem, MapInv, PagesOk, PageType
<1>12. \A x \in Env : \A v \in Va : x # c => m.pte[x][v] = pte[x][v]
  BY <1>7, <1>9, Addresses DEF Frame
<1>13. \A v \in Va : v # USTACK => m.pte[c][v] = pte[c][v]
  BY <1>3, <1>5, <1>7, <1>9, Addresses DEF Frame
<1>14. m.pte[c][USTACK] = NoPte \/ m.pte[c][USTACK] = pte[c][USTACK]
  BY <1>2, <1>7, <1>9
<1>15. \A x \in Env : \A v \in Va :
         pte'[x][v] = IF x = e /\ v = UTEMP THEN NoPte ELSE m.pte[x][v]
  BY <1>3, <1>11, Addresses
<1>16. \A x \in Env : \A v \in Va : pte'[x][v] = pte[x][v] \/ pte'[x][v] = NoPte
  BY <1>12, <1>13, <1>14, <1>15
<1>17. \A x \in Env : x # e => Undisturbed(x)
  <2>1. \A x \in Env : op[x].at = "dup" => op[x].va \in Va
    BY <1>2 DEF MapInv, ForkOk
  <2>2. ASSUME NEW x \in Env, x # e, x # c PROVE Undisturbed(x)
    BY <1>3, <1>12, <1>15, <2>1, <2>2 DEF Undisturbed
  <2>3. Undisturbed(c)
    BY <1>3, <1>5, <1>6, <1>13, <1>15 DEF Undisturbed
  <2> QED BY <2>2, <2>3
<1>18. HandlerScratch(e)' /\ RoutineScratch(e)'
  <2>1. pte'[e][UTEMP] = NoPte /\ pte'[e][UCOW] = NoPte
    BY <1>3, <1>4, <1>6, <1>12, <1>15
  <2> QED BY <1>4, <2>1 DEF HandlerScratch, RoutineScratch, NoCow, Idle
<1>19. ScratchOk'
  BY <1>4, <1>17, <1>18, ScratchOfOne DEF ShareInv
<1>20. ASSUME NEW x \in Env, op'[x].at = "fill"
       PROVE  op'[x] = op[x] /\ pte'[op[x].child][UTEXT] = pte[op[x].child][UTEXT]
  <2>1. x # e /\ op'[x] = op[x] /\ op[x].at = "fill"
    BY <1>4, <1>20 DEF Idle
  <2>2. /\ op[x].child \in Env /\ env_status[op[x].child] = "NOT_RUNNABLE"
        /\ env_parent[op[x].child] = x /\ env_parent[c] = e
    BY <1>1, <1>2, <2>1 DEF MapInv, BuildsChild
  <2>3. op[x].child # e /\ op[x].child # c /\ UTEXT \in Va
    BY <1>4, <2>1, <2>2, Addresses
  <2> QED BY <1>12, <1>15, <2>1, <2>2, <2>3
<1> QED BY <1>4, <1>16, <1>19, <1>20, ShrinkStep

(* Once it has given the page away, or filled it, it unmaps it.            *)
LEMMA UnmapShares ==
  ASSUME ShareInv, MapInv', NEW e \in Env, InitStackUnmap(e) \/ LoadUnmap(e)
  PROVE  ShareCore'
<1>1. PICK r : r = [at |-> IF op[e].at = "given" THEN "load" ELSE "share",
                    child |-> op[e].child, va |-> 0, perm |-> {}]
  OBVIOUS
<1>2. /\ op[e].at \in {"given", "filled"} /\ RoutineMoves(e, r) /\ MapInv
      /\ Commit(PageRemove(M, e, UTEMP))
  BY <1>1 DEF InitStackUnmap, LoadUnmap, OpGoes, RoutineMoves, ShareInv
<1>3. UTEMP \in Va /\ UTEMP # UCOW
  BY Addresses, MapAssumption
<1>4. OnlyVa(e, UTEMP) /\ pte'[e][UTEMP] = NoPte
  BY <1>2, <1>3, RemoveEffect
<1>5. op'[e] = r /\ \A x \in Env : x # e => op'[x] = op[x]
  BY <1>2, RoutineMoved
<1>6. RoutineScratch(e)'
  BY <1>1, <1>4, <1>5 DEF RoutineScratch
<1>7. StepOf(e, e, UTEMP) /\ ScratchAfter(e)
  BY <1>1, <1>2, <1>3, <1>4, <1>6, RoutineOwn
<1>8. ExcusesKept
  <2> SUFFICES ASSUME NEW x \in Env, NEW y \in Env, NEW v \in Va, NEW u \in Va,
                      Private(pte'[x][v]), pte'[y][u].page = pte'[x][v].page,
                      MayShare(x, v, y, u)
               PROVE  MayShare(x, v, y, u)'
    BY DEF ExcusesKept
  <2>1. pte'[x][v] # NoPte /\ pte'[y][u] # NoPte
    BY <1>2, TablesTyped DEF Private, EntriesOk, NoPte
  <2>2. \A z \in Env : cow'[z] = cow[z]
    BY <1>2 DEF RoutineMoves
  <2>3. CASE x = y /\ (v = u \/ Remapped(x, v, u))
    BY <2>2, <2>3 DEF MayShare, Remapped
  <2>4. CASE Protecting(x, v, y, u)
    <3>1. x # e
      BY <1>2, <2>4 DEF Protecting
    <3> QED BY <1>5, <2>4, <3>1 DEF MayShare, Protecting
  <2>5. CASE Giving(x, v, y, u)
    <3>1. x # e
      BY <1>4, <2>1, <2>5 DEF Giving
    <3> QED BY <1>5, <2>5, <3>1 DEF MayShare, Giving
  <2>6. CASE Giving(y, u, x, v)
    <3>1. y # e
      BY <1>4, <2>1, <2>6 DEF Giving
    <3> QED BY <1>5, <2>6, <3>1 DEF MayShare, Giving
  <2> QED BY <2>3, <2>4, <2>5, <2>6 DEF MayShare
<1>9. Alone(e, UTEMP, {"D"})
  BY <1>4 DEF Alone
<1> QED BY <1>3, <1>7, <1>8, <1>9, AloneStep DEF EntryOk

(* A seek or a read of the file fails, and spawn gives up.                 *)
LEMMA LoadFailsShares ==
  ASSUME ShareInv, MapInv', NEW e \in Env, LoadFails(e)
  PROVE  ShareCore'
<1>1. RoutineMoves(e, Idle) /\ pte' = pte /\ op[e].at = "load"
  BY DEF LoadFails, Abandon, RoutineMoves
<1> QED BY <1>1, EndShares

(* spawn allocates the page of a segment in its child: nobody else has it. *)
LEMMA LoadAllocShares ==
  ASSUME ShareInv, MapInv', NEW e \in Env, NEW perm \in SegmentPerms, LoadAlloc(e, perm)
  PROVE  ShareCore'
<1>1. PICK c, n : c = op[e].child /\ n = SysMemAlloc(M, c, UTEXT, perm)
  OBVIOUS
<1>2. op[e].at = "load" /\ InUser(e) /\ cow' = cow /\ MapInv /\ pte' = n.pte
  BY <1>1 DEF LoadAlloc, Abandon, Commit, ShareInv
<1>3. /\ UTEXT \in Va /\ UTEXT \notin {UCOW, UTEMP} /\ UTEXT # USTACK
      /\ perm \in Perms /\ {"LIBRARY", "COW"} \cap perm = {}
  BY Addresses, MapAssumption DEF SegmentPerms, Perms
<1>4. c \in Env /\ env_status[c] = "NOT_RUNNABLE"
  BY <1>1, <1>2, ChildState
<1>5. /\ OnlyVa(c, UTEXT) /\ Alone(c, UTEXT, perm)
      /\ AllocOk(M, c, UTEXT) =>
           pte'[c][UTEXT] # NoPte /\ pte'[c][UTEXT].perm = perm /\ Lonely(c, UTEXT)
  BY <1>1, <1>2, <1>3, <1>4, Now, AllocEffect
<1>6. ASSUME NEW r, RoutineMoves(e, r), r.child = c \/ r = Idle, r.at \in {"fill", "share", "user"},
             r.at = "fill" => AllocOk(M, c, UTEXT)
      PROVE  ShareCore'
  <2>1. op'[e] = r /\ ExcusesKept /\ pte[e][UTEMP] = NoPte /\ env_status[e] = "RUNNABLE"
    BY <1>2, <1>6, RoutineMoved
  <2>2. pte'[e] = pte[e]
    BY <1>4, <1>5, <2>1 DEF OnlyVa
  <2>3. RoutineScratch(e)'
    BY <1>6, <2>1, <2>2 DEF RoutineScratch
  <2>4. ASSUME r.at = "fill" PROVE r.child = c /\ Unshared(c, UTEXT)'
    BY <1>3, <1>5, <1>6, <2>4 DEF Unshared, Lonely, Idle
  <2>5. StepOf(e, c, UTEXT) /\ ScratchAfter(e)
    BY <1>1, <1>2, <1>3, <1>5, <1>6, <2>3, <2>4, RoutineChild
  <2>6. EntryOk(UTEXT, perm)
    BY <1>3 DEF EntryOk
  <2> QED BY <1>3, <1>4, <1>5, <2>1, <2>5, <2>6, AloneStep
<1>7. CASE AllocOk(M, c, UTEXT)
  <2>1. PICK at \in {"fill", "share"} : OpGoes(e, at, c, 0, {})
    BY <1>1, <1>7 DEF LoadAlloc
  <2>2. PICK r : r = [at |-> at, child |-> c, va |-> 0, perm |-> {}]
    OBVIOUS
  <2>3. RoutineMoves(e, r)
    BY <1>2, <2>1, <2>2 DEF OpGoes, RoutineMoves
  <2> QED BY <1>6, <1>7, <2>2, <2>3
<1>8. CASE ~ AllocOk(M, c, UTEXT)
  <2>1. RoutineMoves(e, Idle)
    BY <1>1, <1>2, <1>8 DEF LoadAlloc, Abandon, RoutineMoves
  <2> QED BY <1>6, <2>1 DEF Idle
<1> QED BY <1>7, <1>8

(* It maps the page for itself, to fill it.                                *)
LEMMA LoadFilled ==
  ASSUME ShareInv, MapInv', NEW e \in Env, LoadFill(e, Argv),
         MapOk(M, op[e].child, UTEXT, e, UTEMP)
  PROVE  ShareCore'
<1>1. PICK c, perm, n, r : /\ c = op[e].child /\ perm = {"D"}
                           /\ n = SysMemMap(M, c, UTEXT, e, UTEMP, perm)
                           /\ r = [at |-> "filled", child |-> c, va |-> 0, perm |-> {}]
  OBVIOUS
<1>2. /\ op[e].at = "fill" /\ RoutineMoves(e, r) /\ pte' = n.pte /\ MapInv
      /\ MapOk(M, c, UTEXT, e, UTEMP)
  BY <1>1 DEF LoadFill, OpGoes, RoutineMoves, Commit, Written, Writes, Mem, ShareInv
<1>3. /\ UTEMP \in Va /\ UTEXT \in Va /\ UTEMP # UCOW /\ UTEMP # USTACK /\ perm \in Perms
      /\ "LIBRARY" \notin perm
  BY <1>1, Addresses, MapAssumption DEF Perms
<1>4. c \in Env /\ env_status[c] = "NOT_RUNNABLE" /\ env_parent[c] = e
  BY <1>1, <1>2 DEF MapInv, BuildsChild
<1>5. OnlyVa(e, UTEMP) /\ pte[c][UTEXT] # NoPte
      /\ pte'[e][UTEMP] = [page |-> pte[c][UTEXT].page, perm |-> perm]
  <2>1. /\ OnlyVa(e, UTEMP)
        /\ MapOk(M, c, UTEXT, e, UTEMP) =>
             /\ pte[c][UTEXT] # NoPte
             /\ pte'[e][UTEMP] = [page |-> pte[c][UTEXT].page, perm |-> perm]
    <3>1. n = SysMemMap(M, c, UTEXT, e, UTEMP, perm) /\ MapInv /\ pte' = n.pte
      BY <1>1, <1>2
    <3>2. UTEMP \in Va /\ UTEXT \in Va /\ perm \in Perms
      BY <1>3
    <3> QED BY <1>4, <3>1, <3>2, MapEffect
  <2> QED BY <1>2, <2>1
<1>6. /\ op'[e] = r /\ ExcusesKept /\ env_status[e] = "RUNNABLE"
      /\ \A x \in Env : x # e => op'[x] = op[x]
  BY <1>2, RoutineMoved
<1>7. Unshared(c, UTEXT)
  BY <1>1, <1>2 DEF ShareInv, FillOk
<1>8. Private(pte'[e][UTEMP])
  BY <1>1, <1>3, <1>5 DEF Private, NoPte
<1>9. RoutineScratch(e)'
  BY <1>1, <1>6, <1>8 DEF RoutineScratch
<1>10. StepOf(e, e, UTEMP) /\ ScratchAfter(e)
  BY <1>1, <1>2, <1>3, <1>5, <1>9, RoutineOwn
<1>11. SharingOk'
  <2>1. ASSUME NEW y \in Env, NEW u \in Va, y # e \/ u # UTEMP,
               pte'[y][u].page = pte'[e][UTEMP].page
        PROVE  y = c /\ u = UTEXT
    <3>1. pte[y][u].page = pte[c][UTEXT].page
      BY <1>5, <2>1 DEF OnlyVa
    <3> QED BY <1>7, <3>1 DEF Unshared
  <2>2. MayShare(c, UTEXT, e, UTEMP)' /\ MayShare(e, UTEMP, c, UTEXT)'
    BY <1>1, <1>6 DEF MayShare, Giving
  <2>3. Joins(e, UTEMP)
    BY <2>1, <2>2 DEF Joins
  <2> QED BY <1>3, <1>5, <1>6, <2>3, SharingJoins DEF ShareInv
<1>12. PermsOk'
  <2>1. EntryOk(UTEMP, pte'[e][UTEMP].perm)
    BY <1>1, <1>3, <1>5 DEF EntryOk
  <2> QED BY <1>3, <1>5, <2>1, PermsStay DEF ShareInv
<1>13. ScratchOk'
  BY <1>10, StepScratch DEF ShareInv
<1>14. FillOk'
  <2> SUFFICES ASSUME NEW x \in Env, op'[x].at = "fill" PROVE Unshared(op[x].child, UTEXT)'
    BY DEF FillOk
  <2>1. PICK d : d = op[x].child
    OBVIOUS
  <2>2. x # e /\ op'[x].child = d /\ op[x].at = "fill"
    BY <1>1, <1>6, <2>1
  <2>3. d \in Env /\ env_status[d] = "NOT_RUNNABLE" /\ env_parent[d] = x /\ Unshared(d, UTEXT)
    BY <2>1, <2>2 DEF ShareInv, MapInv, BuildsChild, FillOk
  <2>4. pte'[d] = pte[d] /\ c # d
    BY <1>4, <1>5, <1>6, <2>2, <2>3 DEF OnlyVa
  <2>5. ASSUME NEW f \in Env, NEW u \in Va, pte'[f][u].page = pte'[d][UTEXT].page
        PROVE  f = d /\ u = UTEXT
    <3>1. CASE f = e /\ u = UTEMP
      BY <1>3, <1>4, <1>5, <2>3, <2>4, <2>5, <3>1 DEF Unshared
    <3>2. CASE f # e \/ u # UTEMP
      BY <1>5, <2>3, <2>4, <2>5, <3>2 DEF Unshared, OnlyVa
    <3> QED BY <3>1, <3>2
  <2> QED BY <2>2, <2>3, <2>4, <2>5 DEF Unshared
<1> QED BY <1>11, <1>12, <1>13, <1>14 DEF ShareCore

(* It cannot, and unmaps the page in the child.                            *)
LEMMA LoadGivesUp ==
  ASSUME ShareInv, MapInv', NEW e \in Env, LoadFill(e, Argv),
         ~ MapOk(M, op[e].child, UTEXT, e, UTEMP)
  PROVE  ShareCore'
<1>1. PICK c, perm, m : /\ c = op[e].child /\ perm = {"D"}
                        /\ m = SysMemMap(M, c, UTEXT, e, UTEMP, perm)
  OBVIOUS
<1>2. /\ op[e].at = "fill" /\ RoutineMoves(e, Idle) /\ MapInv
      /\ Commit(PageRemove(m, c, UTEXT)) /\ ~ MapOk(M, c, UTEXT, e, UTEMP)
  BY <1>1 DEF LoadFill, Abandon, RoutineMoves, ShareInv
<1>3. /\ UTEMP \in Va /\ UTEXT \in Va /\ UTEXT \notin {UCOW, UTEMP} /\ UCOW \in Va /\ UTEMP # UCOW
      /\ perm \in Perms /\ UTEMP \in Slot /\ UTEXT \in Slot /\ UTEMP \in Slot \ {UVPT}
  BY <1>1, Addresses, MapAssumption DEF Perms
<1>4. op'[e] = Idle /\ ExcusesKept /\ env_status[e] = "RUNNABLE" /\ cow'[e] = NoCow
      /\ (\A x \in Env : x # e => op'[x] = op[x]) /\ pte[e][UCOW] = NoPte /\ pte[e][UTEMP] = NoPte
      /\ \A x \in Env : cow'[x] = cow[x]
  <2>1. \A x \in Env : cow'[x] = cow[x]
    BY <1>2 DEF RoutineMoves
  <2> QED BY <1>2, <2>1, RoutineMoved
<1>5. c \in Env /\ env_status[c] = "NOT_RUNNABLE" /\ env_parent[c] = e
  BY <1>1, <1>2 DEF MapInv, BuildsChild
<1>6. c # e /\ op[c].at = "user"
  BY <1>2, <1>4, <1>5 DEF MapInv, BuildsChild
<1>7. Good(M, {}) /\ TlbType /\ M.pte = pte
  BY <1>2, Now
<1>8. Maps(M, c, UTEXT, e, UTEMP, perm, m)
  BY <1>1, <1>3, <1>5, <1>7 DEF Maps
<1>9. /\ Good(m, {})
      /\ MapOk(M, c, UTEXT, e, UTEMP) =>
           m.pte[e][UTEMP] = [page |-> M.pte[c][UTEXT].page, perm |-> perm]
      /\ ~ MapOk(M, c, UTEXT, e, UTEMP) =>
           m.pte[e][UTEMP] = NoPte \/ m.pte[e][UTEMP] = M.pte[e][UTEMP]
      /\ Frame(M, m, e, UTEMP)
  BY <1>8, GoodMemMap
<1>10. PageRemove(m, c, UTEXT).pte = [m.pte EXCEPT ![c][UTEXT] = NoPte]
  BY <1>3, <1>5, <1>7, <1>9, GoodRemove
<1>11. /\ pte' = [m.pte EXCEPT ![c][UTEXT] = NoPte]
       /\ m.pte \in [Env -> [Slot -> Pte \cup {NoPte}]] /\ pte \in [Env -> [Slot -> Pte \cup {NoPte}]]
  BY <1>2, <1>9, <1>10 DEF Commit, Good, IsMem, MapInv, PagesOk, PageType
<1>12. \A x \in Env : \A v \in Va : x # e => m.pte[x][v] = pte[x][v]
  BY <1>7, <1>9, Addresses DEF Frame
<1>13. \A v \in Va : m.pte[e][v] = pte[e][v]
  <2>1. \A v \in Va : v # UTEMP => m.pte[e][v] = pte[e][v]
    BY <1>3, <1>7, <1>9, Addresses DEF Frame
  <2>2. m.pte[e][UTEMP] = pte[e][UTEMP]
    BY <1>2, <1>4, <1>7, <1>9
  <2> QED BY <2>1, <2>2
<1>14. \A x \in Env : \A v \in Va :
         pte'[x][v] = IF x = c /\ v = UTEXT THEN NoPte ELSE pte[x][v]
  <2>1. \A x \in Env : \A v \in Va :
          pte'[x][v] = IF x = c /\ v = UTEXT THEN NoPte ELSE m.pte[x][v]
    BY <1>3, <1>5, <1>11, Addresses
  <2> QED BY <1>12, <1>13, <2>1
<1>15. \A x \in Env : x # e => Undisturbed(x)
  <2>1. \A x \in Env : op[x].at = "dup" => op[x].va \in Va
    BY <1>2 DEF MapInv, ForkOk
  <2>2. op[c].at # "dup"
    BY <1>6
  <2> QED BY <1>3, <1>14, <2>1, <2>2 DEF Undisturbed
<1>16. HandlerScratch(e)' /\ RoutineScratch(e)'
  <2>1. pte'[e][UTEMP] = NoPte /\ pte'[e][UCOW] = NoPte
    BY <1>3, <1>4, <1>6, <1>14
  <2> QED BY <1>4, <2>1 DEF HandlerScratch, RoutineScratch, NoCow, Idle
<1>17. ScratchOk'
  BY <1>4, <1>15, <1>16, ScratchOfOne DEF ShareInv
<1>18. ASSUME NEW x \in Env, op'[x].at = "fill"
       PROVE  op'[x] = op[x] /\ pte'[op[x].child][UTEXT] = pte[op[x].child][UTEXT]
  <2>1. x # e /\ op'[x] = op[x] /\ op[x].at = "fill"
    BY <1>4, <1>18 DEF Idle
  <2>2. op[x].child \in Env /\ op[x].child # c
    BY <1>2, <1>5, <2>1 DEF MapInv, BuildsChild
  <2> QED BY <1>3, <1>14, <2>1, <2>2
<1>19. \A x \in Env : \A v \in Va : pte'[x][v] = pte[x][v] \/ pte'[x][v] = NoPte
  BY <1>14
<1> QED BY <1>4, <1>17, <1>18, <1>19, ShrinkStep

(* A routine maps its page at v also for its child, at v, with perm.       *)
MapsForChild(e, v, c, perm, n) ==
  /\ n = SysMemMap(M, e, v, c, v, perm) /\ pte' = n.pte
  /\ v \in Va /\ pte[e][v] # NoPte /\ perm \in Perms
  /\ op[e].at \in {"fork", "share"} /\ c = op[e].child

LEMMA ChildEntry ==
  ASSUME ShareInv, NEW e \in Env, NEW r, RoutineMoves(e, r), NEW v, NEW c, NEW perm, NEW n,
         MapsForChild(e, v, c, perm, n)
  PROVE  /\ c \in Env /\ c # e /\ pte'[e] = pte[e] /\ OnlyVa(c, v)
         /\ RoutineScratch(e)' /\ r.at # "fill" => StepOf(e, c, v) /\ ScratchAfter(e)
         /\ MapOk(M, e, v, c, v) => pte'[c][v] = [page |-> pte[e][v].page, perm |-> perm]
         /\ ~ MapOk(M, e, v, c, v) => Alone(c, v, {"D"})
<1>1. MapInv /\ pte[e][UCOW] = NoPte /\ pte[e][UTEMP] = NoPte /\ env_status[e] = "RUNNABLE"
  BY RoutineMoved DEF ShareInv, MapsForChild
<1>2. v \in Va /\ v \notin {UCOW, UTEMP} /\ perm \in Perms /\ pte' = n.pte
      /\ n = SysMemMap(M, e, v, c, v, perm) /\ op[e].at # "user" /\ c = op[e].child
  BY <1>1 DEF MapsForChild
<1>3. c \in Env
  BY <1>1, <1>2, ChildState
<1>4. /\ OnlyVa(c, v)
      /\ MapOk(M, e, v, c, v) => /\ pte[e][v] # NoPte
                                 /\ pte'[c][v] = [page |-> pte[e][v].page, perm |-> perm]
      /\ ~ MapOk(M, e, v, c, v) => pte'[c][v] = NoPte \/ pte'[c][v] = pte[c][v]
  BY <1>1, <1>2, <1>3, MapEffect
<1>5. c # e
  <2>1. env_status[c] = "NOT_RUNNABLE"
    BY <1>1, <1>2, ChildState
  <2> QED BY <1>1, <2>1
<1>6. pte'[e] = pte[e]
  BY <1>4, <1>5 DEF OnlyVa
<1>7. ~ MapOk(M, e, v, c, v) => Alone(c, v, {"D"})
  BY <1>4 DEF Alone
<1>8. ASSUME RoutineScratch(e)', r.at # "fill" PROVE StepOf(e, c, v) /\ ScratchAfter(e)
  BY <1>2, <1>4, <1>8, RoutineChild
<1> QED BY <1>3, <1>4, <1>5, <1>6, <1>7, <1>8

(* Afterwards the parent's own entry is the only one that may be private.  *)
LEMMA ChildJoins ==
  ASSUME ShareInv, NEW e \in Env, NEW r, RoutineMoves(e, r), NEW v, NEW c, NEW perm, NEW n,
         MapsForChild(e, v, c, perm, n), OnlyVa(c, v),
         pte'[c][v] = [page |-> pte[e][v].page, perm |-> perm],
         "D" \notin perm \/ "LIBRARY" \in perm,
         Private(pte[e][v]) => MayShare(e, v, c, v)'
  PROVE  Joins(c, v)
<1>1. v \in Va /\ op[e].at \notin {"given", "filled"} /\ env_status[e] = "RUNNABLE" /\ cow[e] = NoCow
  BY RoutineMoved DEF MapsForChild
<1>2. ~ Private(pte'[c][v])
  BY DEF Private
<1>3. ASSUME NEW y \in Env, NEW u \in Va, y # c \/ u # v,
             pte'[y][u].page = pte'[c][v].page, Private(pte'[y][u])
      PROVE  MayShare(y, u, c, v)'
  <2>1. pte'[y][u] = pte[y][u] /\ pte[e][v].page = pte[y][u].page
    BY <1>3 DEF OnlyVa
  <2>2. y = e /\ u = v
    BY <1>1, <1>3, <2>1, OthersPrivate
  <2> QED BY <1>3, <2>1, <2>2
<1> QED BY <1>2, <1>3 DEF Joins

(* spawn shares a page with PTE_LIBRARY.                                   *)
LEMMA ShareLibraryShares ==
  ASSUME ShareInv, MapInv', NEW e \in Env, ShareLibrary(e)
  PROVE  ShareCore'
<1>1. PICK v, c, perm, n, r :
        /\ v = (CHOOSE x \in ToShare(e) : \A y \in ToShare(e) : x <= y)
        /\ c = op[e].child /\ perm = pte[e][v].perm /\ n = SysMemMap(M, e, v, c, v, perm)
        /\ r = IF MapOk(M, e, v, c, v)
               THEN [at |-> "share", child |-> c, va |-> v + 1, perm |-> {}] ELSE Idle
  OBVIOUS
<1>2. /\ op[e].at = "share" /\ InUser(e) /\ ToShare(e) # {} /\ pte' = n.pte /\ MapInv
      /\ cow' = cow /\ op' = [op EXCEPT ![e] = r]
  BY <1>1 DEF ShareLibrary, Commit, OpGoes, Abandon, ShareInv
<1>3. v \in ToShare(e) /\ v \in Va
  <2>1. ToShare(e) \subseteq op[e].va .. UXSTACK
    BY DEF ToShare
  <2> QED BY <1>1, <1>2, <2>1, ScanFinds
<1>4. "LIBRARY" \in perm /\ pte[e][v] # NoPte /\ pte[e][v] \in Pte
  <2>1. "LIBRARY" \in pte[e][v].perm
    BY <1>3 DEF ToShare
  <2>2. pte[e][v] # NoPte
    BY <2>1 DEF NoPte
  <2>3. pte[e][v] \in Pte \cup {NoPte}
    BY <1>2, <1>3, Addresses DEF MapInv, PagesOk, PageType
  <2> QED BY <1>1, <2>1, <2>2, <2>3
<1>5. RoutineMoves(e, r) /\ MapsForChild(e, v, c, perm, n)
  BY <1>1, <1>2, <1>3, <1>4 DEF RoutineMoves, MapsForChild, Pte
<1>6. op'[e] = r /\ pte[e][UTEMP] = NoPte /\ ExcusesKept
  BY <1>2, <1>5, RoutineMoved
<1>7. /\ c \in Env /\ c # e /\ pte'[e] = pte[e] /\ OnlyVa(c, v)
      /\ RoutineScratch(e)' /\ r.at # "fill" => StepOf(e, c, v) /\ ScratchAfter(e)
      /\ MapOk(M, e, v, c, v) => pte'[c][v] = [page |-> pte[e][v].page, perm |-> perm]
      /\ ~ MapOk(M, e, v, c, v) => Alone(c, v, {"D"})
  BY <1>5, ChildEntry
<1>8. RoutineScratch(e)'
  BY <1>1, <1>6, <1>7 DEF RoutineScratch, Idle
<1>9. StepOf(e, c, v) /\ ScratchAfter(e)
  BY <1>1, <1>7, <1>8 DEF Idle
<1>10. CASE MapOk(M, e, v, c, v)
  <2>1. Joins(c, v)
    <3>1. ~ Private(pte[e][v])
      BY <1>1, <1>4 DEF Private
    <3> QED BY <1>4, <1>5, <1>7, <1>10, <3>1, ChildJoins
  <2>2. EntryOk(v, pte'[c][v].perm) /\ pte'[c][v].page = pte[e][v].page
    <3>1. EntryOk(v, perm)
      BY <1>1, <1>3, <1>4 DEF ShareInv, PermsOk
    <3> QED BY <1>7, <1>10, <3>1
  <2> QED BY <1>3, <1>6, <1>7, <1>9, <2>1, <2>2, JoinStep
<1>11. CASE ~ MapOk(M, e, v, c, v)
  BY <1>3, <1>6, <1>7, <1>9, <1>11, AloneStep DEF EntryOk
<1> QED BY <1>10, <1>11

(* What duppage maps in the child is not private.                          *)
LEMMA DuppedPerm ==
  ASSUME NEW old \in Perms, NEW v, EntryOk(v, old)
  PROVE  /\ ChildPerm(old) \in Perms /\ EntryOk(v, ChildPerm(old))
         /\ "D" \notin ChildPerm(old) \/ "LIBRARY" \in ChildPerm(old)
         /\ IsPrivate(old) => "D" \in old /\ "LIBRARY" \notin old /\ "D" \notin ChildPerm(old)
         /\ ~ IsPrivate(old) => "D" \notin old \/ "LIBRARY" \in old
<1>1. CASE IsPrivate(old)
  BY <1>1 DEF ChildPerm, IsPrivate, EntryOk, Perms
<1>2. CASE ~ IsPrivate(old)
  BY <1>2 DEF ChildPerm, IsPrivate, EntryOk
<1> QED BY <1>1, <1>2

(* duppage maps a page of the parent in the child.                         *)
LEMMA DupChildShares ==
  ASSUME ShareInv, MapInv', NEW e \in Env, DupChild(e)
  PROVE  ShareCore'
<1>1. PICK v, c, old, perm, n, r :
        /\ v = NextVisit(e, USTACK) /\ c = op[e].child /\ old = pte[e][v].perm
        /\ perm = ChildPerm(old) /\ n = SysMemMap(M, e, v, c, v, perm)
        /\ r = IF ~ MapOk(M, e, v, c, v) THEN Idle
               ELSE IF IsPrivate(old)
               THEN [at |-> "dup", child |-> c, va |-> v, perm |-> perm]
               ELSE [at |-> "fork", child |-> c, va |-> v + 1, perm |-> {}]
  OBVIOUS
<1>2. /\ op[e].at = "fork" /\ InUser(e) /\ ToVisit(e, USTACK) # {} /\ pte' = n.pte /\ MapInv
  BY <1>1 DEF DupChild, Commit, ShareInv
<1>3. RoutineMoves(e, r)
  <2>1. CASE ~ MapOk(M, e, v, c, v)
    <3>1. UserPanics(e) /\ r = Idle
      BY <1>1, <2>1 DEF DupChild
    <3> QED BY <1>2, <3>1, PanicMoves
  <2>2. CASE MapOk(M, e, v, c, v)
    BY <1>1, <1>2, <2>2 DEF DupChild, OpGoes, RoutineMoves
  <2> QED BY <2>1, <2>2
<1>4. v \in ToVisit(e, USTACK) /\ v \in Va
  <2>1. ToVisit(e, USTACK) \subseteq op[e].va .. UXSTACK
    BY <1>2, MapAssumption DEF ToVisit, Va, MapInv, RoutineType
  <2> QED BY <1>1, <1>2, <2>1, ScanFinds DEF NextVisit
<1>5. pte[e][v] # NoPte /\ v <= USTACK /\ pte[e][v] \in Pte
  <2>1. pte[e][v] # NoPte /\ v \in op[e].va .. USTACK
    BY <1>4 DEF ToVisit
  <2>2. pte[e][v] \in Pte \cup {NoPte}
    BY <1>2, <1>4, Addresses DEF MapInv, PagesOk, PageType
  <2> QED BY <2>1, <2>2
<1>6. /\ op'[e] = r /\ pte[e][UTEMP] = NoPte /\ pte[e][UCOW] = NoPte /\ ExcusesKept
      /\ cow'[e] = NoCow
  BY <1>2, <1>3, RoutineMoved
<1>7. /\ perm \in Perms /\ EntryOk(v, perm) /\ ("D" \notin perm \/ "LIBRARY" \in perm)
      /\ IsPrivate(old) => "D" \in old /\ "LIBRARY" \notin old /\ "D" \notin perm
      /\ ~ IsPrivate(old) => "D" \notin old \/ "LIBRARY" \in old
  <2>1. old \in Perms /\ EntryOk(v, old)
    BY <1>1, <1>4, <1>5 DEF ShareInv, PermsOk, Pte
  <2> QED BY <1>1, <2>1, DuppedPerm
<1>8. MapsForChild(e, v, c, perm, n)
  BY <1>1, <1>2, <1>4, <1>5, <1>7 DEF MapsForChild
<1>9. /\ c \in Env /\ c # e /\ pte'[e] = pte[e] /\ OnlyVa(c, v)
      /\ RoutineScratch(e)' /\ r.at # "fill" => StepOf(e, c, v) /\ ScratchAfter(e)
      /\ MapOk(M, e, v, c, v) => pte'[c][v] = [page |-> pte[e][v].page, perm |-> perm]
      /\ ~ MapOk(M, e, v, c, v) => Alone(c, v, {"D"})
  BY <1>3, <1>8, ChildEntry
<1>10. RoutineScratch(e)'
  <2>1. CASE r.at # "dup"
    BY <1>1, <1>6, <1>9, <2>1 DEF RoutineScratch, Idle
  <2>2. CASE r.at = "dup"
    <3>1. r = [at |-> "dup", child |-> c, va |-> v, perm |-> perm] /\ IsPrivate(old)
      BY <1>1, <2>2 DEF Idle
    <3>2. Private(pte[e][v]) /\ v # UCOW /\ "D" \notin perm
      BY <1>1, <1>5, <1>6, <1>7, <3>1 DEF Private
    <3> QED BY <1>5, <1>6, <1>9, <3>1, <3>2 DEF RoutineScratch
  <2> QED BY <2>1, <2>2
<1>13. r.at # "fill"
  BY <1>1 DEF Idle
<1>11. CASE MapOk(M, e, v, c, v)
  <2>1. ASSUME Private(pte[e][v]) PROVE MayShare(e, v, c, v)'
    <3>1. IsPrivate(old)
      BY <1>1, <1>7, <2>1 DEF Private
    <3>2. op'[e] = [at |-> "dup", child |-> c, va |-> v, perm |-> perm]
      BY <1>1, <1>6, <1>11, <3>1
    <3> QED BY <3>2 DEF MayShare, Protecting
  <2>2. Joins(c, v)
    BY <1>3, <1>7, <1>8, <1>9, <1>11, <2>1, ChildJoins
  <2>3. EntryOk(v, pte'[c][v].perm) /\ pte'[c][v].page = pte[e][v].page
    BY <1>7, <1>9, <1>11
  <2> QED BY <1>4, <1>6, <1>9, <1>10, <1>13, <2>2, <2>3, JoinStep
<1>12. CASE ~ MapOk(M, e, v, c, v)
  BY <1>4, <1>6, <1>9, <1>10, <1>12, <1>13, AloneStep DEF EntryOk
<1> QED BY <1>11, <1>12

(* duppage makes the parent's entry copy-on-write, too.                    *)
LEMMA DupParentShares ==
  ASSUME ShareInv, MapInv', NEW e \in Env, DupParent(e)
  PROVE  ShareCore'
<1>1. PICK v, perm, n, r :
        /\ v = op[e].va /\ perm = op[e].perm /\ n = SysMemMap(M, e, v, e, v, perm)
        /\ r = [at |-> "fork", child |-> op[e].child, va |-> v + 1, perm |-> {}]
  OBVIOUS
<1>2. /\ op[e].at = "dup" /\ pte' = n.pte /\ MapInv /\ RoutineMoves(e, r)
  BY <1>1 DEF DupParent, Commit, OpGoes, RoutineMoves, ShareInv
<1>3. /\ v \in Va /\ v \notin {UCOW, UTEMP} /\ pte[e][v] # NoPte /\ Private(pte[e][v])
      /\ "D" \notin perm /\ pte[e][UTEMP] = NoPte
  BY <1>1, <1>2, Scratch DEF RoutineScratch
<1>4. perm \in Perms /\ UTEMP \in Va
  BY <1>1, <1>2, Addresses DEF MapInv, RoutineType
<1>5. OnlyVa(e, v) /\ pte'[e][v] = [page |-> pte[e][v].page, perm |-> perm]
  <2>1. MapOk(M, e, v, e, v)
    BY <1>3 DEF MapOk, InsertOk, SamePage, M, Mem
  <2>2. /\ OnlyVa(e, v)
        /\ MapOk(M, e, v, e, v) => /\ pte[e][v] # NoPte
                                   /\ pte'[e][v] = [page |-> pte[e][v].page, perm |-> perm]
    BY <1>1, <1>2, <1>3, <1>4, MapEffect
  <2> QED BY <2>1, <2>2
<1>6. op'[e] = r /\ cow[e] = NoCow /\ env_status[e] = "RUNNABLE"
      /\ \A x \in Env : x # e => op'[x] = op[x]
  BY <1>2, RoutineMoved
<1>7. RoutineScratch(e)'
  <2>1. pte'[e][UTEMP] = NoPte
    BY <1>3, <1>4, <1>5 DEF OnlyVa
  <2> QED BY <1>1, <1>6, <2>1 DEF RoutineScratch
<1>8. StepOf(e, e, v) /\ ScratchAfter(e)
  BY <1>1, <1>2, <1>3, <1>5, <1>7, RoutineOwn
<1>9. ExcusesKept
  <2> SUFFICES ASSUME NEW x \in Env, NEW y \in Env, NEW z \in Va, NEW u \in Va,
                      Private(pte'[x][z]), MayShare(x, z, y, u)
               PROVE  MayShare(x, z, y, u)'
    BY DEF ExcusesKept
  <2>1. \A f \in Env : cow'[f] = cow[f]
    BY <1>2 DEF RoutineMoves
  <2>2. CASE Protecting(x, z, y, u)
    <3>1. x # e
      BY <1>1, <1>3, <1>5, <2>2 DEF Protecting, Private
    <3> QED BY <1>6, <2>2, <3>1 DEF MayShare, Protecting
  <2>3. CASE ~ Protecting(x, z, y, u)
    BY <1>2, <1>6, <2>1, <2>3 DEF MayShare, Remapped, Giving
  <2> QED BY <2>2, <2>3
<1>10. Joins(e, v)
  <2>1. ~ Private(pte'[e][v])
    BY <1>3, <1>5 DEF Private
  <2>2. ASSUME NEW y \in Env, NEW u \in Va, y # e \/ u # v,
               pte'[y][u].page = pte'[e][v].page, Private(pte'[y][u])
        PROVE  FALSE
    <3>1. pte'[y][u] = pte[y][u] /\ pte[e][v].page = pte[y][u].page
      BY <1>5, <2>2 DEF OnlyVa
    <3> QED BY <1>2, <1>3, <1>6, <2>2, <3>1, OthersPrivate
  <2> QED BY <2>1, <2>2 DEF Joins
<1>11. EntryOk(v, pte'[e][v].perm) /\ pte'[e][v].page = pte[e][v].page
  <2>1. "COW" \in perm
    BY <1>1, <1>2 DEF MapInv, ForkOk
  <2> QED BY <1>3, <1>5, <2>1 DEF EntryOk
<1> QED BY <1>3, <1>8, <1>9, <1>10, <1>11, JoinStep

(* wait reaps a zombie.                                                    *)
LEMMA ReapShares ==
  ASSUME ShareInv, MapInv', NEW e \in Env, NEW z \in Env, Reap(e, z)
  PROVE  ShareCore'
<1>1. /\ env_status[z] = "ZOMBIE" /\ Commit(EnvFreed(z))
      /\ env_vars' = [env_vars EXCEPT ![z] = 0] /\ env_status' = [env_status EXCEPT ![z] = "FREE"]
      /\ UNCHANGED <<env_asid, op, cow>> /\ MapInv
  BY DEF Reap, ShareInv
<1>2. /\ \A f \in Env : f # z => pte'[f] = pte[f]
      /\ \A s \in Slot : pte'[z][s] = NoPte
  BY <1>1, EnvFreedStep
<1>3. op[z].at = "user" /\ cow[z] = NoCow
  BY <1>1 DEF MapInv, BuildsChild, HandlerOk
<1>4. HandlerScratch(z)' /\ RoutineScratch(z)'
  BY <1>1, <1>2, <1>3, Addresses DEF HandlerScratch, RoutineScratch, NoCow
<1>5. \A f \in Env : f # z => cow'[f] = cow[f] /\ op'[f] = op[f] /\ Undisturbed(f)
  BY <1>1, <1>2 DEF Undisturbed
<1>6. ScratchOk'
  BY <1>4, <1>5, ScratchOfOne DEF ShareInv
<1>7. \A x \in Env : \A v \in Va : pte'[x][v] = pte[x][v] \/ pte'[x][v] = NoPte
  BY <1>2, Addresses
<1>8. ExcusesKept
  BY <1>1, ExcusesStay
<1>9. ASSUME NEW x \in Env, op'[x].at = "fill"
      PROVE  op'[x] = op[x] /\ pte'[op[x].child][UTEXT] = pte[op[x].child][UTEXT]
  <2>1. op'[x] = op[x]
    BY <1>1
  <2>2. op[x].child \in Env /\ env_status[op[x].child] = "NOT_RUNNABLE"
    BY <1>1, <1>9, <2>1 DEF MapInv, BuildsChild
  <2>3. op[x].child # z
    BY <1>1, <2>2
  <2> QED BY <1>2, <2>1, <2>2, <2>3
<1> QED BY <1>6, <1>7, <1>8, <1>9, ShrinkStep

-----------------------------------------------------------------------------
(* The theorems.                                                           *)

(* The first env's stack is its only page.                                 *)
LEMMA InitShares == Init => ShareInv
<1> SUFFICES ASSUME Init PROVE ShareInv
  OBVIOUS
<1>1. MapInv
  BY InitMapInv
<1>2. /\ op = [e \in Env |-> Idle] /\ cow = [e \in Env |-> NoCow]
      /\ pte = [e \in Env |-> [s \in Slot |-> IF e = 0 THEN BootPte(s) ELSE NoPte]]
  BY DEF Init
<1>3. \A e \in Env : op[e].at = "user" /\ cow[e] = NoCow
  BY <1>2 DEF Idle
<1>4. {UCOW, UTEMP, USTACK} \subseteq Va /\ UCOW # USTACK /\ UTEMP # USTACK /\ Va \subseteq Slot
  BY Addresses, MapAssumption DEF Va
<1>5. ASSUME NEW e \in Env, NEW v \in Va
      PROVE  /\ e = 0 /\ v = USTACK => pte[e][v].page = 4 /\ pte[e][v].perm = {"D"}
             /\ e # 0 \/ v # USTACK => pte[e][v] = NoPte
  <2>1. PDX[USTACK] \notin Va /\ UVPT \notin Va
    BY <1>4, Addresses
  <2>2. v \in Slot /\ v # UVPT /\ v # PDX[USTACK]
    BY <1>4, <2>1
  <2>3. /\ v = USTACK => BootPte(v) = [page |-> 4, perm |-> {"D"}]
        /\ v # UVPT /\ v # PDX[USTACK] /\ v # USTACK => BootPte(v) = NoPte
    BY <2>2, BootEntries
  <2> QED BY <1>2, <2>2, <2>3
<1>6. SharingOk
  <2> SUFFICES ASSUME NEW e \in Env, NEW f \in Env, NEW v \in Va, NEW u \in Va,
                      Private(pte[e][v]), pte[f][u].page = pte[e][v].page
               PROVE  MayShare(e, v, f, u)
    BY DEF SharingOk
  <2>1. e = 0 /\ v = USTACK /\ pte[e][v].page = 4
    BY <1>5 DEF Private
  <2>2. f = 0 /\ u = USTACK
    BY <1>5, <2>1 DEF NoPte
  <2> QED BY <2>1, <2>2 DEF MayShare
<1>7. ScratchOk
  <2>1. \A e \in Env : pte[e][UCOW] = NoPte /\ pte[e][UTEMP] = NoPte
    BY <1>4, <1>5
  <2> QED BY <1>3, <2>1 DEF ScratchOk, HandlerScratch, RoutineScratch, NoCow
<1>8. PermsOk
  BY <1>5 DEF PermsOk, EntryOk
<1>9. FillOk
  BY <1>3 DEF FillOk
<1> QED BY <1>1, <1>6, <1>7, <1>8, <1>9 DEF ShareInv

(* Every step keeps it.                                                    *)
LEMMA NextShares == ShareInv /\ [Next]_vars => ShareInv'
<1> SUFFICES ASSUME ShareInv, [Next]_vars PROVE ShareInv'
  OBVIOUS
<1>0. MapInv'
  BY NextMapInv DEF ShareInv
<1>1. ASSUME UNCHANGED vars PROVE ShareCore'
  BY <1>0, <1>1, Still DEF vars, pageVars
<1>2. ASSUME NEW e \in Env, NEW s \in Slot, DoTlbRefill(e, s) PROVE ShareCore'
  BY <1>0, <1>2, DoTlbRefillShares
<1>3. ASSUME NEW e \in Env, NEW s \in UserVa, NEW w \in Words, Store(e, s, w) PROVE ShareCore'
  BY <1>0, <1>3, StoreShares
<1>4. ASSUME NEW e \in Env, (\E s \in UserVa : DoTlbMod(e, s)) \/ WriteWindow(e) PROVE ShareCore'
  BY <1>0, <1>4, DoTlbModShares
<1>15. ASSUME NEW e \in Env, BadAccess(e) PROVE ShareCore'
  BY <1>0, <1>15, HaltsShares DEF BadAccess
<1>5. ASSUME NEW e \in Env, NEW s \in UserVa, NEW perm \in UserPerms, MemAlloc(e, s, perm)
      PROVE  ShareCore'
  BY <1>0, <1>5, MemAllocShares
<1>6. ASSUME NEW e \in Env, NEW s \in UserVa, MemUnmap(e, s) PROVE ShareCore'
  BY <1>0, <1>6, MemUnmapShares
<1>7. ASSUME NEW e \in Env, CowAlloc(e) \/ CowCopy(e) \/ CowMap(e) \/ CowUnmap(e) PROVE ShareCore'
  BY <1>0, <1>7, CowAllocShares, CowCopyShares, CowMapShares, CowUnmapShares
<1>8. ASSUME NEW e \in Env, ForkCall(e) \/ DupChild(e) \/ DupParent(e) \/ ForkDone(e)
      PROVE  ShareCore'
  BY <1>0, <1>8, ForkCallShares, DupChildShares, DupParentShares, StartShares
<1>9. ASSUME NEW e \in Env, SpawnCall(e) \/ InitStackAlloc(e, Argv) PROVE ShareCore'
  BY <1>0, <1>9, SpawnCallShares, InitStackAllocShares
<1>10. ASSUME NEW e \in Env, InitStackMap(e) \/ InitStackUnmap(e) \/ LoadUnmap(e) PROVE ShareCore'
  BY <1>0, <1>10, InitStackGiven, InitStackGivesUp, UnmapShares
<1>16. ASSUME NEW e \in Env, LoadFails(e) \/ LoadFill(e, Argv) PROVE ShareCore'
  BY <1>0, <1>16, LoadFailsShares, LoadFilled, LoadGivesUp
<1>17. ASSUME NEW e \in Env, NEW perm \in SegmentPerms, LoadAlloc(e, perm) PROVE ShareCore'
  BY <1>0, <1>17, LoadAllocShares
<1>11. ASSUME NEW e \in Env, ShareLibrary(e) \/ SpawnDone(e) PROVE ShareCore'
  BY <1>0, <1>11, ShareLibraryShares, StartShares
<1>12. ASSUME NEW e \in Env, Exit(e) PROVE ShareCore'
  BY <1>0, <1>12, ExitShares
<1>13. ASSUME NEW e \in Env, NEW z \in Env, Reap(e, z) PROVE ShareCore'
  BY <1>0, <1>13, ReapShares
<1>14. ShareCore'
  BY <1>1, <1>2, <1>3, <1>4, <1>5, <1>6, <1>7, <1>8, <1>9, <1>10, <1>11, <1>12, <1>13,
     <1>15, <1>16, <1>17 DEF Next
<1> QED BY <1>0, <1>14 DEF ShareCore, ShareInv

(* The inductive invariant of sharing: a page that an entry may write      *)
(* privately is in another entry only while cow_entry, fork or spawn is    *)
(* between the system call that maps it and the one that ends this.        *)
THEOREM ShareInvariant == Spec => []ShareInv
<1>1. Init => ShareInv
  BY InitShares
<1>2. ShareInv /\ [Next]_vars => ShareInv'
  BY NextShares
<1> QED BY <1>1, <1>2, PTL DEF Spec

(* fork, duppage in its order, cow_entry and spawn never leave two envs    *)
(* that run with one page that either may write, unless it is shared by    *)
(* PTE_LIBRARY; nor one env with two such entries, but for UCOW.           *)
THEOREM WritableIsExclusive == Spec => []WritableOnce
<1>1. ShareInv => WritableOnce
  <2> SUFFICES ASSUME ShareInv, NEW e \in Env, NEW f \in Env,
                      env_status[e] = "RUNNABLE", env_status[f] = "RUNNABLE",
                      NEW v \in Va, NEW u \in Va,
                      "D" \in pte[e][v].perm, "LIBRARY" \notin pte[e][v].perm,
                      pte[f][u].page = pte[e][v].page
               PROVE  e = f /\ (v = u \/ UCOW \in {u, v})
    BY DEF WritableOnce
  <2>1. Private(pte[e][v])
    BY DEF Private, NoPte
  <2>2. MayShare(e, v, f, u)
    BY <2>1 DEF ShareInv, SharingOk
  <2>3. \A g \in Env : op[g].at # "user" => op[g].child # e /\ op[g].child # f
    BY DEF ShareInv, MapInv, BuildsChild
  <2> QED BY <2>2, <2>3 DEF MayShare, Remapped, Protecting, Giving
<1> QED BY <1>1, ShareInvariant, PTL

-----------------------------------------------------------------------------
(* Words.  A page that is in use keeps its word through the memory         *)
(* functions, unless the entry that is replaced was its only holder.       *)

(* Another entry than that at s of env e holds page q.                     *)
InUse(m, e, s, q) ==
  q \in Pages /\ q \notin m.free /\ (m.pte[e][s].page = q => m.ref[q] # 1)

(* page_remove.                                                            *)
LEMMA RemoveWord ==
  ASSUME NEW m, NEW e, NEW s, NEW q, InUse(m, e, s, q), m.mem \in [Pages -> Words]
  PROVE  /\ PageRemove(m, e, s).mem[q] = m.mem[q]
         /\ q \notin PageRemove(m, e, s).free
<1>1. CASE m.pte[e][s] = NoPte
  BY <1>1 DEF PageRemove, InUse
<1>2. CASE m.pte[e][s] # NoPte
  <2>1. PICK d, p : d = PageDecref(m, p) /\ p = m.pte[e][s].page
    OBVIOUS
  <2>2. /\ PageRemove(m, e, s).mem = d.mem /\ PageRemove(m, e, s).free = d.free
    BY <1>2, <2>1 DEF PageRemove, TlbInvalidate, SetPte, Mem
  <2>3. /\ d.mem = [m.mem EXCEPT ![p] = IF m.ref[p] = 1 THEN Junk ELSE @]
        /\ d.free = IF m.ref[p] = 1 THEN m.free \cup {p} ELSE m.free
    BY <2>1 DEF PageDecref, Mem
  <2>4. CASE p = q
    BY <2>1, <2>2, <2>3, <2>4 DEF InUse
  <2>5. CASE p # q
    BY <2>2, <2>3, <2>5 DEF InUse
  <2> QED BY <2>4, <2>5
<1> QED BY <1>1, <1>2

(* pgdir_walk.                                                             *)
LEMMA WalkWord ==
  ASSUME NEW m, NEW e, NEW s, NEW q \in Pages \ m.free, m.mem \in [Pages -> Words],
         m.free \subseteq Pages, WalkOk(m, e, s)
  PROVE  PgdirWalk(m, e, s).mem[q] = m.mem[q]
<1>1. CASE m.pte[e][PDX[s]] # NoPte
  BY <1>1 DEF PgdirWalk
<1>2. CASE m.pte[e][PDX[s]] = NoPte
  <2>1. First(m) \in m.free
    BY <1>2, FirstFree DEF WalkOk
  <2>2. PgdirWalk(m, e, s).mem = [m.mem EXCEPT ![First(m)] = 0]
    BY <1>2 DEF PgdirWalk, Link, PageAlloc, Mem
  <2> QED BY <2>1, <2>2
<1> QED BY <1>1, <1>2

(* page_insert.                                                            *)
LEMMA InsertWord ==
  ASSUME NEW m, NEW held, Good(m, held), TlbType, NEW e \in Env, NEW s \in Slot, NEW p, NEW perm, NEW q,
         q \in Pages /\ q \notin m.free /\ (m.pte[e][s].page = q => p = q \/ m.ref[q] # 1)
  PROVE  PageInsert(m, e, s, p, perm).mem[q] = m.mem[q]
<1>1. CASE SamePage(m, e, s, p)
  BY <1>1 DEF PageInsert, SetPte, TlbInvalidate, Mem
<1>2. CASE ~ SamePage(m, e, s, p)
  <2>1. PICK r, c, w : r = PageRemove(m, e, s) /\ c = Cleared(m, e, s) /\ w = PgdirWalk(c, e, s)
    OBVIOUS
  <2>2. InUse(m, e, s, q) /\ m.mem \in [Pages -> Words]
    BY <1>2 DEF InUse, SamePage, Good, IsMem
  <2>3. r.mem[q] = m.mem[q] /\ q \notin r.free
    BY <2>1, <2>2, RemoveWord
  <2>4. Good(r, held)
    BY <2>1, GoodRemove
  <2>5. c.mem = r.mem /\ c.free = r.free
    BY <2>1 DEF Cleared, TlbInvalidate, Mem
  <2>6. c.mem \in [Pages -> Words] /\ c.free \subseteq Pages /\ q \in Pages \ c.free
    BY <2>2, <2>3, <2>4, <2>5 DEF Good, IsMem, InUse
  <2>7. CASE WalkOk(c, e, s)
    <3>1. PageInsert(m, e, s, p, perm).mem = w.mem
      BY <1>2, <2>1, <2>7 DEF PageInsert, Link, Mem
    <3>2. w.mem[q] = c.mem[q]
      BY <2>1, <2>6, <2>7, WalkWord
    <3> QED BY <2>3, <2>5, <3>1, <3>2
  <2>8. CASE ~ WalkOk(c, e, s)
    <3>1. PageInsert(m, e, s, p, perm) = c
      BY <1>2, <2>1, <2>8 DEF PageInsert
    <3> QED BY <2>3, <2>5, <3>1
  <2> QED BY <2>7, <2>8
<1> QED BY <1>1, <1>2

(* sys_mem_alloc: the new page is zero; when there is none nothing         *)
(* changes, and when there is no page table the entry is empty.            *)
LEMMA AllocWord ==
  ASSUME NEW m, Good(m, {}), TlbType, NEW e \in Env, NEW s \in Slot \ {UVPT}, NEW perm \in Perms,
         NEW n, n = SysMemAlloc(m, e, s, perm)
  PROVE  /\ \A q : InUse(m, e, s, q) => n.mem[q] = m.mem[q]
         /\ AllocOk(m, e, s) => n.mem[First(m)] = 0
         /\ ~ AllocOk(m, e, s) => n = m \/ n.pte[e][s] = NoPte
<1>1. CASE m.free = {}
  BY <1>1 DEF SysMemAlloc, AllocOk
<1>2. CASE m.free # {}
  <2>1. PICK a, p, i, held : /\ a = PageAlloc(m) /\ p = First(m) /\ i = PageInsert(a, e, s, p, perm)
                             /\ held = {p}
    OBVIOUS
  <2>2. Good(a, {} \cup {p}) /\ p \in Pages /\ p \in m.free /\ m.ref[p] = 0
        /\ a.pte = m.pte /\ a.ref = m.ref /\ a.free = m.free \ {p}
    BY <1>2, <2>1, GoodAlloc
  <2>3. Good(a, held) /\ p \in held /\ s \in Slot
    <3>1. {} \cup {p} = held
      BY <2>1
    <3> QED BY <2>2, <3>1
  <2>4. a.mem = [m.mem EXCEPT ![p] = 0] /\ m.mem \in [Pages -> Words]
    BY <2>1 DEF PageAlloc, Mem, Good, IsMem
  <2>5. n.mem = i.mem /\ n.pte = i.pte
    BY <1>2, <2>1 DEF SysMemAlloc, Loses, Mem
  <2>6. ASSUME NEW q, InUse(m, e, s, q) PROVE n.mem[q] = m.mem[q]
    <3>1. q \in Pages /\ q \notin a.free /\ (a.pte[e][s].page = q => p = q \/ a.ref[q] # 1)
      BY <2>2, <2>6 DEF InUse
    <3>2. i.mem[q] = a.mem[q]
      BY <2>1, <2>3, <3>1, InsertWord
    <3>3. q # p
      BY <2>2, <2>6 DEF InUse
    <3> QED BY <2>2, <2>4, <2>5, <3>2, <3>3, <2>6
  <2>7. n.mem[p] = 0
    <3>1. p \in Pages /\ p \notin a.free /\ (a.pte[e][s].page = p => p = p \/ a.ref[p] # 1)
      BY <2>2
    <3>2. i.mem[p] = a.mem[p]
      BY <2>1, <2>3, <3>1, InsertWord
    <3> QED BY <2>2, <2>4, <2>5, <3>2
  <2>8. ASSUME ~ AllocOk(m, e, s) PROVE n.pte[e][s] = NoPte
    <3>1. ~ InsertOk(a, e, s, p)
      BY <1>2, <2>1, <2>8 DEF AllocOk
    <3>2. PICK rest : rest = held
      OBVIOUS
    <3>3. Inserts(a, held, e, s, p, perm, i, rest)
      BY <2>1, <2>2, <2>3, <3>1, <3>2 DEF Inserts
    <3>4. /\ InsertOk(a, e, s, p) => i.pte[e][s] = [page |-> p, perm |-> perm]
          /\ ~ InsertOk(a, e, s, p) => i.pte[e][s] = NoPte
          /\ Frame(a, i, e, s)
      BY <3>3, GoodInsert
    <3> QED BY <2>5, <3>1, <3>4
  <2> QED BY <2>1, <2>6, <2>7, <2>8
<1> QED BY <1>1, <1>2

(* sys_mem_map.                                                            *)
LEMMA MapWord ==
  ASSUME NEW m, NEW e, NEW s, NEW f, NEW t, NEW perm, NEW n, Maps(m, e, s, f, t, perm, n)
  PROVE  /\ \A q : InUse(m, f, t, q) => n.mem[q] = m.mem[q]
         /\ MapOk(m, e, s, f, t) => n.mem[m.pte[e][s].page] = m.mem[m.pte[e][s].page]
         /\ ~ MapOk(m, e, s, f, t) => n = m \/ n.pte[f][t] = NoPte
<1>0. /\ Good(m, {}) /\ TlbType /\ e \in Env /\ s \in Slot /\ f \in Env /\ t \in Slot /\ t # UVPT
      /\ perm \in Perms /\ n = SysMemMap(m, e, s, f, t, perm)
  BY DEF Maps
<1>1. CASE m.pte[e][s] = NoPte
  BY <1>0, <1>1 DEF SysMemMap, MapOk
<1>2. CASE m.pte[e][s] # NoPte
  <2>1. PICK p, held : p = m.pte[e][s].page /\ held = {}
    OBVIOUS
  <2>2. p \in Pages /\ m.ref[p] # 0
    BY <1>0, <1>2, <2>1, HeldIsCounted DEF Good
  <2>3. n = PageInsert(m, f, t, p, perm) /\ (MapOk(m, e, s, f, t) <=> InsertOk(m, f, t, p))
    BY <1>0, <1>2, <2>1 DEF SysMemMap, MapOk
  <2>4. p \notin m.free
    BY <1>0, <2>2 DEF Good, Accounted
  <2>5. ASSUME NEW q, InUse(m, f, t, q) PROVE n.mem[q] = m.mem[q]
    BY <1>0, <2>3, <2>5, InsertWord DEF InUse
  <2>6. n.mem[p] = m.mem[p]
    BY <1>0, <2>2, <2>3, <2>4, InsertWord
  <2>7. ASSUME ~ MapOk(m, e, s, f, t) PROVE n.pte[f][t] = NoPte
    <3>1. ~ InsertOk(m, f, t, p) /\ held = held \ {p}
      BY <2>1, <2>3, <2>7
    <3>2. Good(m, held)
      BY <1>0, <2>1
    <3>3. Inserts(m, held, f, t, p, perm, n, held)
      BY <1>0, <2>2, <2>3, <3>1, <3>2 DEF Inserts
    <3>4. /\ InsertOk(m, f, t, p) => n.pte[f][t] = [page |-> p, perm |-> perm]
          /\ ~ InsertOk(m, f, t, p) => n.pte[f][t] = NoPte
          /\ Frame(m, n, f, t)
      BY <3>3, GoodInsert
    <3> QED BY <3>1, <3>4
  <2> QED BY <2>1, <2>5, <2>6, <2>7
<1> QED BY <1>1, <1>2

-----------------------------------------------------------------------------
(* What a step does to the entries of users and to the words in them.      *)

(* A page with two holders has not the counter 1.                          *)
LEMMA TwoHolders ==
  ASSUME NEW m, Good(m, {}), NEW e \in Env, NEW s \in Slot, NEW y \in Env, NEW u \in Slot,
         y # e \/ u # s, m.pte[y][u] # NoPte
  PROVE  InUse(m, e, s, m.pte[y][u].page)
<1> DEFINE q == m.pte[y][u].page
           H == Holders(m.pte, q)
<1>1. q \in Pages /\ m.ref[q] # 0
  BY HeldIsCounted DEF Good
<1>2. q \notin m.free
  BY <1>1 DEF Good, Accounted
<1>3. ASSUME m.pte[e][s].page = q, m.ref[q] = 1 PROVE FALSE
  <2>1. IsFiniteSet(H) /\ Cardinality(H) \in Nat /\ Cardinality(VarHolders(q)) \in Nat
    BY HoldersFinite
  <2>2. Cardinality(H) + Cardinality(VarHolders(q)) = 1
    BY <1>1, <1>3 DEF Good, Counted
  <2>3. <<y, u>> \in H /\ <<e, s>> \in H /\ <<y, u>> # <<e, s>>
    BY <1>3, HolderOf
  <2> HIDE DEF H
  <2>4. IsFiniteSet(H \ {<<e, s>>}) /\ Cardinality(H \ {<<e, s>>}) = Cardinality(H) - 1
    BY <2>1, <2>3, FS_RemoveElement
  <2>5. H \ {<<e, s>>} # {}
    BY <2>3
  <2>6. Cardinality(H \ {<<e, s>>}) # 0 /\ Cardinality(H \ {<<e, s>>}) \in Nat
    BY <2>4, <2>5, FS_EmptySet, FS_CardinalityType
  <2> QED BY <2>1, <2>2, <2>4, <2>6
<1> QED BY <1>1, <1>2, <1>3 DEF InUse

(* One user entry changes at most, and no word in any other.               *)
Keeps(f, s) ==
  \A y \in Env : \A u \in Va : (y # f \/ u # s) /\ pte[y][u] # NoPte =>
    mem'[pte[y][u].page] = mem[pte[y][u].page]

Change(f, s) == OnlyVa(f, s) /\ Keeps(f, s)

(* What becomes of that entry: it is empty, nothing has happened, it has a *)
(* new page of zeros, or the page that entry v of env e has.               *)
Gone(f, s) == pte'[f][s] = NoPte
Same(f, s) == pte'[f][s] = pte[f][s] /\ mem' = mem

Unheld(f, s) == \A y \in Env : \A u \in Va : pte[y][u].page # pte'[f][s].page

Fresh(f, s, perm) ==
  /\ pte'[f][s] # NoPte /\ pte'[f][s].perm = perm /\ mem'[pte'[f][s].page] = 0
  /\ Unheld(f, s)

Joined(f, s, e, v, perm) ==
  /\ pte[e][v] # NoPte /\ pte'[f][s] = [page |-> pte[e][v].page, perm |-> perm]
  /\ mem'[pte[e][v].page] = mem[pte[e][v].page]

(* A memory function that keeps the words of pages in use.                 *)
LEMMA KeepsWords ==
  ASSUME NEW m, Good(m, {}), m.pte = pte, m.mem = mem, NEW e \in Env, NEW s \in Slot,
         \A q : InUse(m, e, s, q) => mem'[q] = m.mem[q]
  PROVE  Keeps(e, s)
BY TwoHolders, Addresses DEF Keeps

(* sys_mem_alloc.                                                          *)
LEMMA AllocChange ==
  ASSUME MapInv, NEW m, Good(m, {}), m.pte = pte, m.mem = mem, NEW e \in Env, NEW s \in Va,
         NEW perm \in Perms, NEW n, n = SysMemAlloc(m, e, s, perm), pte' = n.pte, mem' = n.mem
  PROVE  Change(e, s) /\ (Gone(e, s) \/ Same(e, s) \/ Fresh(e, s, perm))
<1>1. TlbType /\ s \in Slot \ {UVPT} /\ s \in Slot
  BY Addresses DEF MapInv, PagesOk
<1>2. /\ Good(n, {})
      /\ AllocOk(m, e, s) => /\ First(m) \in Pages /\ m.ref[First(m)] = 0
                             /\ n.pte[e][s] = [page |-> First(m), perm |-> perm]
      /\ ~ AllocOk(m, e, s) => n.pte[e][s] = NoPte \/ n.pte[e][s] = m.pte[e][s]
      /\ Frame(m, n, e, s)
  BY <1>1, GoodMemAlloc
<1>3. /\ \A q : InUse(m, e, s, q) => n.mem[q] = m.mem[q]
      /\ AllocOk(m, e, s) => n.mem[First(m)] = 0
      /\ ~ AllocOk(m, e, s) => n = m \/ n.pte[e][s] = NoPte
  BY <1>1, AllocWord
<1>4. OnlyVa(e, s)
  BY <1>1, <1>2, FrameEffect
<1>5. Keeps(e, s)
  BY <1>1, <1>3, KeepsWords
<1>6. CASE AllocOk(m, e, s)
  <2>1. \A y \in Env : \A u \in Slot : m.pte[y][u].page # First(m)
    BY <1>2, <1>6, ZeroIsUnheld DEF Good
  <2>2. pte'[e][s].page = First(m) /\ pte'[e][s].perm = perm /\ First(m) \in Pages
    BY <1>2, <1>6
  <2>3. pte'[e][s] # NoPte
    BY <2>2 DEF NoPte, Pages
  <2>4. Fresh(e, s, perm)
    BY <1>3, <1>6, <2>1, <2>2, <2>3, Addresses DEF Fresh, Unheld
  <2> QED BY <1>4, <1>5, <2>4 DEF Change
<1>7. CASE ~ AllocOk(m, e, s)
  BY <1>3, <1>4, <1>5, <1>7 DEF Change, Gone, Same
<1> QED BY <1>6, <1>7

(* passive_alloc.                                                          *)
LEMMA PassiveChange ==
  ASSUME MapInv, NEW m, Good(m, {}), m.pte = pte, m.mem = mem, NEW e \in Env, NEW s \in Va,
         NEW n, n = PassiveAlloc(m, e, s), PassiveOk(m, e, s), pte' = n.pte, mem' = n.mem
  PROVE  Change(e, s) /\ (Same(e, s) \/ Fresh(e, s, {"D"}))
<1>1. CASE pte[e][s] # NoPte
  <2>1. n = m
    BY <1>1 DEF PassiveAlloc
  <2> QED BY <2>1 DEF Change, OnlyVa, Keeps, Same
<1>2. CASE pte[e][s] = NoPte
  <2>1. PICK perm \in Perms : perm = {"D"}
    BY DEF Perms
  <2>2. n = SysMemAlloc(m, e, s, perm) /\ AllocOk(m, e, s)
    BY <1>2, <2>1 DEF PassiveAlloc, PassiveOk
  <2>3. Change(e, s) /\ (Gone(e, s) \/ Same(e, s) \/ Fresh(e, s, perm))
    BY <2>2, AllocChange
  <2>4. pte'[e][s] # NoPte
    BY PassiveEffect
  <2> QED BY <1>2, <2>1, <2>3, <2>4 DEF Gone, Same
<1> QED BY <1>1, <1>2

(* sys_mem_map.                                                            *)
LEMMA MapChange ==
  ASSUME MapInv, NEW e \in Env, NEW s \in Va, NEW f \in Env, NEW t \in Va, NEW perm \in Perms,
         NEW n, n = SysMemMap(M, e, s, f, t, perm), pte' = n.pte, mem' = n.mem
  PROVE  /\ Change(f, t) /\ Good(n, {})
         /\ MapOk(M, e, s, f, t) => Joined(f, t, e, s, perm)
         /\ ~ MapOk(M, e, s, f, t) => Gone(f, t) \/ Same(f, t)
<1>1. Good(M, {}) /\ TlbType /\ s \in Slot /\ t \in Slot /\ t # UVPT /\ M.pte = pte /\ M.mem = mem
  BY Now, Addresses DEF M, Mem
<1>2. Maps(M, e, s, f, t, perm, n)
  BY <1>1 DEF Maps
<1>3. /\ \A q : InUse(M, f, t, q) => n.mem[q] = M.mem[q]
      /\ MapOk(M, e, s, f, t) => n.mem[M.pte[e][s].page] = M.mem[M.pte[e][s].page]
      /\ ~ MapOk(M, e, s, f, t) => n = M \/ n.pte[f][t] = NoPte
  BY <1>2, MapWord
<1>4. /\ OnlyVa(f, t) /\ Good(n, {})
      /\ MapOk(M, e, s, f, t) =>
           /\ pte[e][s] # NoPte
           /\ pte'[f][t] = [page |-> pte[e][s].page, perm |-> perm]
  BY MapEffect
<1>5. Keeps(f, t)
  BY <1>1, <1>3, KeepsWords
<1> QED BY <1>1, <1>3, <1>4, <1>5 DEF Change, Gone, Same, Joined

(* sys_mem_unmap.                                                          *)
LEMMA RemoveChange ==
  ASSUME MapInv, NEW e \in Env, NEW s \in Va, Commit(PageRemove(M, e, s))
  PROVE  Change(e, s) /\ Gone(e, s)
<1>1. Good(M, {}) /\ M.pte = pte /\ M.mem = mem /\ mem' = PageRemove(M, e, s).mem
      /\ s \in Slot /\ M.mem \in [Pages -> Words]
  BY Now, Addresses DEF M, Mem, Commit, MapInv, PagesOk, PageType
<1>2. \A q : InUse(M, e, s, q) => mem'[q] = M.mem[q]
  BY <1>1, RemoveWord
<1>3. Keeps(e, s)
  BY <1>1, <1>2, KeepsWords
<1> QED BY <1>3, RemoveEffect DEF Change, Gone

-----------------------------------------------------------------------------
(* What a step does to the parts of SpaceInv.                              *)

(* The changed entry shares its page with entries that have PTE_LIBRARY    *)
(* when it has, and only then.                                             *)
Agrees(f, s) ==
  \/ Gone(f, s) \/ pte'[f][s] = pte[f][s] \/ Unheld(f, s)
  \/ \E e \in Env : \E v \in Va :
       /\ pte'[f][s].page = pte[e][v].page
       /\ "LIBRARY" \in pte'[f][s].perm <=> "LIBRARY" \in pte[e][v].perm

LEMMA LibraryKept ==
  ASSUME LibraryOk, MapInv, MapInv', NEW f \in Env, NEW s \in Va, OnlyVa(f, s), Agrees(f, s)
  PROVE  LibraryOk'
<1>1. ASSUME NEW y \in Env, NEW u \in Va, y # f \/ u # s, pte'[y][u].page = pte'[f][s].page
      PROVE  "LIBRARY" \in pte'[y][u].perm <=> "LIBRARY" \in pte'[f][s].perm
  <2>1. pte'[y][u] = pte[y][u]
    BY <1>1 DEF OnlyVa
  <2>2. CASE Gone(f, s)
    <3>1. pte'[y][u] = NoPte
      BY <1>1, <2>2, TablesTyped DEF EntriesOk, Gone, NoPte
    <3> QED BY <2>2, <3>1 DEF Gone
  <2>3. CASE pte'[f][s] = pte[f][s]
    BY <1>1, <2>1, <2>3 DEF LibraryOk
  <2>4. CASE Unheld(f, s)
    BY <1>1, <2>1, <2>4 DEF Unheld
  <2>5. ASSUME NEW e \in Env, NEW v \in Va, pte'[f][s].page = pte[e][v].page,
               "LIBRARY" \in pte'[f][s].perm <=> "LIBRARY" \in pte[e][v].perm
        PROVE  "LIBRARY" \in pte'[y][u].perm <=> "LIBRARY" \in pte'[f][s].perm
    BY <1>1, <2>1, <2>5 DEF LibraryOk
  <2> QED BY <2>2, <2>3, <2>4, <2>5 DEF Agrees
<1>2. ASSUME NEW x \in Env, NEW y \in Env, NEW v \in Va, NEW u \in Va,
             pte'[x][v].page = pte'[y][u].page
      PROVE  "LIBRARY" \in pte'[x][v].perm <=> "LIBRARY" \in pte'[y][u].perm
  <2>1. CASE (x # f \/ v # s) /\ (y # f \/ u # s)
    <3>1. pte'[x][v] = pte[x][v] /\ pte'[y][u] = pte[y][u]
      BY <2>1 DEF OnlyVa
    <3> QED BY <1>2, <3>1 DEF LibraryOk
  <2>2. CASE x = f /\ v = s
    BY <1>1, <1>2, <2>2
  <2>3. CASE y = f /\ u = s
    BY <1>1, <1>2, <2>3
  <2> QED BY <2>1, <2>2, <2>3
<1> QED BY <1>2 DEF LibraryOk

(* The handler of x keeps its copy: another entry changes.                 *)
CopyKeeps(x) == cow'[x].at \in {"alloc", "copy", "map"} => Copies(x)'

LEMMA CopyStays ==
  ASSUME CopyOk, MapInv, NEW f \in Env, NEW s, Change(f, s), NEW x \in Env, cow'[x] = cow[x],
         x = f => cow[x] = NoCow \/ s \notin {UCOW, cow[x].va}
  PROVE  CopyKeeps(x)
<1> SUFFICES ASSUME cow[x].at \in {"alloc", "copy", "map"} PROVE Copies(x)'
  BY DEF CopyKeeps
<1>1. Copies(x) /\ cow[x] # NoCow
  BY DEF CopyOk, NoCow
<1>2. cow[x].va \in Va /\ UCOW \in Va /\ (cow[x].at = "map" => pte[x][UCOW] # NoPte)
  BY <1>1, Addresses DEF MapInv, HandlerOk
<1>3. x # f \/ (s # UCOW /\ s # cow[x].va)
  BY <1>1
<1>4. pte'[x][cow[x].va] = pte[x][cow[x].va] /\ pte'[x][UCOW] = pte[x][UCOW]
  BY <1>2, <1>3 DEF Change, OnlyVa
<1>5. mem'[pte[x][cow[x].va].page] = mem[pte[x][cow[x].va].page]
  BY <1>1, <1>2, <1>3 DEF Change, Keeps, Copies
<1>6. cow[x].at = "map" => mem'[pte[x][UCOW].page] = mem[pte[x][UCOW].page]
  BY <1>2, <1>3 DEF Change, Keeps
<1> QED BY <1>1, <1>4, <1>5, <1>6 DEF Copies

LEMMA CopyKept ==
  ASSUME CopyOk, MapInv, NEW f \in Env, NEW s, Change(f, s), cow[f] = NoCow,
         \A x \in Env : cow'[x] = cow[x]
  PROVE  CopyOk'
<1>1. \A x \in Env : CopyKeeps(x)
  BY CopyStays
<1> QED BY <1>1 DEF CopyOk, CopyKeeps

(* What the fork of x has given its child stays.                           *)
ForkKeeps(x) == op'[x].at \in {"fork", "dup", "args", "give"} => Forked(x)'

LEMMA ForkStays ==
  ASSUME ForkedOk, MapInv, NEW f \in Env, NEW s, OnlyVa(f, s), NEW x \in Env, op'[x] = op[x],
         env_status[f] = "RUNNABLE" \/ f # op[x].child,
         x = f /\ op[x].at = "dup" => s # op[x].va
  PROVE  ForkKeeps(x)
<1> SUFFICES ASSUME op[x].at \in {"fork", "dup", "args", "give"} PROVE Forked(x)'
  BY DEF ForkKeeps
<1>1. Forked(x) /\ (op[x].at = "dup" => op[x].va \in Va)
  BY DEF ForkedOk, MapInv, ForkOk
<1>2. op[x].child \in Env /\ op[x].child # f
  BY DEF MapInv, BuildsChild
<1>3. pte'[op[x].child] = pte[op[x].child]
  BY <1>2 DEF OnlyVa
<1>4. op[x].at = "dup" => pte'[x][op[x].va] = pte[x][op[x].va]
  BY <1>1 DEF OnlyVa
<1> QED BY <1>1, <1>3, <1>4 DEF Forked

LEMMA ForkedKept ==
  ASSUME ForkedOk, MapInv, NEW f \in Env, NEW s, OnlyVa(f, s), env_status[f] = "RUNNABLE",
         op' = op, op[f].at = "dup" => s # op[f].va
  PROVE  ForkedOk'
<1>1. \A x \in Env : ForkKeeps(x)
  BY ForkStays
<1> QED BY <1>1 DEF ForkedOk, ForkKeeps

-----------------------------------------------------------------------------
(* What a step does to the spaces.                                         *)

SharedOfSpaces == Spaces!InUse(UserSpaces)

(* The pages that are shared are the objects in the spaces.                *)
SharedAsSeen == SharedPages = SharedOfSpaces

LEMMA SharedAreObjects == SpaceInv => SharedAsSeen
<1> SUFFICES ASSUME SpaceInv PROVE SharedPages = SharedOfSpaces
  BY DEF SharedAsSeen
<1>1. ASSUME NEW f \in Env, NEW v \in UserVa, "LIBRARY" \in pte[f][v].perm
      PROVE  UserSpaces[f][v].kind = "shared"
  <2>1. pte[f][v] # NoPte /\ v \in Va
    BY <1>1, Addresses DEF NoPte
  <2>2. ~ BeingDuped(f, v)
    <3> SUFFICES ASSUME NEW e \in Env, op[e].at = "dup", op[e].child = f, op[e].va = v
                 PROVE  FALSE
      BY DEF BeingDuped
    <3>1. pte[f][v].page = pte[e][v].page
      BY DEF SpaceInv, ForkedOk, Forked
    <3>2. "LIBRARY" \notin pte[e][v].perm
      BY Scratch DEF SpaceInv, RoutineScratch, Private
    <3> QED BY <1>1, <2>1, <3>1, <3>2 DEF SpaceInv, LibraryOk
  <2>3. UserSpaces[f][v] = Sees(f, v)
    BY DEF UserSpaces
  <2> QED BY <1>1, <2>1, <2>2, <2>3 DEF Sees
<1>2. ASSUME NEW f \in Env, NEW v \in UserVa, UserSpaces[f][v].kind = "shared"
      PROVE  "LIBRARY" \in pte[f][v].perm /\ UserSpaces[f][v].obj = pte[f][v].page
  <2>1. UserSpaces[f][v] = Sees(f, v)
    BY DEF UserSpaces
  <2> QED BY <1>2, <2>1 DEF Sees
<1>3. \A x \in Env \X UserVa : x[1] \in Env /\ x[2] \in UserVa
  OBVIOUS
<1>4. \A x \in Env \X UserVa :
        "LIBRARY" \in pte[x[1]][x[2]].perm <=> UserSpaces[x[1]][x[2]].kind = "shared"
  BY <1>1, <1>2, <1>3
<1>5. {y \in Env \X UserVa : "LIBRARY" \in pte[y[1]][y[2]].perm}
      = {y \in Env \X UserVa : UserSpaces[y[1]][y[2]].kind = "shared"}
  BY <1>4
<1>6. \A x \in Env \X UserVa :
        UserSpaces[x[1]][x[2]].kind = "shared" => UserSpaces[x[1]][x[2]].obj = pte[x[1]][x[2]].page
  BY <1>2, <1>3
<1> QED BY <1>5, <1>6 DEF SharedPages, SharedOfSpaces, Spaces!InUse

(* Another entry than the one that changes shows what it showed.           *)
LEMMA ElseSame ==
  ASSUME NEW f \in Env, NEW s, Change(f, s), NEW y \in Env, NEW u \in UserVa, y # f \/ u # s,
         BeingDuped(y, u)' <=> BeingDuped(y, u)
  PROVE  Sees(y, u)' = Sees(y, u)
<1>1. u \in Va
  BY Addresses
<1>2. pte'[y][u] = pte[y][u]
  BY <1>1 DEF Change, OnlyVa
<1>3. pte[y][u] # NoPte => mem'[pte[y][u].page] = mem[pte[y][u].page]
  BY <1>1 DEF Change, Keeps
<1> QED BY <1>2, <1>3 DEF Sees

(* The words of shared pages stay, and new ones are zero.                  *)
HeapNow == \A p \in SharedPages' : mem'[p] = IF p \in SharedPages THEN mem[p] ELSE 0

(* What may become of the entry at s of env f.                             *)
Shares(f, s, e, v, perm) ==
  /\ Joined(f, s, e, v, perm)
  /\ "LIBRARY" \in perm <=> "LIBRARY" \in pte[e][v].perm
  /\ "LIBRARY" \in perm /\ s \in UserVa => v \in UserVa

Outcome(f, s) ==
  \/ Gone(f, s) \/ Same(f, s) \/ \E perm : Fresh(f, s, perm)
  \/ \E e \in Env : \E v \in Va : \E perm : Shares(f, s, e, v, perm)

LEMMA OutcomeAgrees ==
  ASSUME NEW f \in Env, NEW s \in Va, Outcome(f, s)
  PROVE  Agrees(f, s)
<1>1. ASSUME NEW e \in Env, NEW v \in Va, NEW perm, Shares(f, s, e, v, perm)
      PROVE  /\ pte'[f][s].page = pte[e][v].page
             /\ "LIBRARY" \in pte'[f][s].perm <=> "LIBRARY" \in pte[e][v].perm
  BY <1>1 DEF Shares, Joined
<1> QED BY <1>1 DEF Outcome, Agrees, Same, Fresh

(* A user entry that has PTE_LIBRARY shares its page.                      *)
LEMMA SharedPage ==
  ASSUME NEW p
  PROVE  p \in SharedPages <=>
           \E y \in Env : \E u \in UserVa : "LIBRARY" \in pte[y][u].perm /\ pte[y][u].page = p
<1>1. ASSUME NEW y \in Env, NEW u \in UserVa, "LIBRARY" \in pte[y][u].perm
      PROVE  pte[y][u].page \in SharedPages
  <2>1. <<y, u>> \in {x \in Env \X UserVa : "LIBRARY" \in pte[x[1]][x[2]].perm}
    BY <1>1
  <2> QED BY <2>1 DEF SharedPages
<1>2. ASSUME p \in SharedPages
      PROVE  \E y \in Env : \E u \in UserVa : "LIBRARY" \in pte[y][u].perm /\ pte[y][u].page = p
  BY <1>2 DEF SharedPages
<1> QED BY <1>1, <1>2

LEMMA HeapChange ==
  ASSUME NEW f \in Env, NEW s \in Va, Change(f, s), Outcome(f, s) \/ s \notin UserVa
  PROVE  HeapNow
<1> SUFFICES ASSUME NEW p \in SharedPages' PROVE mem'[p] = IF p \in SharedPages THEN mem[p] ELSE 0
  BY DEF HeapNow
<1>1. PICK y \in Env, u \in UserVa : "LIBRARY" \in pte'[y][u].perm /\ pte'[y][u].page = p
  BY DEF SharedPages
<1>2. u \in Va /\ pte'[y][u] # NoPte
  BY <1>1, Addresses DEF NoPte
<1>3. CASE y # f \/ u # s
  <2>1. pte'[y][u] = pte[y][u] /\ pte[y][u] # NoPte
    BY <1>2, <1>3 DEF Change, OnlyVa
  <2>2. p \in SharedPages
    BY <1>1, <2>1, SharedPage
  <2>3. mem'[p] = mem[p]
    BY <1>1, <1>2, <1>3, <2>1 DEF Change, Keeps
  <2> QED BY <2>2, <2>3
<1>4. CASE y = f /\ u = s
  <2>1. CASE Same(f, s)
    <3>1. p \in SharedPages
      BY <1>1, <1>4, <2>1, SharedPage DEF Same
    <3> QED BY <2>1, <3>1 DEF Same
  <2>2. ASSUME NEW perm, Fresh(f, s, perm) PROVE p \notin SharedPages /\ mem'[p] = 0
    <3>1. mem'[p] = 0 /\ \A x \in Env : \A v \in Va : pte[x][v].page # p
      BY <1>1, <1>4, <2>2 DEF Fresh, Unheld
    <3> QED BY <3>1, SharedPage, Addresses
  <2>3. ASSUME NEW e \in Env, NEW v \in Va, NEW perm, Shares(f, s, e, v, perm)
        PROVE  p \in SharedPages /\ mem'[p] = mem[p]
    <3>1. /\ pte'[f][s] = [page |-> pte[e][v].page, perm |-> perm]
          /\ mem'[pte[e][v].page] = mem[pte[e][v].page]
          /\ "LIBRARY" \in perm <=> "LIBRARY" \in pte[e][v].perm
          /\ "LIBRARY" \in perm /\ s \in UserVa => v \in UserVa
      BY <2>3 DEF Shares, Joined
    <3>2. p = pte[e][v].page /\ "LIBRARY" \in pte[e][v].perm /\ v \in UserVa
      BY <1>1, <1>4, <3>1
    <3>3. p \in SharedPages
      BY <3>2, SharedPage
    <3> QED BY <3>1, <3>2, <3>3
  <2> QED BY <1>2, <1>4, <2>1, <2>2, <2>3 DEF Outcome, Gone
<1> QED BY <1>3, <1>4

-----------------------------------------------------------------------------
(* Steps of the abstract specification.                                    *)

NextSpace == [Spaces!SpaceNext]_(Spaces!spaceVars)

(* The objects before and after.                                           *)
LEMMA Objects == SpaceInv /\ SpaceInv' => SharedAsSeen /\ SharedAsSeen'
<1>1. SpaceInv => SharedAsSeen
  BY SharedAreObjects
<1>2. SpaceInv' => SharedAsSeen'
  BY <1>1, PTL
<1> QED BY <1>1, <1>2

(* Nothing is seen of the step.                                            *)
LEMMA HeapKept ==
  ASSUME SpaceInv, SpaceInv', HeapNow, UserSpaces' = UserSpaces
  PROVE  SharedHeap' = SharedHeap
<1>1. SharedPages' = SharedPages
  BY Objects DEF SharedAsSeen, SharedOfSpaces, Spaces!InUse
<1> QED BY <1>1 DEF SharedHeap, HeapNow

LEMMA Stutters ==
  ASSUME SpaceInv, SpaceInv', HeapNow, UserSpaces' = UserSpaces, StartedEnvs' = StartedEnvs
  PROVE  NextSpace
BY HeapKept DEF NextSpace, Spaces!spaceVars

LEMMA Lives ==
  ASSUME SpaceInv, SpaceInv', HeapNow, UserSpaces' = UserSpaces, NEW e \in Env,
         StartedEnvs' \in {StartedEnvs \cup {e}, StartedEnvs \ {e}}
  PROVE  NextSpace
BY HeapKept DEF NextSpace, Spaces!SpaceNext, Spaces!LifeStep

(* Memory changes.                                                         *)
LEMMA Becomes ==
  ASSUME SpaceInv, SpaceInv', HeapNow, NEW s, UserSpaces' = s
  PROVE  Spaces!Becomes(s)
<1>1. SharedPages = Spaces!InUse(UserSpaces) /\ SharedPages' = Spaces!InUse(s)
  BY Objects DEF SharedAsSeen, SharedOfSpaces, Spaces!InUse
<1>2. SharedHeap' = [o \in SharedPages' |-> IF o \in DOMAIN SharedHeap THEN SharedHeap[o] ELSE 0]
  BY DEF HeapNow, SharedHeap
<1> QED BY <1>1, <1>2 DEF Spaces!Becomes

LEMMA Replaced ==
  ASSUME SpaceInv, SpaceInv', HeapNow, StartedEnvs' = StartedEnvs,
         NEW f \in Env, NEW s \in UserVa, NEW new, UserSpaces' = [UserSpaces EXCEPT ![f][s] = new],
         new.kind = "shared" => new.obj \notin SharedPages,
         new.kind = "private" => new.word = 0 \/ f \notin StartedEnvs
  PROVE  NextSpace
<1>1. UserSpaces'[f][s] = new
  BY DEF UserSpaces
<1>2. Spaces!Becomes([UserSpaces EXCEPT ![f][s] = new])
  BY Becomes
<1>3. SharedPages = Spaces!InUse(UserSpaces)
  BY Objects DEF SharedAsSeen, SharedOfSpaces
<1>4. Spaces!Replace(f, s, UserSpaces'[f][s])
  BY <1>1, <1>2, <1>3 DEF Spaces!Replace
<1>5. CASE UserSpaces' = UserSpaces /\ SharedHeap' = SharedHeap
  BY <1>5 DEF NextSpace, Spaces!spaceVars
<1>6. CASE ~ (UserSpaces' = UserSpaces /\ SharedHeap' = SharedHeap)
  <2>1. Spaces!MemoryStep
    BY <1>4, <1>6 DEF Spaces!MemoryStep
  <2> QED BY <2>1 DEF NextSpace, Spaces!SpaceNext
<1> QED BY <1>5, <1>6

LEMMA Inherited ==
  ASSUME SpaceInv, SpaceInv', HeapNow, StartedEnvs' = StartedEnvs,
         NEW p \in StartedEnvs, NEW c \in Env, c \notin StartedEnvs, NEW v \in UserVa,
         UserSpaces' = [UserSpaces EXCEPT ![c][v] = UserSpaces[p][v]]
  PROVE  NextSpace
<1>1. Spaces!Inherit(p, c, v)
  BY Becomes DEF Spaces!Inherit
<1>2. p \in Env
  BY DEF StartedEnvs
<1>3. CASE UserSpaces' = UserSpaces /\ SharedHeap' = SharedHeap
  BY <1>3 DEF NextSpace, Spaces!spaceVars
<1>4. CASE ~ (UserSpaces' = UserSpaces /\ SharedHeap' = SharedHeap)
  <2>1. Spaces!MemoryStep
    BY <1>1, <1>2, <1>4 DEF Spaces!MemoryStep
  <2> QED BY <2>1 DEF NextSpace, Spaces!SpaceNext
<1> QED BY <1>3, <1>4

LEMMA Released ==
  ASSUME SpaceInv, SpaceInv', HeapNow, StartedEnvs' = StartedEnvs,
         NEW e \in Env, e \notin StartedEnvs,
         UserSpaces' = [UserSpaces EXCEPT ![e] = [v \in UserVa |-> Spaces!Nothing]]
  PROVE  NextSpace
<1>1. Spaces!Release(e)
  BY Becomes DEF Spaces!Release
<1>2. CASE UserSpaces' = UserSpaces /\ SharedHeap' = SharedHeap
  BY <1>2 DEF NextSpace, Spaces!spaceVars
<1>3. CASE ~ (UserSpaces' = UserSpaces /\ SharedHeap' = SharedHeap)
  <2>1. Spaces!MemoryStep
    BY <1>1, <1>3 DEF Spaces!MemoryStep
  <2> QED BY <2>1 DEF NextSpace, Spaces!SpaceNext
<1> QED BY <1>2, <1>3

-----------------------------------------------------------------------------
(* One entry changes.                                                      *)

(* The pages duppage is working on are the same.                           *)
SameDup == \A y \in Env : \A u \in UserVa : BeingDuped(y, u)' <=> BeingDuped(y, u)

LEMMA DupSame ==
  ASSUME MapInv, MapInv',
         \A x \in Env : op[x].at = "dup" \/ op'[x].at = "dup" => op'[x] = op[x]
  PROVE  SameDup
<1>1. ASSUME NEW y \in Env, NEW u \in UserVa
      PROVE  BeingDuped(y, u)' <=> BeingDuped(y, u)
  <2>1. BeingDuped(y, u) <=> \E x \in Env : op[x].at = "dup" /\ op[x].child = y /\ op[x].va = u
    BY DEF BeingDuped, MapInv, BuildsChild
  <2>2. BeingDuped(y, u)' <=> \E x \in Env : op'[x].at = "dup" /\ op'[x].child = y /\ op'[x].va = u
    BY DEF BeingDuped, MapInv, BuildsChild
  <2> QED BY <2>1, <2>2
<1> QED BY <1>1 DEF SameDup

(* The new spaces, entry by entry.                                         *)
LEMMA OneSpace ==
  ASSUME NEW f \in Env, NEW s \in UserVa, NEW new, Sees(f, s)' = new,
         \A y \in Env : \A u \in UserVa : y # f \/ u # s => Sees(y, u)' = Sees(y, u)
  PROVE  UserSpaces' = [UserSpaces EXCEPT ![f][s] = new]
<1>1. UserSpaces' = [y \in Env |-> [u \in UserVa |-> Sees(y, u)']]
  BY DEF UserSpaces
<1>2. UserSpaces = [y \in Env |-> [u \in UserVa |-> Sees(y, u)]]
  BY DEF UserSpaces
<1>3. \A y \in Env : UserSpaces'[y] = [u \in UserVa |-> Sees(y, u)']
  BY <1>1
<1>4. \A y \in Env : UserSpaces'[y] = [UserSpaces EXCEPT ![f][s] = new][y]
  BY <1>2, <1>3
<1> QED BY <1>1, <1>2, <1>4

LEMMA SpacesKept ==
  ASSUME \A y \in Env : \A u \in UserVa : Sees(y, u)' = Sees(y, u)
  PROVE  UserSpaces' = UserSpaces
BY DEF UserSpaces

(* The entry is none that programs use themselves.                         *)
LEMMA ElsewhereStep ==
  ASSUME SpaceInv, SpaceInv', NEW f \in Env, NEW s \in Va, Change(f, s), s \notin UserVa,
         SameDup, StartedEnvs' = StartedEnvs
  PROVE  NextSpace
<1>1. \A y \in Env : \A u \in UserVa : Sees(y, u)' = Sees(y, u)
  BY ElseSame DEF SameDup
<1>2. UserSpaces' = UserSpaces
  BY <1>1, SpacesKept
<1>3. HeapNow
  BY HeapChange
<1> QED BY <1>2, <1>3, Stutters

(* The entry is removed, left as it is, or gets a new page.                *)
LEMMA OwnStep ==
  ASSUME SpaceInv, SpaceInv', NEW f \in Env, NEW s \in Va, Change(f, s),
         Gone(f, s) \/ Same(f, s) \/ (\E perm : Fresh(f, s, perm)),
         ~ BeingDuped(f, s), SameDup, StartedEnvs' = StartedEnvs
  PROVE  NextSpace
<1>1. Outcome(f, s)
  BY DEF Outcome
<1>2. CASE s \notin UserVa
  BY <1>2, ElsewhereStep
<1>3. CASE s \in UserVa
  <2>1. \A y \in Env : \A u \in UserVa : y # f \/ u # s => Sees(y, u)' = Sees(y, u)
    BY ElseSame DEF SameDup
  <2>2. ~ BeingDuped(f, s)'
    BY <1>3 DEF SameDup
  <2>3. HeapNow
    BY <1>1, HeapChange
  <2>4. CASE Same(f, s)
    <3>1. Sees(f, s)' = Sees(f, s)
      BY <2>2, <2>4 DEF Sees, Same
    <3>2. \A y \in Env : \A u \in UserVa : Sees(y, u)' = Sees(y, u)
      BY <2>1, <3>1
    <3> QED BY <2>3, <3>2, SpacesKept, Stutters
  <2>5. CASE Gone(f, s)
    <3>1. PICK new : new = [kind |-> "none", word |-> 0]
      OBVIOUS
    <3>2. Sees(f, s)' = new /\ new.kind = "none"
      BY <2>5, <3>1 DEF Sees, Gone
    <3>3. UserSpaces' = [UserSpaces EXCEPT ![f][s] = new]
      BY <1>3, <2>1, <3>2, OneSpace
    <3> QED BY <1>3, <2>3, <3>2, <3>3, Replaced
  <2>6. ASSUME NEW perm, Fresh(f, s, perm) PROVE NextSpace
    <3>1. PICK new, p : p = pte'[f][s].page /\ new = IF "LIBRARY" \in perm
                               THEN [kind |-> "shared", obj |-> p]
                               ELSE [kind |-> "private", word |-> 0]
      OBVIOUS
    <3>2. /\ pte'[f][s] # NoPte /\ pte'[f][s].perm = perm /\ mem'[p] = 0
          /\ \A y \in Env : \A u \in Va : pte[y][u].page # p
      BY <2>6, <3>1 DEF Fresh, Unheld
    <3>3. p \notin SharedPages
      BY <3>2, SharedPage, Addresses
    <3>4. Sees(f, s)' = new
      BY <2>2, <3>1, <3>2 DEF Sees
    <3>5. (new.kind = "shared" => new.obj \notin SharedPages) /\ (new.kind = "private" => new.word = 0)
      BY <3>1, <3>3
    <3>6. UserSpaces' = [UserSpaces EXCEPT ![f][s] = new]
      BY <1>3, <2>1, <3>4, OneSpace
    <3> QED BY <1>3, <2>3, <3>5, <3>6, Replaced
  <2> QED BY <2>4, <2>5, <2>6
<1> QED BY <1>2, <1>3

(* A child that has not started gets its parent's page.                    *)
LEMMA InheritStep ==
  ASSUME SpaceInv, SpaceInv', NEW e \in StartedEnvs, NEW c \in Env, c \notin StartedEnvs, NEW v \in Va,
         Change(c, v), NEW perm, Shares(c, v, e, v, perm),
         ~ BeingDuped(c, v), SameDup, StartedEnvs' = StartedEnvs
  PROVE  NextSpace
<1>1. Outcome(c, v) /\ e \in Env /\ env_status[e] = "RUNNABLE"
  BY DEF Outcome, StartedEnvs
<1>2. CASE v \notin UserVa
  BY <1>2, ElsewhereStep
<1>3. CASE v \in UserVa
  <2>1. \A y \in Env : \A u \in UserVa : y # c \/ u # v => Sees(y, u)' = Sees(y, u)
    BY ElseSame DEF SameDup
  <2>2. ~ BeingDuped(c, v)' /\ ~ BeingDuped(e, v)
    BY <1>1, <1>3 DEF SameDup, BeingDuped
  <2>3. /\ pte[e][v] # NoPte /\ pte'[c][v] = [page |-> pte[e][v].page, perm |-> perm]
        /\ mem'[pte[e][v].page] = mem[pte[e][v].page]
        /\ "LIBRARY" \in perm <=> "LIBRARY" \in pte[e][v].perm
    BY DEF Shares, Joined
  <2>4. pte[e][v].page # 0
    <3>1. MapInv /\ MapInv'
      BY DEF SpaceInv, ShareInv
    <3>2. EntriesOk(pte)
      BY <3>1, TablesTyped
    <3> QED BY <1>1, <2>3, <3>2 DEF EntriesOk
  <2>5. /\ pte'[c][v] # NoPte /\ pte'[c][v].page = pte[e][v].page
        /\ "LIBRARY" \in pte'[c][v].perm <=> "LIBRARY" \in pte[e][v].perm
    BY <2>3, <2>4 DEF NoPte
  <2>6. Sees(c, v)' = Sees(e, v)
    BY <2>2, <2>3, <2>5 DEF Sees
  <2>7. UserSpaces[e][v] = Sees(e, v)
    BY <1>1, <1>3 DEF UserSpaces
  <2>8. UserSpaces' = [UserSpaces EXCEPT ![c][v] = UserSpaces[e][v]]
    BY <1>3, <2>1, <2>6, <2>7, OneSpace
  <2>9. HeapNow
    BY <1>1, HeapChange
  <2> QED BY <1>3, <2>8, <2>9, Inherited
<1> QED BY <1>2, <1>3

-----------------------------------------------------------------------------
(* Steps of programs and of the kernel.                                    *)

StepOk == SpaceInv' /\ NextSpace

(* Nothing changes that the invariant or the spaces are about.             *)
LEMMA StillOk ==
  ASSUME SpaceInv, ShareInv', UNCHANGED <<pte, mem, op, cow, env_status>>
  PROVE  StepOk
<1>1. LibraryOk' /\ CopyOk' /\ ForkedOk'
  BY DEF SpaceInv, LibraryOk, CopyOk, Copies, ForkedOk, Forked
<1>2. SpaceInv'
  BY <1>1 DEF SpaceInv
<1>3. \A y \in Env : \A u \in UserVa : Sees(y, u)' = Sees(y, u)
  BY DEF Sees, BeingDuped
<1>4. SharedPages' = SharedPages
  BY DEF SharedPages
<1>5. SharedHeap' = SharedHeap /\ StartedEnvs' = StartedEnvs /\ UserSpaces' = UserSpaces
  BY <1>3, <1>4, SpacesKept DEF SharedHeap, StartedEnvs
<1> QED BY <1>2, <1>5 DEF StepOk, NextSpace, Spaces!spaceVars

(* An env that runs its program, or is in the kernel for it, changes an    *)
(* entry of its own.                                                       *)
LEMMA ProgramOk ==
  ASSUME SpaceInv, ShareInv', NEW e \in Env, env_status[e] = "RUNNABLE", cow[e] = NoCow,
         NEW s \in Va, Change(e, s), Gone(e, s) \/ Same(e, s) \/ (\E perm : Fresh(e, s, perm)),
         UNCHANGED <<op, cow, env_status>>, op[e].at = "dup" => s # op[e].va
  PROVE  StepOk
<1>1. MapInv /\ MapInv' /\ OnlyVa(e, s) /\ Outcome(e, s)
  BY DEF SpaceInv, ShareInv, Change, Outcome
<1>2. LibraryOk'
  BY <1>1, OutcomeAgrees, LibraryKept DEF SpaceInv
<1>3. CopyOk' /\ ForkedOk'
  BY <1>1, CopyKept, ForkedKept DEF SpaceInv
<1>4. SpaceInv'
  BY <1>2, <1>3 DEF SpaceInv
<1>5. SameDup /\ ~ BeingDuped(e, s)
  BY <1>1, DupSame DEF BeingDuped
<1>6. StartedEnvs' = StartedEnvs
  BY DEF StartedEnvs
<1> QED BY <1>4, <1>5, <1>6, OwnStep DEF StepOk

(* sys_mem_alloc.                                                          *)
LEMMA MemAllocOk ==
  ASSUME SpaceInv, ShareInv', NEW e \in Env, NEW s \in UserVa, NEW perm \in UserPerms,
         MemAlloc(e, s, perm)
  PROVE  StepOk
<1>1. /\ Commit(SysMemAlloc(M, e, s, perm)) /\ UNCHANGED <<op, cow, env_status>>
      /\ env_status[e] = "RUNNABLE" /\ cow[e] = NoCow /\ op[e].at = "user" /\ MapInv
  BY DEF MemAlloc, InProgram, InUser, Runs, UserLeaves, envVars, Idle, SpaceInv, ShareInv
<1>2. PICK n : n = SysMemAlloc(M, e, s, perm)
  OBVIOUS
<1>3. pte' = n.pte /\ mem' = n.mem /\ perm \in Perms /\ s \in Va
  BY <1>1, <1>2, Addresses DEF Commit, UserPerms, Perms
<1>4. Good(M, {}) /\ M.pte = pte /\ M.mem = mem
  BY <1>1, Now DEF M, Mem
<1>5. Change(e, s) /\ (Gone(e, s) \/ Same(e, s) \/ Fresh(e, s, perm))
  BY <1>1, <1>2, <1>3, <1>4, AllocChange
<1> QED BY <1>1, <1>3, <1>5, ProgramOk

(* sys_mem_unmap.                                                          *)
LEMMA MemUnmapOk ==
  ASSUME SpaceInv, ShareInv', NEW e \in Env, NEW s \in UserVa, MemUnmap(e, s)
  PROVE  StepOk
<1>1. /\ Commit(PageRemove(M, e, s)) /\ UNCHANGED <<op, cow, env_status>> /\ s \in Va
      /\ env_status[e] = "RUNNABLE" /\ cow[e] = NoCow /\ op[e].at = "user" /\ MapInv
  BY Addresses DEF MemUnmap, InProgram, InUser, Runs, UserLeaves, envVars, Idle, SpaceInv, ShareInv
<1>2. Change(e, s) /\ Gone(e, s)
  BY <1>1, RemoveChange
<1> QED BY <1>1, <1>2, ProgramOk

(* The kernel halts.                                                       *)
LEMMA HaltsOk ==
  ASSUME SpaceInv, ShareInv', NEW why, Halts(why)
  PROVE  StepOk
BY StillOk DEF Halts, pageVars, envVars

(* do_tlb_refill.                                                          *)
LEMMA DoTlbRefillOk ==
  ASSUME SpaceInv, ShareInv', NEW e \in Env, NEW s \in Slot, DoTlbRefill(e, s)
  PROVE  StepOk
<1>1. s \in Touches(e) /\ MapInv /\ ShareInv /\ env_status[e] = "RUNNABLE"
  BY DEF DoTlbRefill, Runs, SpaceInv, ShareInv
<1>2. CASE ~ PassiveOk(M, e, s)
  BY <1>2, HaltsOk DEF DoTlbRefill
<1>3. CASE PassiveOk(M, e, s)
  <2>1. PICK i, n : i = TlbInvalidate(M, env_asid[e], s) /\ n = PassiveAlloc(i, e, s)
    OBVIOUS
  <2>2. Refill(n, e, s) /\ UNCHANGED <<op, cow, env_status>>
    BY <1>3, <2>1 DEF DoTlbRefill, envVars
  <2>3. pte' = n.pte /\ mem' = n.mem
    BY <2>2 DEF Refill, Commit, Mem
  <2>4. Good(i, {}) /\ i.pte = pte /\ i.mem = mem /\ PassiveOk(i, e, s)
    <3>1. Good(M, {})
      BY <1>1, Now
    <3>2. Good(i, {})
      BY <2>1, <3>1, GoodInvalidate
    <3>3. PassiveOk(i, e, s)
      BY <1>3, <2>1, PassiveOkInvalidated
    <3>4. i.pte = pte /\ i.mem = mem
      BY <2>1 DEF M, TlbInvalidate, Mem
    <3> QED BY <3>2, <3>3, <3>4
  <2>5. CASE pte[e][s] # NoPte
    <3>1. pte' = pte /\ mem' = mem
      BY <2>1, <2>3, <2>4, <2>5 DEF PassiveAlloc
    <3> QED BY <2>2, <3>1, StillOk
  <2>6. CASE pte[e][s] = NoPte
    <3>1. s \in Va /\ cow[e] = NoCow
      BY <1>1, <2>6, Addresses DEF Touches, WritesTo
    <3>2. Change(e, s) /\ (Same(e, s) \/ Fresh(e, s, {"D"}))
      BY <1>1, <2>1, <2>3, <2>4, <3>1, PassiveChange
    <3>3. op[e].at = "dup" => s # op[e].va
      BY <1>1, <2>6, Scratch
    <3> QED BY <1>1, <2>2, <3>1, <3>2, <3>3, ProgramOk
  <2> QED BY <2>5, <2>6
<1> QED BY <1>2, <1>3

(* Where a page that a program writes is: a page in all its entries shared *)
(* by PTE_LIBRARY, or a private one that no other entry shows.             *)
LEMMA WrittenPage ==
  ASSUME SpaceInv, NEW e \in Env, env_status[e] = "RUNNABLE", cow[e] = NoCow,
         NEW s \in UserVa, Private(pte[e][s]), NEW y \in Env, NEW u \in UserVa,
         pte[y][u].page = pte[e][s].page, y # e \/ u # s
  PROVE  env_status[y] = "NOT_RUNNABLE" /\ BeingDuped(y, u)
<1>1. s \in Va /\ u \in Va /\ s # UTEMP /\ u # UTEMP
  BY Addresses
<1>2. MayShare(e, s, y, u)
  BY <1>1 DEF SpaceInv, ShareInv, SharingOk
<1>3. Protecting(e, s, y, u)
  BY <1>1, <1>2 DEF MayShare, Remapped, Giving, NoCow
<1>4. env_status[y] = "NOT_RUNNABLE"
  BY <1>3 DEF Protecting, SpaceInv, ShareInv, MapInv, BuildsChild
<1> QED BY <1>3, <1>4 DEF BeingDuped, Protecting

(* The pages the handler of another env copies are not written.            *)
LEMMA CopiedPage ==
  ASSUME SpaceInv, NEW e \in Env, env_status[e] = "RUNNABLE", cow[e] = NoCow,
         NEW s \in UserVa, "D" \in pte[e][s].perm, NEW x \in Env,
         cow[x].at \in {"alloc", "copy", "map"}
  PROVE  /\ pte[x][cow[x].va].page # pte[e][s].page
         /\ cow[x].at = "map" => pte[x][UCOW].page # pte[e][s].page
<1>1. /\ x # e /\ cow[x] # NoCow /\ env_status[x] = "RUNNABLE" /\ cow[x].va \in UserVa
      /\ "LIBRARY" \notin pte[x][cow[x].va].perm
  BY DEF NoCow, SpaceInv, ShareInv, MapInv, HandlerOk, CopyOk, Copies
<1>2. s \in Va /\ UCOW \in Va /\ cow[x].va \in Va /\ UCOW # USTACK /\ UCOW # UTEMP
  BY <1>1, Addresses, MapAssumption
<1>3. ASSUME pte[x][cow[x].va].page = pte[e][s].page PROVE FALSE
  <2>1. Private(pte[e][s])
    BY <1>1, <1>2, <1>3 DEF SpaceInv, LibraryOk, Private, NoPte
  <2> QED BY <1>1, <1>3, <2>1, WrittenPage
<1>4. ASSUME cow[x].at = "map", pte[x][UCOW].page = pte[e][s].page PROVE FALSE
  <2>1. Private(pte[x][UCOW]) /\ ~ (op[x].at = "dup" /\ UCOW = op[x].va) /\ ShareInv
    BY <1>4, Scratch DEF SpaceInv, HandlerScratch
  <2>2. e = x /\ s = UCOW
    BY <1>1, <1>2, <1>4, <2>1, NobodyElse
  <2> QED BY <1>1, <2>2
<1> QED BY <1>3, <1>4

(* A program stores a word.                                                *)
LEMMA StoreKeepsInv ==
  ASSUME SpaceInv, ShareInv', NEW e \in Env, env_status[e] = "RUNNABLE", cow[e] = NoCow,
         NEW s \in UserVa, "D" \in pte[e][s].perm, NEW w, mem' = [mem EXCEPT ![pte[e][s].page] = w],
         UNCHANGED <<pte, op, cow>>
  PROVE  SpaceInv'
<1>1. LibraryOk' /\ ForkedOk'
  BY DEF SpaceInv, LibraryOk, ForkedOk, Forked
<1>2. mem \in [Pages -> Words] /\ pte \in [Env -> [Slot -> Pte \cup {NoPte}]]
  BY DEF SpaceInv, ShareInv, MapInv, PagesOk, PageType
<1>3. \A q : q # pte[e][s].page => mem'[q] = mem[q]
  BY <1>2
<1>4. ASSUME NEW x \in Env, cow[x].at \in {"alloc", "copy", "map"} PROVE Copies(x)'
  <2>1. Copies(x)
    BY <1>4 DEF SpaceInv, CopyOk
  <2>2. /\ pte[x][cow[x].va].page # pte[e][s].page
        /\ cow[x].at = "map" => pte[x][UCOW].page # pte[e][s].page
    BY <1>4, CopiedPage
  <2> QED BY <1>3, <2>1, <2>2 DEF Copies
<1>5. CopyOk'
  BY <1>4 DEF CopyOk
<1> QED BY <1>1, <1>5 DEF SpaceInv

(* The word of a private page.                                             *)
LEMMA StorePrivate ==
  ASSUME SpaceInv, NEW e \in Env, env_status[e] = "RUNNABLE", cow[e] = NoCow,
         NEW s \in UserVa, Private(pte[e][s]), NEW w \in Words,
         mem' = [mem EXCEPT ![pte[e][s].page] = w], UNCHANGED <<pte, op, env_status>>
  PROVE  NextSpace
<1>1. s \in Va /\ pte[e][s] # NoPte /\ "LIBRARY" \notin pte[e][s].perm
  BY Addresses DEF Private
<1>2. /\ mem \in [Pages -> Words] /\ pte[e][s].page \in Pages
  <2>1. pte[e][s] \in Pte \cup {NoPte} /\ mem \in [Pages -> Words]
    BY <1>1, Addresses DEF SpaceInv, ShareInv, MapInv, PagesOk, PageType
  <2> QED BY <1>1, <2>1 DEF Pte
<1>3. mem'[pte[e][s].page] = w /\ \A q : q # pte[e][s].page => mem'[q] = mem[q]
  BY <1>2
<1>4. \A y \in Env : \A u \in UserVa : BeingDuped(y, u)' <=> BeingDuped(y, u)
  BY DEF BeingDuped
<1>5. ~ BeingDuped(e, s) /\ ~ BeingDuped(e, s)'
  BY <1>4 DEF BeingDuped
<1>6. PICK new : new = Spaces!Private(w)
  OBVIOUS
<1>7. Sees(e, s)' = new
  BY <1>1, <1>3, <1>5, <1>6 DEF Sees, Spaces!Private
<1>8. ASSUME NEW y \in Env, NEW u \in UserVa, y # e \/ u # s PROVE Sees(y, u)' = Sees(y, u)
  <2>1. CASE pte[y][u].page = pte[e][s].page
    <3>1. BeingDuped(y, u)
      BY <1>8, <2>1, WrittenPage
    <3> QED BY <1>4, <3>1 DEF Sees
  <2>2. CASE pte[y][u].page # pte[e][s].page
    BY <1>3, <1>4, <2>2 DEF Sees
  <2> QED BY <2>1, <2>2
<1>9. UserSpaces' = [UserSpaces EXCEPT ![e][s] = new]
  BY <1>7, <1>8, OneSpace
<1>10. SharedHeap' = SharedHeap
  <2>1. pte[e][s].page \notin SharedPages
    <3> SUFFICES ASSUME pte[e][s].page \in SharedPages PROVE FALSE
      OBVIOUS
    <3>1. PICK y \in Env, u \in UserVa : "LIBRARY" \in pte[y][u].perm /\ pte[y][u].page = pte[e][s].page
      BY SharedPage
    <3> QED BY <1>1, <3>1, Addresses DEF SpaceInv, LibraryOk
  <2>2. SharedPages' = SharedPages
    BY DEF SharedPages
  <2> QED BY <1>3, <2>1, <2>2 DEF SharedHeap
<1>11. UserSpaces[e][s].kind = "private"
  <2>1. UserSpaces[e][s] = Sees(e, s)
    BY DEF UserSpaces
  <2> QED BY <1>1, <1>5, <2>1 DEF Sees
<1>12. e \in StartedEnvs /\ StartedEnvs' = StartedEnvs
  BY DEF StartedEnvs
<1>13. Spaces!Store(e, s)
  BY <1>6, <1>9, <1>10, <1>11, <1>12 DEF Spaces!Store
<1>14. CASE UserSpaces' = UserSpaces
  BY <1>10, <1>12, <1>14 DEF NextSpace, Spaces!spaceVars
<1>15. CASE UserSpaces' # UserSpaces
  BY <1>12, <1>13, <1>15 DEF NextSpace, Spaces!SpaceNext, Spaces!MemoryStep
<1> QED BY <1>14, <1>15

(* The word of an object.                                                  *)
LEMMA StoreShared ==
  ASSUME SpaceInv, NEW e \in Env, env_status[e] = "RUNNABLE",
         NEW s \in UserVa, "LIBRARY" \in pte[e][s].perm, NEW w \in Words,
         mem' = [mem EXCEPT ![pte[e][s].page] = w], UNCHANGED <<pte, op, env_status>>
  PROVE  NextSpace
<1>1. s \in Va /\ pte[e][s] # NoPte
  BY Addresses DEF NoPte
<1>2. /\ mem \in [Pages -> Words] /\ pte[e][s].page \in Pages
  <2>1. pte[e][s] \in Pte \cup {NoPte} /\ mem \in [Pages -> Words]
    BY <1>1, Addresses DEF SpaceInv, ShareInv, MapInv, PagesOk, PageType
  <2> QED BY <1>1, <2>1 DEF Pte
<1>3. mem'[pte[e][s].page] = w /\ \A q : q # pte[e][s].page => mem'[q] = mem[q]
  BY <1>2
<1>4. \A y \in Env : \A u \in UserVa : BeingDuped(y, u)' <=> BeingDuped(y, u)
  BY DEF BeingDuped
<1>5. ~ BeingDuped(e, s)
  BY DEF BeingDuped
<1>6. ASSUME NEW y \in Env, NEW u \in UserVa PROVE Sees(y, u)' = Sees(y, u)
  <2>1. CASE pte[y][u].page = pte[e][s].page
    <3>1. "LIBRARY" \in pte[y][u].perm
      BY <1>1, <2>1, Addresses DEF SpaceInv, LibraryOk
    <3> QED BY <1>4, <3>1 DEF Sees
  <2>2. CASE pte[y][u].page # pte[e][s].page
    BY <1>3, <1>4, <2>2 DEF Sees
  <2> QED BY <2>1, <2>2
<1>7. UserSpaces' = UserSpaces
  BY <1>6, SpacesKept
<1>8. UserSpaces[e][s].kind = "shared" /\ UserSpaces[e][s].obj = pte[e][s].page
  <2>1. UserSpaces[e][s] = Sees(e, s)
    BY DEF UserSpaces
  <2> QED BY <1>1, <1>5, <2>1 DEF Sees
<1>9. SharedHeap' = [SharedHeap EXCEPT ![UserSpaces[e][s].obj] = w]
  <2>1. SharedPages' = SharedPages /\ pte[e][s].page \in SharedPages
    BY SharedPage DEF SharedPages
  <2>2. SharedHeap' = [p \in SharedPages |-> mem'[p]]
    BY <2>1 DEF SharedHeap
  <2> QED BY <1>3, <1>8, <2>1, <2>2 DEF SharedHeap
<1>10. e \in StartedEnvs /\ StartedEnvs' = StartedEnvs
  BY DEF StartedEnvs
<1>11. Spaces!Store(e, s)
  BY <1>7, <1>8, <1>9, <1>10 DEF Spaces!Store
<1>12. CASE SharedHeap' = SharedHeap
  BY <1>7, <1>10, <1>12 DEF NextSpace, Spaces!spaceVars
<1>13. CASE SharedHeap' # SharedHeap
  BY <1>10, <1>11, <1>13 DEF NextSpace, Spaces!SpaceNext, Spaces!MemoryStep
<1> QED BY <1>12, <1>13

LEMMA StoreOk ==
  ASSUME SpaceInv, ShareInv', NEW e \in Env, NEW s \in UserVa, NEW w \in Words, Store(e, s, w)
  PROVE  StepOk
<1>1. /\ env_status[e] = "RUNNABLE" /\ cow[e] = NoCow /\ MapInv
      /\ UNCHANGED <<pte, op, cow, env_status>>
  BY DEF Store, InUser, Runs, envVars, SpaceInv, ShareInv
<1>2. PICK h \in Hits(e, s) : "D" \in h.perm /\ mem' = [mem EXCEPT ![h.page] = w]
  BY DEF Store
<1>3. pte[e][s] = h /\ h # NoPte
  BY <1>1, <1>2, HitIsEntry
<1>4. SpaceInv'
  BY <1>1, <1>2, <1>3, StoreKeepsInv
<1>5. CASE "LIBRARY" \in h.perm
  BY <1>1, <1>2, <1>3, <1>4, <1>5, StoreShared DEF StepOk
<1>6. CASE "LIBRARY" \notin h.perm
  <2>1. Private(pte[e][s])
    BY <1>2, <1>3, <1>6 DEF Private
  <2> QED BY <1>1, <1>2, <1>3, <1>4, <2>1, StorePrivate DEF StepOk
<1> QED BY <1>5, <1>6

(* A step of e that leaves the copies of the other handlers and what forks *)
(* have given their children.                                              *)
LEMMA InvAfter ==
  ASSUME SpaceInv, ShareInv', NEW e \in Env, env_status[e] = "RUNNABLE", NEW s \in Va, Change(e, s),
         Agrees(e, s), op' = op, op[e].at = "dup" => s # op[e].va,
         \A x \in Env : x # e => cow'[x] = cow[x], CopyKeeps(e)
  PROVE  SpaceInv'
<1>1. MapInv /\ MapInv' /\ OnlyVa(e, s) /\ LibraryOk /\ CopyOk /\ ForkedOk
  BY DEF SpaceInv, ShareInv, Change
<1>2. LibraryOk'
  BY <1>1, LibraryKept
<1>3. ForkedOk'
  BY <1>1, ForkedKept
<1>4. \A x \in Env : CopyKeeps(x)
  BY <1>1, CopyStays
<1>5. CopyOk'
  BY <1>4 DEF CopyOk, CopyKeeps
<1> QED BY <1>2, <1>3, <1>5 DEF SpaceInv

-----------------------------------------------------------------------------
(* cow_entry.                                                              *)

LEMMA HandlerAfter ==
  ASSUME SpaceInv, ShareInv', NEW e \in Env, Runs(e), cow[e].at \in {"alloc", "copy", "map", "unmap"},
         NEW s, NEW h, HandlerGoes(e, s, h), env_status' = env_status,
         Change(e, s), Agrees(e, s), CopyKeeps(e)
  PROVE  /\ SpaceInv' /\ SameDup /\ StartedEnvs' = StartedEnvs /\ ~ BeingDuped(e, s) /\ s \in Va
<1>1. MapInv /\ MapInv' /\ ShareInv /\ env_status[e] = "RUNNABLE" /\ cow[e] # NoCow
  BY DEF SpaceInv, ShareInv, Runs, NoCow
<1>2. s \in Va
  BY <1>1, HandlerState DEF HandlerGoes
<1>3. op' = op /\ \A x \in Env : x # e => cow'[x] = cow[x]
  BY <1>1 DEF HandlerGoes, MapInv, RoutineType
<1>4. op[e].at = "dup" => s # op[e].va
  <2>1. op[e].at = "dup" => cow[e].va # op[e].va /\ op[e].va # UCOW
    BY <1>1, Scratch DEF RoutineScratch
  <2> QED BY <2>1 DEF HandlerGoes
<1>5. SpaceInv'
  BY <1>1, <1>2, <1>3, <1>4, InvAfter
<1>6. SameDup /\ StartedEnvs' = StartedEnvs
  BY <1>1, <1>3, DupSame DEF StartedEnvs
<1> QED BY <1>1, <1>2, <1>5, <1>6 DEF BeingDuped

(* It allocates a page at UCOW, or fails to.                               *)
LEMMA CowAllocOk ==
  ASSUME SpaceInv, ShareInv', NEW e \in Env, CowAlloc(e)
  PROVE  StepOk
<1>1. PICK h, n : /\ h = [at |-> "copy", va |-> cow[e].va, perm |-> cow[e].perm]
                  /\ n = SysMemAlloc(M, e, UCOW, cow[e].perm)
  OBVIOUS
<1>2. /\ Runs(e) /\ cow[e].at = "alloc" /\ pte' = n.pte /\ mem' = n.mem
      /\ UNCHANGED <<op, env_status>> /\ cow' = [cow EXCEPT ![e] = h] /\ MapInv
  BY <1>1 DEF CowAlloc, Commit, CowGoes, CowLeaves, envVars, SpaceInv, ShareInv
<1>3. UCOW \in Va /\ cow[e].perm \in Perms /\ cow[e].va \in Va /\ cow[e].va # UCOW
  BY <1>2, HandlerState
<1>4. Good(M, {}) /\ M.pte = pte /\ M.mem = mem
  BY <1>2, Now DEF M, Mem
<1>5. PICK perm : perm = cow[e].perm
  OBVIOUS
<1>6. Change(e, UCOW) /\ (Gone(e, UCOW) \/ Same(e, UCOW) \/ Fresh(e, UCOW, perm))
  BY <1>1, <1>2, <1>3, <1>4, <1>5, AllocChange
<1>7. HandlerGoes(e, UCOW, h)
  BY <1>1, <1>2, <1>6 DEF HandlerGoes, Change
<1>8. CopyKeeps(e)
  <2>1. cow'[e] = h
    BY <1>2 DEF MapInv, RoutineType
  <2>2. pte'[e][cow[e].va] = pte[e][cow[e].va]
    BY <1>3, <1>6 DEF Change, OnlyVa
  <2>3. Copies(e)
    BY <1>2 DEF SpaceInv, CopyOk
  <2> QED BY <1>1, <2>1, <2>2, <2>3 DEF CopyKeeps, Copies
<1>9. Agrees(e, UCOW)
  BY <1>6 DEF Agrees, Same, Fresh
<1>10. /\ SpaceInv' /\ SameDup /\ StartedEnvs' = StartedEnvs /\ ~ BeingDuped(e, UCOW) /\ UCOW \in Va
  BY <1>2, <1>6, <1>7, <1>8, <1>9, HandlerAfter
<1> QED BY <1>6, <1>10, OwnStep DEF StepOk

(* It unmaps UCOW.                                                         *)
LEMMA CowUnmapOk ==
  ASSUME SpaceInv, ShareInv', NEW e \in Env, CowUnmap(e)
  PROVE  StepOk
<1>1. /\ Runs(e) /\ cow[e].at = "unmap" /\ op' = op /\ Commit(PageRemove(M, e, UCOW))
      /\ cow' = [cow EXCEPT ![e] = NoCow] /\ MapInv /\ UCOW \in Va /\ env_status' = env_status
  BY Addresses DEF CowUnmap, CowLeaves, envVars, SpaceInv, ShareInv
<1>2. Change(e, UCOW) /\ Gone(e, UCOW)
  BY <1>1, RemoveChange
<1>3. HandlerGoes(e, UCOW, NoCow)
  BY <1>1, <1>2 DEF HandlerGoes, Change
<1>4. CopyKeeps(e)
  <2>1. cow'[e] = NoCow
    BY <1>1 DEF MapInv, RoutineType
  <2> QED BY <2>1 DEF CopyKeeps, NoCow
<1>5. Agrees(e, UCOW)
  BY <1>2 DEF Agrees
<1>6. /\ SpaceInv' /\ SameDup /\ StartedEnvs' = StartedEnvs /\ ~ BeingDuped(e, UCOW) /\ UCOW \in Va
  BY <1>1, <1>2, <1>3, <1>4, <1>5, HandlerAfter
<1> QED BY <1>2, <1>6, OwnStep DEF StepOk

(* A new page that is written at once.                                     *)
LEMMA FilledPage ==
  ASSUME MapInv, NEW e \in Env, NEW s \in Va, NEW perm \in Perms, NEW n,
         n = SysMemAlloc(M, e, s, perm), AllocOk(M, e, s), NEW w,
         pte' = n.pte, mem' = [n.mem EXCEPT ![n.pte[e][s].page] = w]
  PROVE  /\ Change(e, s) /\ Unheld(e, s) /\ pte'[e][s] # NoPte
         /\ pte'[e][s].perm = perm /\ mem'[pte'[e][s].page] = w
<1>1. Good(M, {}) /\ TlbType /\ M.pte = pte /\ M.mem = mem /\ s \in Slot \ {UVPT} /\ s \in Slot
  BY Now, Addresses DEF M, Mem
<1>2. /\ Good(n, {})
      /\ AllocOk(M, e, s) => /\ First(M) \in Pages /\ M.ref[First(M)] = 0
                             /\ n.pte[e][s] = [page |-> First(M), perm |-> perm]
      /\ ~ AllocOk(M, e, s) => n.pte[e][s] = NoPte \/ n.pte[e][s] = M.pte[e][s]
      /\ Frame(M, n, e, s)
  BY <1>1, GoodMemAlloc
<1>3. /\ \A q : InUse(M, e, s, q) => n.mem[q] = M.mem[q]
      /\ AllocOk(M, e, s) => n.mem[First(M)] = 0
      /\ ~ AllocOk(M, e, s) => n = M \/ n.pte[e][s] = NoPte
  BY <1>1, AllocWord
<1>4. PICK p : p = First(M)
  OBVIOUS
<1>5. p \in Pages /\ M.ref[p] = 0 /\ pte'[e][s].page = p /\ pte'[e][s].perm = perm
      /\ mem' = [n.mem EXCEPT ![p] = w] /\ n.mem \in [Pages -> Words]
  BY <1>2, <1>4 DEF Good, IsMem
<1>6. p \in M.free
  <2>1. M.free # {} /\ M.free \subseteq Pages
    BY <1>1 DEF AllocOk, Good, IsMem
  <2> QED BY <1>4, <2>1, FirstFree
<1>7. \A q : InUse(M, e, s, q) => mem'[q] = M.mem[q]
  BY <1>3, <1>5, <1>6 DEF InUse
<1>8. Keeps(e, s)
  BY <1>1, <1>7, KeepsWords
<1>9. OnlyVa(e, s)
  BY <1>1, <1>2, FrameEffect
<1>10. \A y \in Env : \A u \in Slot : M.pte[y][u].page # p
  BY <1>1, <1>5, ZeroIsUnheld DEF Good
<1>11. Unheld(e, s)
  BY <1>1, <1>5, <1>10, Addresses DEF Unheld
<1>12. pte'[e][s] # NoPte
  BY <1>5 DEF NoPte, Pages
<1> QED BY <1>5, <1>8, <1>9, <1>11, <1>12 DEF Change

(* The page at UCOW that the handler copies to.                            *)
CopiesWord(e, n, w) ==
  /\ Runs(e) /\ cow[e].at = "copy" /\ PassiveOk(M, e, UCOW) /\ n = PassiveAlloc(M, e, UCOW)
  /\ pte' = n.pte /\ mem' = [n.mem EXCEPT ![n.pte[e][UCOW].page] = w]

LEMMA CopyChange ==
  ASSUME ShareInv, NEW e \in Env, NEW n, NEW w, CopiesWord(e, n, w)
  PROVE  /\ Change(e, UCOW) /\ Agrees(e, UCOW) /\ mem'[pte'[e][UCOW].page] = w
         /\ Unheld(e, UCOW) \/ (pte' = pte /\ Private(pte[e][UCOW]))
         /\ \A q : q # pte'[e][UCOW].page => mem'[q] = n.mem[q]
<1>0. /\ Runs(e) /\ cow[e].at = "copy" /\ PassiveOk(M, e, UCOW) /\ n = PassiveAlloc(M, e, UCOW)
      /\ pte' = n.pte /\ mem' = [n.mem EXCEPT ![n.pte[e][UCOW].page] = w]
  BY DEF CopiesWord
<1>1. MapInv /\ UCOW \in Va /\ M.pte = pte /\ M.mem = mem /\ mem \in [Pages -> Words]
  BY Addresses DEF ShareInv, M, Mem, MapInv, PagesOk, PageType
<1>2. n.mem \in [Pages -> Words] /\ n.pte[e][UCOW].page \in Pages
  <2>1. Good(M, {}) /\ TlbType /\ UCOW \in Slot \ {UVPT}
    BY <1>1, Now, Addresses
  <2>2. Good(n, {}) /\ n.pte[e][UCOW] # NoPte
    BY <1>0, <2>1, GoodPassive
  <2>3. n.pte[e][UCOW].page \in Pages
    BY <2>1, <2>2, HeldIsCounted DEF Good
  <2> QED BY <2>2, <2>3 DEF Good, IsMem
<1>3. mem'[pte'[e][UCOW].page] = w /\ \A q : q # pte'[e][UCOW].page => mem'[q] = n.mem[q]
  BY <1>0, <1>2
<1>4. CASE pte[e][UCOW] = NoPte
  <2>1. PICK perm \in Perms : perm = {"D"}
    BY DEF Perms
  <2>2. n = SysMemAlloc(M, e, UCOW, perm) /\ AllocOk(M, e, UCOW)
    BY <1>0, <1>1, <1>4, <2>1 DEF PassiveAlloc, PassiveOk
  <2>3. Change(e, UCOW) /\ Unheld(e, UCOW)
    BY <1>0, <1>1, <2>2, FilledPage
  <2> QED BY <1>3, <2>3 DEF Agrees
<1>5. CASE pte[e][UCOW] # NoPte
  <2>1. n = M /\ pte' = pte
    BY <1>0, <1>1, <1>5 DEF PassiveAlloc
  <2>2. Private(pte[e][UCOW]) /\ ~ (op[e].at = "dup" /\ UCOW = op[e].va)
    BY <1>0, <1>5, Scratch DEF HandlerScratch
  <2>3. ASSUME NEW y \in Env, NEW u \in Va, y # e \/ u # UCOW
        PROVE  mem'[pte[y][u].page] = mem[pte[y][u].page]
    <3>1. UCOW # UTEMP /\ UCOW # USTACK
      BY MapAssumption DEF Va
    <3>2. pte[y][u].page # pte[e][UCOW].page
      BY <1>0, <1>1, <2>2, <2>3, <3>1, NobodyElse DEF Runs
    <3> QED BY <1>1, <1>3, <2>1, <3>2
  <2>4. Change(e, UCOW)
    BY <2>1, <2>3 DEF Change, Keeps, OnlyVa
  <2> QED BY <1>3, <2>1, <2>2, <2>4 DEF Agrees
<1> QED BY <1>4, <1>5

(* It copies the page; the kernel allocates one if it must.                *)
LEMMA CowCopyOk ==
  ASSUME SpaceInv, ShareInv', NEW e \in Env, CowCopy(e)
  PROVE  StepOk
<1>1. CASE Halts("passive_alloc: out of memory")
  BY <1>1, HaltsOk
<1>2. CASE PassiveOk(M, e, UCOW)
  <2>1. PICK h, n, w : /\ h = [at |-> "map", va |-> cow[e].va, perm |-> cow[e].perm]
                       /\ n = PassiveAlloc(M, e, UCOW)
                       /\ w = n.mem[n.pte[e][cow[e].va].page]
    OBVIOUS
  <2>2. /\ Runs(e) /\ cow[e].at = "copy" /\ UNCHANGED <<op, env_status>>
        /\ cow' = [cow EXCEPT ![e] = h] /\ MapInv /\ Commit(Copied(n, e)) /\ ShareInv
    BY <1>2, <2>1 DEF CowCopy, CowGoes, CowLeaves, envVars, SpaceInv, ShareInv
  <2>3. pte' = n.pte /\ mem' = [n.mem EXCEPT ![n.pte[e][UCOW].page] = w]
    BY <2>1, <2>2 DEF Commit, Copied, Writes, Mem
  <2>4. UCOW \in Va /\ cow[e].va \in Va /\ cow[e].va # UCOW
    BY <2>2, HandlerState
  <2>5. /\ Change(e, UCOW) /\ Agrees(e, UCOW) /\ mem'[pte'[e][UCOW].page] = w
        /\ Unheld(e, UCOW) \/ (pte' = pte /\ Private(pte[e][UCOW]))
        /\ \A q : q # pte'[e][UCOW].page => mem'[q] = n.mem[q]
    <3>1. CopiesWord(e, n, w)
      BY <1>2, <2>1, <2>2, <2>3 DEF CopiesWord
    <3> QED BY <2>2, <3>1, CopyChange
  <2>6. HandlerGoes(e, UCOW, h)
    BY <2>1, <2>2, <2>5 DEF HandlerGoes, Change
  <2>7. CopyKeeps(e)
    <3>1. cow'[e] = h
      BY <2>2 DEF MapInv, RoutineType
    <3>2. Copies(e)
      BY <2>2 DEF SpaceInv, CopyOk
    <3>3. pte'[e][cow[e].va] = pte[e][cow[e].va]
      BY <2>4, <2>5 DEF Change, OnlyVa
    <3>4. pte'[e][cow[e].va].page # pte'[e][UCOW].page
      <4>1. CASE Unheld(e, UCOW)
        BY <2>4, <3>3, <4>1 DEF Unheld
      <4>2. CASE pte' = pte /\ Private(pte[e][UCOW])
        <5>1. ~ (op[e].at = "dup" /\ UCOW = op[e].va)
          BY <2>2, Scratch
        <5>2. UCOW # UTEMP /\ UCOW # USTACK
          BY MapAssumption DEF Va
        <5> QED BY <2>2, <2>4, <4>2, <5>1, <5>2, NobodyElse DEF Runs
      <4> QED BY <2>5, <4>1, <4>2
    <3>5. mem'[pte'[e][cow[e].va].page] = w
      BY <2>1, <2>3, <2>5, <3>4
    <3> QED BY <2>1, <2>5, <3>1, <3>2, <3>3, <3>5 DEF CopyKeeps, Copies
  <2>8. /\ SpaceInv' /\ SameDup /\ StartedEnvs' = StartedEnvs /\ ~ BeingDuped(e, UCOW) /\ UCOW \in Va
    BY <2>2, <2>5, <2>6, <2>7, HandlerAfter
  <2> QED BY <2>5, <2>8, ElsewhereStep, Addresses DEF StepOk
<1> QED BY <1>1, <1>2 DEF CowCopy

(* It maps its copy over the page.                                         *)
LEMMA CowMapOk ==
  ASSUME SpaceInv, ShareInv', NEW e \in Env, CowMap(e)
  PROVE  StepOk
<1>1. PICK h, n, v, perm : /\ h = [at |-> "unmap", va |-> cow[e].va, perm |-> cow[e].perm]
                           /\ n = SysMemMap(M, e, UCOW, e, v, perm)
                           /\ v = cow[e].va /\ perm = cow[e].perm
  OBVIOUS
<1>2. /\ Runs(e) /\ cow[e].at = "map" /\ pte' = n.pte /\ mem' = n.mem
      /\ UNCHANGED <<op, env_status>> /\ cow' = [cow EXCEPT ![e] = h] /\ MapInv /\ ShareInv
  BY <1>1 DEF CowMap, Commit, CowGoes, CowLeaves, envVars, SpaceInv, ShareInv
<1>3. /\ UCOW \in Va /\ perm \in Perms /\ v \in Va /\ v \in UserVa /\ env_status[e] = "RUNNABLE"
  BY <1>1, <1>2, HandlerState
<1>4. Private(pte[e][UCOW]) /\ "LIBRARY" \notin perm
  BY <1>1, <1>2, Scratch DEF HandlerScratch, NoCow
<1>5. /\ Change(e, v)
      /\ MapOk(M, e, UCOW, e, v) => Joined(e, v, e, UCOW, perm)
      /\ ~ MapOk(M, e, UCOW, e, v) => Gone(e, v) \/ Same(e, v)
  BY <1>1, <1>2, <1>3, MapChange
<1>6. Outcome(e, v)
  <2>1. Joined(e, v, e, UCOW, perm) => Shares(e, v, e, UCOW, perm)
    BY <1>4 DEF Shares, Private
  <2> QED BY <1>3, <1>5, <2>1 DEF Outcome
<1>7. HandlerGoes(e, v, h)
  BY <1>1, <1>2, <1>5 DEF HandlerGoes, Change
<1>8. CopyKeeps(e)
  <2>1. cow'[e] = h
    BY <1>2 DEF MapInv, RoutineType
  <2> QED BY <1>1, <2>1 DEF CopyKeeps
<1>9. Agrees(e, v)
  BY <1>3, <1>6, OutcomeAgrees
<1>10. /\ SpaceInv' /\ SameDup /\ StartedEnvs' = StartedEnvs /\ ~ BeingDuped(e, v) /\ v \in Va
  BY <1>2, <1>5, <1>7, <1>8, <1>9, HandlerAfter
<1>11. CASE Gone(e, v) \/ Same(e, v)
  BY <1>5, <1>10, <1>11, OwnStep DEF StepOk
<1>12. CASE Joined(e, v, e, UCOW, perm)
  <2>1. Copies(e)
    BY <1>2 DEF SpaceInv, CopyOk
  <2>2. /\ pte[e][v] # NoPte /\ "LIBRARY" \notin pte[e][v].perm
        /\ mem[pte[e][UCOW].page] = mem[pte[e][v].page]
    BY <1>1, <1>2, <2>1 DEF Copies
  <2>3. /\ pte'[e][v].page = pte[e][UCOW].page /\ "LIBRARY" \notin pte'[e][v].perm
        /\ mem'[pte'[e][v].page] = mem[pte[e][UCOW].page] /\ pte'[e][v] # NoPte
    <3>1. pte[e][UCOW].page # 0
      <4>1. EntriesOk(pte)
        BY <1>10, TablesTyped DEF SpaceInv, ShareInv
      <4> QED BY <1>3, <1>4, <4>1 DEF EntriesOk, Private
    <3> QED BY <1>4, <1>12, <3>1 DEF Joined, NoPte
  <2>4. ~ BeingDuped(e, v)'
    BY <1>3, <1>10 DEF SameDup
  <2>5. Sees(e, v)' = Sees(e, v)
    BY <1>10, <2>2, <2>3, <2>4 DEF Sees
  <2>6. \A y \in Env : \A u \in UserVa : y # e \/ u # v => Sees(y, u)' = Sees(y, u)
    BY <1>5, <1>10, ElseSame DEF SameDup
  <2>7. \A y \in Env : \A u \in UserVa : Sees(y, u)' = Sees(y, u)
    BY <2>5, <2>6
  <2>8. UserSpaces' = UserSpaces
    BY <2>7, SpacesKept
  <2>9. HeapNow
    BY <1>3, <1>5, <1>6, HeapChange
  <2> QED BY <1>10, <2>8, <2>9, Stutters DEF StepOk
<1> QED BY <1>5, <1>11, <1>12

-----------------------------------------------------------------------------
(* fork and spawn.                                                         *)

(* A step of the routine of e, to r, that changes an entry of its own or   *)
(* of its child.                                                           *)
RoutineEntry(e, r, f, s) ==
  /\ RoutineMoves(e, r) /\ s \in Va /\ Change(f, s) /\ Agrees(f, s)
  /\ f = e \/ (op[e].at # "user" /\ f = op[e].child)

LEMMA RoutineAfter ==
  ASSUME SpaceInv, ShareInv', NEW e \in Env, NEW r, NEW f \in Env, NEW s, RoutineEntry(e, r, f, s),
         ForkKeeps(e)
  PROVE  SpaceInv'
<1>1. /\ MapInv /\ MapInv' /\ ShareInv /\ LibraryOk /\ CopyOk /\ ForkedOk
      /\ RoutineMoves(e, r) /\ s \in Va /\ Change(f, s) /\ Agrees(f, s) /\ OnlyVa(f, s)
  BY DEF SpaceInv, ShareInv, RoutineEntry, Change
<1>2. /\ env_status[e] = "RUNNABLE" /\ cow[e] = NoCow /\ op'[e] = r
      /\ \A x \in Env : x # e => op'[x] = op[x]
  BY <1>1, RoutineMoved
<1>3. \A x \in Env : cow'[x] = cow[x]
  BY <1>1 DEF RoutineMoves
<1>4. LibraryOk'
  BY <1>1, LibraryKept
<1>5. cow[f] = NoCow
  BY <1>1, <1>2, ChildState DEF RoutineEntry
<1>6. CopyOk'
  BY <1>1, <1>3, <1>5, CopyKept
<1>7. ASSUME NEW x \in Env, x # e PROVE ForkKeeps(x)
  <2>1. op'[x] = op[x]
    BY <1>2, <1>7
  <2>2. CASE op[x].at = "user"
    BY <2>1, <2>2 DEF ForkKeeps
  <2>3. CASE op[x].at # "user"
    <3>1. env_parent[op[x].child] = x /\ env_status[x] = "RUNNABLE"
      BY <1>1, <2>3 DEF MapInv, BuildsChild
    <3>2. CASE f = e
      <4>1. env_status[f] = "RUNNABLE" /\ x # f
        BY <1>2, <1>7, <3>2
      <4> QED BY <1>1, <2>1, <4>1, ForkStays
    <3>3. CASE f # e
      <4>1. env_parent[f] = e /\ env_status[f] = "NOT_RUNNABLE"
        BY <1>1, <3>3 DEF RoutineEntry, MapInv, BuildsChild
      <4>2. f # op[x].child /\ x # f
        BY <1>7, <3>1, <4>1
      <4> QED BY <1>1, <2>1, <4>2, ForkStays
    <3> QED BY <3>2, <3>3
  <2> QED BY <2>2, <2>3
<1>8. ForkedOk'
  <2>1. \A x \in Env : ForkKeeps(x)
    BY <1>7
  <2> QED BY <2>1 DEF ForkedOk, ForkKeeps
<1> QED BY <1>4, <1>6, <1>8 DEF SpaceInv

(* Which pages duppage is working on, when it is not e that does.          *)
LEMMA RoutineSameDup ==
  ASSUME SpaceInv, SpaceInv', NEW e \in Env, NEW r, RoutineMoves(e, r), op[e].at # "dup", r.at # "dup"
  PROVE  SameDup
<1>1. MapInv /\ MapInv' /\ ShareInv
  BY DEF SpaceInv, ShareInv
<1>2. op'[e] = r /\ \A x \in Env : x # e => op'[x] = op[x]
  BY <1>1, RoutineMoved
<1> QED BY <1>1, <1>2, DupSame

(* Its child is working on nothing of duppage's then.                      *)
LEMMA ChildNotDuped ==
  ASSUME SpaceInv, NEW e \in Env, op[e].at \notin {"user", "dup"}, NEW c, c = op[e].child, NEW v
  PROVE  ~ BeingDuped(c, v) /\ c \in Env /\ c \notin StartedEnvs
<1>1. MapInv
  BY DEF SpaceInv, ShareInv
<1>2. c \in Env /\ env_status[c] = "NOT_RUNNABLE" /\ env_parent[c] = e
  BY <1>1 DEF MapInv, BuildsChild
<1>3. ASSUME NEW x \in Env, op[x].at = "dup", op[x].child = c PROVE FALSE
  BY <1>1, <1>2, <1>3 DEF MapInv, BuildsChild
<1> QED BY <1>2, <1>3 DEF BeingDuped, StartedEnvs

(* The routine ends and its entries are as they were: the child starts, or *)
(* the env exits.                                                          *)
LEMMA EndOk ==
  ASSUME SpaceInv, ShareInv', NEW e \in Env, RoutineMoves(e, Idle), op[e].at # "dup",
         UNCHANGED <<pte, mem>>, NEW x \in Env,
         StartedEnvs' \in {StartedEnvs \cup {x}, StartedEnvs \ {x}}
  PROVE  StepOk
<1>1. MapInv /\ ShareInv
  BY DEF SpaceInv, ShareInv
<1>2. op'[e] = Idle /\ \A y \in Env : y # e => op'[y] = op[y]
  BY <1>1, RoutineMoved
<1>3. LibraryOk' /\ CopyOk' /\ ForkedOk'
  <2>1. \A y \in Env : cow'[y] = cow[y]
    BY DEF RoutineMoves
  <2>2. LibraryOk' /\ CopyOk'
    BY <2>1 DEF SpaceInv, LibraryOk, CopyOk, Copies
  <2>3. ForkedOk'
    BY <1>2 DEF SpaceInv, ForkedOk, Forked, Idle
  <2> QED BY <2>2, <2>3
<1>4. SpaceInv'
  BY <1>3 DEF SpaceInv
<1>5. SameDup
  BY <1>4, RoutineSameDup DEF Idle
<1>6. \A y \in Env : \A u \in UserVa : Sees(y, u)' = Sees(y, u)
  BY <1>5 DEF Sees, SameDup
<1>7. UserSpaces' = UserSpaces
  BY <1>6, SpacesKept
<1>8. HeapNow
  <2>1. SharedPages' = SharedPages
    BY DEF SharedPages
  <2> QED BY <2>1 DEF HeapNow
<1> QED BY <1>4, <1>7, <1>8, Lives DEF StepOk

(* fork and spawn start their child.                                       *)
LEMMA StartOk ==
  ASSUME SpaceInv, ShareInv', NEW e \in Env, ForkDone(e) \/ SpawnDone(e)
  PROVE  StepOk
<1>1. /\ RoutineMoves(e, Idle) /\ UNCHANGED <<pte, mem>> /\ op[e].at \in {"fork", "share"}
      /\ env_status' = [env_status EXCEPT ![op[e].child] = "RUNNABLE"]
  BY DEF ForkDone, SpawnDone, StartChild, RoutineMoves, pageVars
<1>2. PICK c : c = op[e].child
  OBVIOUS
<1>3. c \in Env /\ env_status \in [Env -> {"FREE", "NOT_RUNNABLE", "RUNNABLE", "ZOMBIE"}]
  BY <1>1, <1>2 DEF SpaceInv, ShareInv, MapInv, EnvType, BuildsChild
<1>4. StartedEnvs' = StartedEnvs \cup {c}
  BY <1>1, <1>2, <1>3 DEF StartedEnvs
<1> QED BY <1>1, <1>3, <1>4, EndOk

(* An env is no longer one of those that run.                              *)
LEMMA PanicStops ==
  ASSUME SpaceInv, NEW e \in Env, UserPanics(e)
  PROVE  StartedEnvs' = StartedEnvs \ {e}
<1>1. env_status \in [Env -> {"FREE", "NOT_RUNNABLE", "RUNNABLE", "ZOMBIE"}]
  BY DEF SpaceInv, ShareInv, MapInv, EnvType
<1> QED BY <1>1 DEF UserPanics, StartedEnvs

(* exit.                                                                   *)
LEMMA ExitOk ==
  ASSUME SpaceInv, ShareInv', NEW e \in Env, Exit(e)
  PROVE  StepOk
<1>1. InUser(e) /\ UserPanics(e) /\ UNCHANGED <<pte, mem>> /\ op[e].at = "user" /\ ShareInv
  BY DEF Exit, InProgram, pageVars, Idle, SpaceInv
<1>2. RoutineMoves(e, Idle) /\ StartedEnvs' = StartedEnvs \ {e}
  BY <1>1, PanicMoves, PanicStops
<1> QED BY <1>1, <1>2, EndOk

(* do_tlb_mod enters the handler, or the program panics.                   *)
LEMMA TlbModOk ==
  ASSUME SpaceInv, ShareInv', NEW e \in Env, InUser(e), NEW s, NEW perm, TlbMod(e, s, perm),
         "COW" \in perm => s \in UserVa /\ pte[e][s] # NoPte /\ pte[e][s].perm = perm,
         "COW" \notin perm => op[e].at = "user"
  PROVE  StepOk
<1>1. env_status[e] = "RUNNABLE" /\ cow[e] = NoCow /\ MapInv /\ MapInv' /\ ShareInv
  BY DEF InUser, Runs, SpaceInv, ShareInv
<1>2. UXSTACK \in Va /\ UXSTACK \notin UserVa /\ UXSTACK \notin 0 .. USTACK
  BY Addresses, MapAssumption DEF Va, UserVa
<1>3. CASE Halts("passive_alloc: out of memory")
  BY <1>3, HaltsOk
<1>4. CASE Halts("TLB Mod but no user handler registered")
  BY <1>4, HaltsOk
<1>5. CASE PassiveOk(M, e, UXSTACK) /\ env_user_tlb_mod_entry[e]
  <2>1. PICK n : n = PassiveAlloc(M, e, UXSTACK)
    OBVIOUS
  <2>2. pte' = n.pte /\ mem' = n.mem
    BY <1>5, <2>1 DEF TlbMod, Commit
  <2>3. Good(M, {}) /\ M.pte = pte /\ M.mem = mem
    BY <1>1, Now DEF M, Mem
  <2>4. Change(e, UXSTACK) /\ (Same(e, UXSTACK) \/ Fresh(e, UXSTACK, {"D"}))
    BY <1>1, <1>2, <1>5, <2>1, <2>2, <2>3, PassiveChange
  <2>5. Agrees(e, UXSTACK)
    BY <2>4 DEF Agrees, Same, Fresh
  <2>6. CASE "COW" \notin perm
    <3>1. UserPanics(e) /\ op[e].at = "user"
      BY <1>5, <2>6 DEF TlbMod
    <3>2. RoutineMoves(e, Idle) /\ StartedEnvs' = StartedEnvs \ {e}
      BY <1>1, <3>1, PanicMoves, PanicStops
    <3>3. RoutineEntry(e, Idle, e, UXSTACK)
      BY <1>2, <2>4, <2>5, <3>2 DEF RoutineEntry
    <3>4. ForkKeeps(e)
      BY <1>1, <3>2, RoutineMoved DEF ForkKeeps, Idle
    <3>5. SpaceInv'
      BY <3>3, <3>4, RoutineAfter
    <3>6. SameDup
      BY <3>1, <3>2, <3>5, RoutineSameDup DEF Idle
    <3>7. \A y \in Env : \A u \in UserVa : Sees(y, u)' = Sees(y, u)
      BY <1>2, <2>4, <3>6, ElseSame DEF SameDup
    <3>8. UserSpaces' = UserSpaces
      BY <3>7, SpacesKept
    <3>9. HeapNow
      BY <1>2, <2>4, HeapChange
    <3> QED BY <3>2, <3>5, <3>8, <3>9, Lives DEF StepOk
  <2>7. CASE "COW" \in perm
    <3>1. PICK h : h = [at |-> "alloc", va |-> s, perm |-> (perm \ {"COW"}) \cup {"D"}]
      OBVIOUS
    <3>2. cow' = [cow EXCEPT ![e] = h] /\ UNCHANGED <<op, env_status>>
      BY <1>5, <2>7, <3>1 DEF TlbMod, envVars
    <3>3. cow'[e] = h /\ \A x \in Env : x # e => cow'[x] = cow[x]
      BY <1>1, <3>2 DEF MapInv, RoutineType
    <3>4. s \in Va /\ s # UXSTACK /\ "LIBRARY" \notin perm
      BY <1>1, <1>2, <2>7, Addresses DEF MapInv, EntryPerms
    <3>5. pte'[e][s] = pte[e][s]
      BY <2>4, <3>4 DEF Change, OnlyVa
    <3>6. CopyKeeps(e)
      BY <2>7, <3>1, <3>3, <3>4, <3>5 DEF CopyKeeps, Copies
    <3>7. op[e].at = "dup" => UXSTACK # op[e].va
      <4> SUFFICES ASSUME op[e].at = "dup", UXSTACK = op[e].va PROVE FALSE
        OBVIOUS
      <4>1. op[e].va <= USTACK
        BY <1>1, Scratch DEF RoutineScratch
      <4> QED BY <1>2, <4>1, MapAssumption DEF Va
    <3>8. SpaceInv'
      BY <1>1, <1>2, <2>4, <2>5, <3>2, <3>3, <3>6, <3>7, InvAfter
    <3>9. SameDup /\ StartedEnvs' = StartedEnvs
      BY <1>1, <3>2, DupSame DEF StartedEnvs
    <3> QED BY <1>2, <2>4, <3>8, <3>9, ElsewhereStep DEF StepOk
  <2> QED BY <2>6, <2>7
<1> QED BY <1>3, <1>4, <1>5 DEF TlbMod

(* A program writes to a page of its own, or to a window.                  *)
LEMMA DoTlbModOk ==
  ASSUME SpaceInv, ShareInv', NEW e \in Env, (\E s \in UserVa : DoTlbMod(e, s)) \/ WriteWindow(e)
  PROVE  StepOk
<1>1. ASSUME NEW s \in UserVa, DoTlbMod(e, s) PROVE StepOk
  <2>1. /\ InUser(e) /\ TlbMod(e, s, pte[e][s].perm) /\ env_status[e] = "RUNNABLE"
        /\ s \in WritesTo(e) /\ MapInv /\ ShareInv
    BY <1>1 DEF DoTlbMod, InUser, Runs, SpaceInv, ShareInv
  <2>2. PICK h \in Hits(e, s) : "D" \notin h.perm
    BY <1>1 DEF DoTlbMod
  <2>3. pte[e][s] = h /\ h # NoPte
    BY <2>1, <2>2, HitIsEntry
  <2>4. ASSUME "COW" \notin h.perm PROVE op[e].at = "user"
    <3>1. s # USTACK
      BY <2>1, <2>2, <2>3, <2>4, Addresses DEF ShareInv, PermsOk, EntryOk
    <3> QED BY <2>1, <3>1 DEF WritesTo, Idle
  <2> QED BY <2>1, <2>3, <2>4, TlbModOk
<1>2. ASSUME WriteWindow(e) PROVE StepOk
  <2>1. PICK none : none = {}
    OBVIOUS
  <2>2. "COW" \notin none /\ InUser(e) /\ TlbMod(e, UVPT, none) /\ op[e].at = "user"
    BY <1>2, <2>1 DEF WriteWindow, InProgram, Idle
  <2> QED BY <2>2, TlbModOk
<1> QED BY <1>1, <1>2

(* env_alloc takes free pages and writes the directory of the new env.     *)
LEMMA EnvAllocChange ==
  ASSUME MapInv, NEW c \in Env, env_status[c] = "FREE", NEW parent \in Env,
         Cardinality(M.free) >= 2, EnvAlloc(M, c, parent)
  PROVE  /\ Change(c, UXSTACK) /\ \A v \in Va : pte'[c][v] = NoPte /\ pte[c][v] = NoPte
         /\ env_status' = [env_status EXCEPT ![c] = "NOT_RUNNABLE"]
<1>1. PICK m, p, q, entry : /\ m = EnvSetupVm(M, c) /\ p = First(M) /\ q = First(m)
                            /\ entry = [page |-> p, perm |-> {}]
  OBVIOUS
<1>2. /\ m.free = page_free_list \ {p} /\ m.mem = [mem EXCEPT ![p] = 0]
      /\ m.pte = [pte EXCEPT ![c][UVPT] = entry]
  BY <1>1 DEF EnvSetupVm, Link, PageAlloc, M, Mem
<1>3. pte' = m.pte /\ mem' = [m.mem EXCEPT ![q] = 0]
      /\ env_status' = [env_status EXCEPT ![c] = "NOT_RUNNABLE"]
  BY <1>1 DEF EnvAlloc, AllocVars, Commit, SetRef, PageAlloc, Mem
<1>4. /\ pte \in [Env -> [Slot -> Pte \cup {NoPte}]] /\ mem \in [Pages -> Words]
      /\ M.free = page_free_list /\ M.pte = pte /\ page_free_list \subseteq Pages
      /\ \A v \in Slot : pte[c][v] = NoPte
  BY DEF MapInv, PagesOk, PageType, M, Mem, FreeEnvsEmpty
<1>5. p \in page_free_list /\ q \in page_free_list
  <2>1. IsFiniteSet(page_free_list)
    BY <1>4, Finite, FS_Subset
  <2>2. page_free_list # {} /\ page_free_list \ {First(M)} # {}
    BY <1>4, <2>1, TwoPages
  <2>3. m.free # {} /\ m.free \subseteq Pages
    BY <1>1, <1>2, <1>4, <2>2
  <2>4. q \in m.free
    BY <1>1, <2>3, FirstFree
  <2>5. M.free # {} /\ M.free \subseteq Pages
    BY <1>4, <2>2
  <2>6. p \in M.free
    BY <1>1, <2>5, FirstFree
  <2> QED BY <1>2, <1>4, <2>4, <2>6
<1>6. /\ \A f \in Env : f # c => pte'[f] = pte[f]
      /\ \A v \in Va : pte'[c][v] = NoPte /\ pte[c][v] = NoPte
  BY <1>2, <1>3, <1>4, Addresses
<1>7. OnlyVa(c, UXSTACK)
  BY <1>6 DEF OnlyVa
<1>8. Keeps(c, UXSTACK)
  <2> SUFFICES ASSUME NEW y \in Env, NEW u \in Va, y # c \/ u # UXSTACK, pte[y][u] # NoPte
               PROVE  mem'[pte[y][u].page] = mem[pte[y][u].page]
    BY DEF Keeps
  <2>1. Good(M, {}) /\ UXSTACK \in Slot /\ u \in Slot
    BY Now, Addresses
  <2>2. InUse(M, c, UXSTACK, pte[y][u].page)
    BY <1>4, <2>1, TwoHolders
  <2>3. pte[y][u].page \in Pages /\ pte[y][u].page # p /\ pte[y][u].page # q
    BY <1>4, <1>5, <2>2 DEF InUse
  <2> QED BY <1>2, <1>3, <1>4, <2>3
<1> QED BY <1>3, <1>6, <1>7, <1>8 DEF Change

(* exofork gives fork or spawn an empty child.                             *)
Begins(e, at, c) ==
  /\ InProgram(e) /\ c \in Env /\ env_status[c] = "FREE" /\ Cardinality(M.free) >= 2
  /\ EnvAlloc(M, c, e) /\ OpGoes(e, at, c, 0, {}) /\ at \in {"fork", "args"} /\ cow' = cow

LEMMA BeginOk ==
  ASSUME SpaceInv, ShareInv', NEW e \in Env, NEW at, NEW c, Begins(e, at, c)
  PROVE  StepOk
<1>1. /\ MapInv /\ MapInv' /\ ShareInv /\ LibraryOk /\ CopyOk /\ ForkedOk /\ c \in Env
      /\ env_status[c] = "FREE" /\ op[e].at = "user" /\ at \in {"fork", "args"}
  BY DEF Begins, InProgram, Idle, SpaceInv, ShareInv
<1>2. /\ Change(c, UXSTACK) /\ \A v \in Va : pte'[c][v] = NoPte /\ pte[c][v] = NoPte
      /\ env_status' = [env_status EXCEPT ![c] = "NOT_RUNNABLE"]
  BY <1>1, EnvAllocChange DEF Begins
<1>3. UXSTACK \in Va /\ UXSTACK \notin UserVa
  BY Addresses, MapAssumption DEF Va, UserVa
<1>4. PICK r : r = [at |-> at, child |-> c, va |-> 0, perm |-> {}]
  OBVIOUS
<1>5. RoutineMoves(e, r)
  BY <1>4 DEF Begins, InProgram, OpGoes, RoutineMoves
<1>6. op'[e] = r /\ (\A x \in Env : x # e => op'[x] = op[x]) /\ \A x \in Env : cow'[x] = cow[x]
  BY <1>1, <1>5, RoutineMoved DEF RoutineMoves
<1>7. OnlyVa(c, UXSTACK) /\ Agrees(c, UXSTACK)
  BY <1>2, <1>3 DEF Change, Agrees, Gone
<1>8. LibraryOk'
  BY <1>1, <1>3, <1>7, LibraryKept
<1>9. cow[c] = NoCow /\ op[c].at = "user"
  BY <1>1 DEF MapInv, HandlerOk, BuildsChild
<1>10. CopyOk'
  BY <1>1, <1>2, <1>6, <1>9, CopyKept
<1>11. ASSUME NEW x \in Env PROVE ForkKeeps(x)
  <2>1. CASE x = e
    BY <1>2, <1>4, <1>6, <1>1, <2>1 DEF ForkKeeps, Forked
  <2>2. CASE x # e /\ op[x].at = "user"
    BY <1>6, <2>2 DEF ForkKeeps
  <2>3. CASE x # e /\ op[x].at # "user"
    <3>1. c # op[x].child
      BY <1>1, <2>3 DEF MapInv, BuildsChild
    <3> QED BY <1>1, <1>6, <1>7, <1>9, <2>3, <3>1, ForkStays
  <2> QED BY <2>1, <2>2, <2>3
<1>12. ForkedOk'
  BY <1>11 DEF ForkedOk, ForkKeeps
<1>13. SpaceInv'
  BY <1>8, <1>10, <1>12 DEF SpaceInv
<1>14. SameDup
  BY <1>1, <1>4, <1>5, <1>13, RoutineSameDup
<1>15. StartedEnvs' = StartedEnvs
  <2>1. env_status \in [Env -> {"FREE", "NOT_RUNNABLE", "RUNNABLE", "ZOMBIE"}]
    BY <1>1 DEF MapInv, EnvType
  <2> QED BY <1>1, <1>2, <2>1 DEF StartedEnvs
<1> QED BY <1>1, <1>2, <1>3, <1>13, <1>14, <1>15, ElsewhereStep DEF StepOk

(* fork's call of exofork.                                                 *)
LEMMA ForkCallOk ==
  ASSUME SpaceInv, ShareInv', NEW e \in Env, ForkCall(e)
  PROVE  StepOk
<1>1. PICK c : c = CHOOSE f \in FreeEnvs : \A g \in FreeEnvs : f <= g
  OBVIOUS
<1>2. InProgram(e)
  BY DEF ForkCall
<1>3. CASE Halts("page_free: pp_ref is not 0")
  BY <1>3, HaltsOk
<1>4. CASE UserPanics(e) /\ UNCHANGED pageVars
  BY <1>2, <1>4, ExitOk DEF Exit
<1>5. CASE ExoforkOk(M) /\ EnvAlloc(M, c, e) /\ OpGoes(e, "fork", c, 0, {}) /\ cow' = cow
  <2>1. FreeEnvs # {} /\ Cardinality(M.free) >= 2
    BY <1>5 DEF ExoforkOk
  <2>2. c \in Env /\ env_status[c] = "FREE"
    BY <1>1, <2>1, EnvThere
  <2>3. Begins(e, "fork", c)
    BY <1>2, <1>5, <2>1, <2>2 DEF Begins
  <2> QED BY <2>3, BeginOk
<1> QED BY <1>1, <1>3, <1>4, <1>5 DEF ForkCall

(* A memory state that differs from the current one in the entry at s of e *)
(* at most, as far as users see it.                                        *)
ChangedAt(m, e, s) ==
  /\ Good(m, {}) /\ (\A f \in Env : f # e => m.pte[f] = pte[f])
  /\ \A v \in Va : v # s => m.pte[e][v] = pte[e][v]
  /\ \A y \in Env : \A u \in Va : (y # e \/ u # s) /\ pte[y][u] # NoPte =>
       m.mem[pte[y][u].page] = mem[pte[y][u].page]

(* Then the entry is removed.                                              *)
LEMMA RemovedAfter ==
  ASSUME MapInv, NEW m, NEW e \in Env, NEW s \in Va, ChangedAt(m, e, s), Commit(PageRemove(m, e, s))
  PROVE  Change(e, s) /\ Gone(e, s)
<1>1. /\ Good(m, {}) /\ (\A f \in Env : f # e => m.pte[f] = pte[f])
      /\ \A v \in Va : v # s => m.pte[e][v] = pte[e][v]
      /\ \A y \in Env : \A u \in Va : (y # e \/ u # s) /\ pte[y][u] # NoPte =>
           m.mem[pte[y][u].page] = mem[pte[y][u].page]
  BY DEF ChangedAt
<1>2. TlbType /\ s \in Slot
  BY Addresses DEF MapInv, PagesOk
<1>3. PageRemove(m, e, s).pte = [m.pte EXCEPT ![e][s] = NoPte]
  BY <1>1, <1>2, GoodRemove
<1>4. /\ pte' = [m.pte EXCEPT ![e][s] = NoPte] /\ mem' = PageRemove(m, e, s).mem
      /\ m.pte \in [Env -> [Slot -> Pte \cup {NoPte}]] /\ m.mem \in [Pages -> Words]
  BY <1>1, <1>3 DEF Commit, Good, IsMem
<1>5. OnlyVa(e, s) /\ Gone(e, s)
  BY <1>1, <1>2, <1>4, Addresses DEF OnlyVa, Gone
<1>6. Keeps(e, s)
  <2> SUFFICES ASSUME NEW y \in Env, NEW u \in Va, y # e \/ u # s, pte[y][u] # NoPte
               PROVE  mem'[pte[y][u].page] = mem[pte[y][u].page]
    BY DEF Keeps
  <2>1. PICK q : q = pte[y][u].page
    OBVIOUS
  <2>2. m.pte[y][u] = pte[y][u] /\ u \in Slot
    BY <1>1, Addresses
  <2>3. InUse(m, e, s, q)
    BY <1>1, <1>2, <2>1, <2>2, TwoHolders
  <2>4. PageRemove(m, e, s).mem[q] = m.mem[q]
    BY <1>4, <2>3, RemoveWord
  <2> QED BY <1>1, <1>4, <2>1, <2>4
<1> QED BY <1>5, <1>6 DEF Change

(* Alone that entry has been allocated.                                    *)
LEMMA AllocChanged ==
  ASSUME MapInv, NEW e \in Env, NEW s \in Va, NEW perm \in Perms, NEW m, m = SysMemAlloc(M, e, s, perm)
  PROVE  ChangedAt(m, e, s)
<1>1. Good(M, {}) /\ TlbType /\ M.pte = pte /\ M.mem = mem /\ s \in Slot \ {UVPT} /\ s \in Slot
  BY Now, Addresses DEF M, Mem
<1>2. Good(m, {}) /\ Frame(M, m, e, s)
  BY <1>1, GoodMemAlloc
<1>3. /\ \A q : InUse(M, e, s, q) => m.mem[q] = M.mem[q]
      /\ AllocOk(M, e, s) => m.mem[First(M)] = 0
      /\ ~ AllocOk(M, e, s) => m = M \/ m.pte[e][s] = NoPte
  BY <1>1, AllocWord
<1>4. ASSUME NEW f \in Env, f # e PROVE m.pte[f] = pte[f]
  <2>1. \A x \in Slot : m.pte[f][x] = pte[f][x]
    BY <1>1, <1>2, <1>4 DEF Frame
  <2>2. m.pte[f] \in [Slot -> Pte \cup {NoPte}] /\ pte[f] \in [Slot -> Pte \cup {NoPte}]
    BY <1>2 DEF Good, IsMem, MapInv, PagesOk, PageType
  <2> QED BY <2>1, <2>2
<1>5. \A v \in Va : v # s => m.pte[e][v] = pte[e][v]
  BY <1>1, <1>2, Addresses DEF Frame
<1>6. \A y \in Env : \A u \in Va : (y # e \/ u # s) /\ pte[y][u] # NoPte =>
        m.mem[pte[y][u].page] = mem[pte[y][u].page]
  BY <1>1, <1>3, TwoHolders, Addresses
<1> QED BY <1>2, <1>4, <1>5, <1>6 DEF ChangedAt

(* A routine changes an entry of its own that programs do not use.         *)
LEMMA OwnScratch ==
  ASSUME SpaceInv, ShareInv', NEW e \in Env, NEW r, RoutineMoves(e, r), Change(e, UTEMP), Agrees(e, UTEMP),
         op[e].at # "dup", r.at # "dup", ForkKeeps(e), env_status' = env_status
  PROVE  StepOk
<1>1. UTEMP \in Va /\ UTEMP \notin UserVa
  BY Addresses
<1>2. RoutineEntry(e, r, e, UTEMP)
  BY <1>1 DEF RoutineEntry
<1>3. SpaceInv'
  BY <1>2, RoutineAfter
<1>4. SameDup /\ StartedEnvs' = StartedEnvs
  BY <1>3, RoutineSameDup DEF StartedEnvs
<1> QED BY <1>1, <1>3, <1>4, ElsewhereStep DEF StepOk

(* spawn's call of exofork; when it fails, what init_stack had at UTEMP is *)
(* unmapped.                                                               *)
LEMMA SpawnCallOk ==
  ASSUME SpaceInv, ShareInv', NEW e \in Env, SpawnCall(e)
  PROVE  StepOk
<1>1. PICK c, perm : c = (CHOOSE f \in FreeEnvs : \A g \in FreeEnvs : f <= g) /\ perm = {"D"}
  OBVIOUS
<1>2. InProgram(e) /\ MapInv /\ ShareInv
  BY DEF SpawnCall, SpaceInv, ShareInv
<1>3. CASE Halts("page_free: pp_ref is not 0")
  BY <1>3, HaltsOk
<1>4. CASE ExoforkOk(M) /\ EnvAlloc(M, c, e) /\ OpGoes(e, "args", c, 0, {}) /\ cow' = cow
  <2>1. FreeEnvs # {} /\ Cardinality(M.free) >= 2
    BY <1>4 DEF ExoforkOk
  <2>2. c \in Env /\ env_status[c] = "FREE"
    BY <1>1, <2>1, EnvThere
  <2>3. Begins(e, "args", c)
    BY <1>2, <1>4, <2>1, <2>2 DEF Begins
  <2> QED BY <2>3, BeginOk
<1>5. CASE Commit(PageRemove(SysMemAlloc(M, e, UTEMP, perm), e, UTEMP)) /\ Abandon(e)
  <2>1. PICK m : m = SysMemAlloc(M, e, UTEMP, perm)
    OBVIOUS
  <2>2. UTEMP \in Va /\ perm \in Perms
    BY <1>1, Addresses DEF Perms
  <2>3. ChangedAt(m, e, UTEMP)
    BY <1>2, <2>1, <2>2, AllocChanged
  <2>4. Change(e, UTEMP) /\ Gone(e, UTEMP)
    BY <1>2, <1>5, <2>1, <2>2, <2>3, RemovedAfter
  <2>5. RoutineMoves(e, Idle) /\ op[e].at = "user" /\ env_status' = env_status
    BY <1>2, <1>5 DEF InProgram, Abandon, RoutineMoves, Idle, envVars
  <2>6. ForkKeeps(e)
    BY <1>2, <2>5, RoutineMoved DEF ForkKeeps, Idle
  <2>7. Agrees(e, UTEMP)
    BY <2>4 DEF Agrees
  <2> QED BY <2>4, <2>5, <2>6, <2>7, OwnScratch DEF Idle
<1> QED BY <1>1, <1>3, <1>4, <1>5 DEF SpawnCall

(* init_stack allocates a page at UTEMP and writes it.                     *)
LEMMA InitStackAllocOk ==
  ASSUME SpaceInv, ShareInv', NEW e \in Env, NEW w, InitStackAlloc(e, w)
  PROVE  StepOk
<1>1. PICK m, perm, r : /\ m = SysMemAlloc(M, e, UTEMP, perm) /\ perm = {"D"}
                        /\ r = [at |-> "give", child |-> op[e].child, va |-> 0, perm |-> {}]
  OBVIOUS
<1>2. /\ op[e].at = "args" /\ InUser(e) /\ cow' = cow /\ MapInv /\ ShareInv
      /\ env_status' = env_status
  BY DEF InitStackAlloc, Abandon, envVars, SpaceInv, ShareInv
<1>3. UTEMP \in Va /\ perm \in Perms
  BY <1>1, Addresses DEF Perms
<1>4. CASE AllocOk(M, e, UTEMP)
  <2>1. RoutineMoves(e, r) /\ pte' = m.pte /\ mem' = [m.mem EXCEPT ![m.pte[e][UTEMP].page] = w]
    BY <1>1, <1>2, <1>4 DEF InitStackAlloc, OpGoes, RoutineMoves, Commit, Written, Writes, Mem
  <2>2. Change(e, UTEMP) /\ Unheld(e, UTEMP)
    BY <1>1, <1>2, <1>3, <1>4, <2>1, FilledPage
  <2>3. Agrees(e, UTEMP)
    BY <2>2 DEF Agrees
  <2>4. ForkKeeps(e)
    <3>1. op'[e] = r
      BY <1>2, <2>1, RoutineMoved
    <3>2. op[e].child # e
      BY <1>2 DEF InUser, Runs, MapInv, BuildsChild
    <3>3. op[e].child \in Env /\ pte'[op[e].child] = pte[op[e].child]
      BY <1>2, <2>2, <3>2 DEF Change, OnlyVa, MapInv, BuildsChild
    <3>4. Forked(e)
      BY <1>2 DEF SpaceInv, ForkedOk
    <3> QED BY <1>1, <1>2, <3>1, <3>3, <3>4 DEF ForkKeeps, Forked
  <2> QED BY <1>1, <1>2, <2>1, <2>2, <2>3, <2>4, OwnScratch
<1>5. CASE ~ AllocOk(M, e, UTEMP)
  <2>1. RoutineMoves(e, Idle) /\ pte' = m.pte /\ mem' = m.mem
    BY <1>1, <1>2, <1>5 DEF InitStackAlloc, Abandon, RoutineMoves, Commit
  <2>2. Good(M, {}) /\ M.pte = pte /\ M.mem = mem
    BY <1>2, Now DEF M, Mem
  <2>3. Change(e, UTEMP) /\ (Gone(e, UTEMP) \/ Same(e, UTEMP) \/ Fresh(e, UTEMP, perm))
    BY <1>1, <1>2, <1>3, <2>1, <2>2, AllocChange
  <2>4. Agrees(e, UTEMP)
    BY <2>3 DEF Agrees, Same, Fresh
  <2>5. ForkKeeps(e)
    BY <1>2, <2>1, RoutineMoved DEF ForkKeeps, Idle
  <2> QED BY <1>2, <2>1, <2>3, <2>4, <2>5, OwnScratch DEF Idle
<1> QED BY <1>4, <1>5

(* It maps the page for its child, which begins with that word.            *)
LEMMA InitStackGivenOk ==
  ASSUME SpaceInv, ShareInv', NEW e \in Env, InitStackMap(e), MapOk(M, e, UTEMP, op[e].child, USTACK)
  PROVE  StepOk
<1>1. PICK c, perm, n, r : /\ c = op[e].child /\ perm = {"D"}
                           /\ n = SysMemMap(M, e, UTEMP, c, USTACK, perm)
                           /\ r = [at |-> "given", child |-> c, va |-> 0, perm |-> {}]
  OBVIOUS
<1>2. /\ op[e].at = "give" /\ RoutineMoves(e, r) /\ pte' = n.pte /\ mem' = n.mem
      /\ MapInv /\ ShareInv /\ MapOk(M, e, UTEMP, c, USTACK) /\ env_status' = env_status
  BY <1>1 DEF InitStackMap, OpGoes, RoutineMoves, Commit, envVars, SpaceInv, ShareInv
<1>3. /\ UTEMP \in Va /\ USTACK \in Va /\ USTACK \in UserVa /\ perm \in Perms /\ "LIBRARY" \notin perm
  BY <1>1, Addresses DEF Perms
<1>4. ~ BeingDuped(c, USTACK) /\ c \in Env /\ c \notin StartedEnvs
  BY <1>1, <1>2, ChildNotDuped
<1>5. Change(c, USTACK) /\ Joined(c, USTACK, e, UTEMP, perm)
  <2>1. n = SysMemMap(M, e, UTEMP, c, USTACK, perm)
    BY <1>1
  <2>2. /\ Change(c, USTACK) /\ Good(n, {})
        /\ MapOk(M, e, UTEMP, c, USTACK) => Joined(c, USTACK, e, UTEMP, perm)
        /\ ~ MapOk(M, e, UTEMP, c, USTACK) => Gone(c, USTACK) \/ Same(c, USTACK)
    BY <1>2, <1>3, <1>4, <2>1, MapChange
  <2> QED BY <1>2, <2>2
<1>6. Private(pte[e][UTEMP])
  BY <1>2, Scratch DEF RoutineScratch
<1>7. Shares(c, USTACK, e, UTEMP, perm)
  BY <1>3, <1>5, <1>6 DEF Shares, Private
<1>8. Outcome(c, USTACK)
  BY <1>3, <1>7 DEF Outcome
<1>9. Agrees(c, USTACK)
  BY <1>3, <1>4, <1>8, OutcomeAgrees
<1>10. RoutineEntry(e, r, c, USTACK)
  BY <1>1, <1>2, <1>3, <1>5, <1>9 DEF RoutineEntry
<1>11. op'[e] = r
  BY <1>2, RoutineMoved
<1>12. ForkKeeps(e)
  BY <1>1, <1>11 DEF ForkKeeps
<1>13. SpaceInv'
  BY <1>4, <1>10, <1>12, RoutineAfter
<1>14. SameDup /\ StartedEnvs' = StartedEnvs
  BY <1>1, <1>2, <1>13, RoutineSameDup DEF StartedEnvs
<1>15. HeapNow
  BY <1>3, <1>4, <1>5, <1>8, HeapChange
<1>16. \A y \in Env : \A u \in UserVa : y # c \/ u # USTACK => Sees(y, u)' = Sees(y, u)
  BY <1>4, <1>5, <1>14, ElseSame DEF SameDup
<1>17. PICK new : new = [kind |-> "private", word |-> mem'[pte[e][UTEMP].page]]
  OBVIOUS
<1>18. Sees(c, USTACK)' = new
  <2>1. ~ BeingDuped(c, USTACK)'
    BY <1>3, <1>4, <1>14 DEF SameDup
  <2>2. pte[e][UTEMP].page # 0
    <3>1. EntriesOk(pte)
      BY <1>13, TablesTyped DEF SpaceInv, ShareInv
    <3> QED BY <1>3, <1>6, <3>1 DEF EntriesOk, Private
  <2>3. /\ pte'[c][USTACK] # NoPte /\ "LIBRARY" \notin pte'[c][USTACK].perm
        /\ pte'[c][USTACK].page = pte[e][UTEMP].page
    BY <1>3, <1>5, <2>2 DEF Joined, NoPte
  <2> QED BY <1>17, <2>1, <2>3 DEF Sees
<1>19. UserSpaces' = [UserSpaces EXCEPT ![c][USTACK] = new]
  BY <1>3, <1>4, <1>16, <1>18, OneSpace
<1>20. new.kind = "private"
  BY <1>17
<1>21. (new.kind = "shared" => new.obj \notin SharedPages)
       /\ (new.kind = "private" => new.word = 0 \/ c \notin StartedEnvs)
  BY <1>4, <1>20
<1> QED BY <1>3, <1>4, <1>13, <1>14, <1>15, <1>19, <1>21, Replaced DEF StepOk

(* It cannot, and unmaps it; the child has nothing yet.                    *)
LEMMA InitStackGivesUpOk ==
  ASSUME SpaceInv, ShareInv', NEW e \in Env, InitStackMap(e),
         ~ MapOk(M, e, UTEMP, op[e].child, USTACK)
  PROVE  StepOk
<1>1. PICK c, perm, m, p : /\ c = op[e].child /\ perm = {"D"} /\ p = pte[e][UTEMP].page
                           /\ m = SysMemMap(M, e, UTEMP, c, USTACK, perm)
  OBVIOUS
<1>2. /\ op[e].at = "give" /\ RoutineMoves(e, Idle) /\ MapInv /\ ShareInv
      /\ Commit(PageRemove(m, e, UTEMP)) /\ ~ MapOk(M, e, UTEMP, c, USTACK)
      /\ env_status' = env_status
  BY <1>1 DEF InitStackMap, Abandon, RoutineMoves, envVars, SpaceInv, ShareInv
<1>3. UTEMP \in Va /\ USTACK \in Va /\ UTEMP \in Slot /\ M.pte = pte /\ M.mem = mem
      /\ perm \in Perms /\ Good(M, {}) /\ TlbType /\ USTACK \in Slot /\ USTACK # UVPT
  BY <1>1, <1>2, Now, Addresses DEF M, Mem, Perms
<1>4. c \in Env /\ pte[c][USTACK] = NoPte
  <2>1. Forked(e)
    BY <1>2 DEF SpaceInv, ForkedOk
  <2> QED BY <1>1, <1>2, <1>3, <2>1, ChildState DEF Forked
<1>5. Private(pte[e][UTEMP])
  BY <1>2, Scratch DEF RoutineScratch
<1>6. m.pte = pte /\ m.mem = mem
  <2>1. m = PageInsert(M, c, USTACK, p, perm) /\ ~ InsertOk(M, c, USTACK, p)
    BY <1>1, <1>2, <1>3, <1>5 DEF SysMemMap, MapOk, Private
  <2>2. m = Cleared(M, c, USTACK)
    BY <2>1 DEF PageInsert, InsertOk
  <2>3. PageRemove(M, c, USTACK) = M
    BY <1>3, <1>4 DEF PageRemove
  <2> QED BY <1>3, <2>2, <2>3 DEF Cleared, TlbInvalidate, Mem
<1>7. Good(m, {})
  <2>1. Maps(M, e, UTEMP, c, USTACK, perm, m)
    BY <1>1, <1>3, <1>4 DEF Maps
  <2> QED BY <2>1, GoodMemMap
<1>8. ChangedAt(m, e, UTEMP)
  BY <1>6, <1>7 DEF ChangedAt
<1>9. Change(e, UTEMP) /\ Gone(e, UTEMP)
  BY <1>2, <1>3, <1>8, RemovedAfter
<1>10. Agrees(e, UTEMP)
  BY <1>9 DEF Agrees
<1>11. ForkKeeps(e)
  BY <1>2, RoutineMoved DEF ForkKeeps, Idle
<1> QED BY <1>2, <1>9, <1>10, <1>11, OwnScratch DEF Idle

(* Once it has given the page away, or filled it, it unmaps it.            *)
LEMMA UnmapOk ==
  ASSUME SpaceInv, ShareInv', NEW e \in Env, InitStackUnmap(e) \/ LoadUnmap(e)
  PROVE  StepOk
<1>1. PICK r : r = [at |-> IF op[e].at = "given" THEN "load" ELSE "share",
                    child |-> op[e].child, va |-> 0, perm |-> {}]
  OBVIOUS
<1>2. /\ op[e].at \in {"given", "filled"} /\ RoutineMoves(e, r) /\ MapInv
      /\ Commit(PageRemove(M, e, UTEMP)) /\ ShareInv /\ env_status' = env_status
  BY <1>1 DEF InitStackUnmap, LoadUnmap, OpGoes, RoutineMoves, envVars, SpaceInv, ShareInv
<1>3. UTEMP \in Va
  BY Addresses
<1>4. Change(e, UTEMP) /\ Gone(e, UTEMP)
  BY <1>2, <1>3, RemoveChange
<1>5. Agrees(e, UTEMP)
  BY <1>4 DEF Agrees
<1>6. ForkKeeps(e)
  BY <1>1, <1>2, RoutineMoved DEF ForkKeeps
<1> QED BY <1>1, <1>2, <1>4, <1>5, <1>6, OwnScratch

(* A seek or a read of the file fails, and spawn gives up.                 *)
LEMMA LoadFailsOk ==
  ASSUME SpaceInv, ShareInv', NEW e \in Env, LoadFails(e)
  PROVE  StepOk
<1>1. PICK c : c = op[e].child
  OBVIOUS
<1>2. /\ RoutineMoves(e, Idle) /\ UNCHANGED <<pte, mem>> /\ op[e].at = "load"
      /\ env_status' = env_status
  BY DEF LoadFails, Abandon, RoutineMoves, envVars
<1>3. c \in Env /\ c \notin StartedEnvs
  BY <1>1, <1>2, ChildNotDuped
<1>4. StartedEnvs' = StartedEnvs \ {c}
  BY <1>2, <1>3 DEF StartedEnvs
<1> QED BY <1>2, <1>3, <1>4, EndOk

(* The routine of e changes an entry of its child that is the child's own. *)
LEMMA ChildEntryOk ==
  ASSUME SpaceInv, ShareInv', NEW e \in Env, op[e].at \notin {"user", "dup"}, NEW c, c = op[e].child,
         NEW s \in Va, Change(c, s), Gone(c, s) \/ Same(c, s) \/ (\E perm : Fresh(c, s, perm)),
         NEW r, RoutineMoves(e, r), r.at \notin {"fork", "dup", "args", "give"},
         env_status' = env_status
  PROVE  StepOk
<1>1. ~ BeingDuped(c, s) /\ c \in Env /\ ShareInv
  BY ChildNotDuped DEF SpaceInv
<1>2. Agrees(c, s)
  BY DEF Agrees, Same, Fresh
<1>3. RoutineEntry(e, r, c, s)
  BY <1>2 DEF RoutineEntry
<1>4. ForkKeeps(e)
  BY <1>1, RoutineMoved DEF ForkKeeps
<1>5. SpaceInv'
  BY <1>1, <1>3, <1>4, RoutineAfter
<1>6. SameDup /\ StartedEnvs' = StartedEnvs
  BY <1>5, RoutineSameDup DEF StartedEnvs
<1> QED BY <1>1, <1>5, <1>6, OwnStep DEF StepOk

(* spawn allocates the page of a segment in its child.                     *)
LEMMA LoadAllocOk ==
  ASSUME SpaceInv, ShareInv', NEW e \in Env, NEW perm \in SegmentPerms, LoadAlloc(e, perm)
  PROVE  StepOk
<1>1. PICK c, n : c = op[e].child /\ n = SysMemAlloc(M, c, UTEXT, perm)
  OBVIOUS
<1>2. /\ op[e].at = "load" /\ InUser(e) /\ cow' = cow /\ MapInv /\ pte' = n.pte /\ mem' = n.mem
      /\ env_status' = env_status
  BY <1>1 DEF LoadAlloc, Abandon, Commit, envVars, SpaceInv, ShareInv
<1>3. UTEXT \in Va /\ perm \in Perms /\ c \in Env
  BY <1>1, <1>2, ChildNotDuped, Addresses, MapAssumption DEF SegmentPerms, Perms
<1>4. Good(M, {}) /\ M.pte = pte /\ M.mem = mem
  BY <1>2, Now DEF M, Mem
<1>5. Change(c, UTEXT) /\ (Gone(c, UTEXT) \/ Same(c, UTEXT) \/ Fresh(c, UTEXT, perm))
  BY <1>1, <1>2, <1>3, <1>4, AllocChange
<1>6. CASE AllocOk(M, c, UTEXT)
  <2>1. PICK at \in {"fill", "share"} : OpGoes(e, at, c, 0, {})
    BY <1>1, <1>6 DEF LoadAlloc
  <2>2. PICK r : r = [at |-> at, child |-> c, va |-> 0, perm |-> {}]
    OBVIOUS
  <2>3. RoutineMoves(e, r)
    BY <1>2, <2>1, <2>2 DEF OpGoes, RoutineMoves
  <2> QED BY <1>1, <1>2, <1>3, <1>5, <2>2, <2>3, ChildEntryOk
<1>7. CASE ~ AllocOk(M, c, UTEXT)
  <2>1. RoutineMoves(e, Idle)
    BY <1>1, <1>2, <1>7 DEF LoadAlloc, Abandon, RoutineMoves
  <2> QED BY <1>1, <1>2, <1>3, <1>5, <2>1, ChildEntryOk DEF Idle
<1> QED BY <1>6, <1>7

(* It maps the page for itself and fills it: the word of the child changes, *)
(* which nobody else sees.                                                 *)
FillsWord(e, c) ==
  /\ OnlyVa(e, UTEMP) /\ mem'[pte[c][UTEXT].page] = Argv
  /\ pte'[e][UTEMP] = [page |-> pte[c][UTEXT].page, perm |-> {"D"}]
  /\ \A y \in Env : \A u \in Va :
       (y # e \/ u # UTEMP) /\ (y # c \/ u # UTEXT) /\ pte[y][u] # NoPte
       => mem'[pte[y][u].page] = mem[pte[y][u].page]

LEMMA FilledChange ==
  ASSUME SpaceInv, NEW e \in Env, op[e].at = "fill", LoadFill(e, Argv), NEW c, c = op[e].child,
         MapOk(M, c, UTEXT, e, UTEMP)
  PROVE  FillsWord(e, c)
<1>1. PICK perm, n, p : /\ perm = {"D"} /\ p = pte[c][UTEXT].page
                        /\ n = SysMemMap(M, c, UTEXT, e, UTEMP, perm)
  OBVIOUS
<1>2. MapInv /\ ShareInv /\ c \in Env
  BY ChildNotDuped DEF SpaceInv, ShareInv
<1>3. /\ UTEMP \in Va /\ UTEXT \in Va /\ UTEMP \in Slot /\ UTEXT \in Slot /\ UTEMP # UVPT
      /\ perm \in Perms /\ Good(M, {}) /\ TlbType /\ M.pte = pte /\ M.mem = mem
  BY <1>1, <1>2, Now, Addresses, MapAssumption DEF M, Mem, Perms
<1>4. pte' = n.pte /\ mem' = [n.mem EXCEPT ![n.pte[e][UTEMP].page] = Argv]
  BY <1>1 DEF LoadFill, Commit, Written, Writes, Mem
<1>5. OnlyVa(e, UTEMP) /\ Good(n, {}) /\ pte'[e][UTEMP] = [page |-> p, perm |-> perm]
  <2>1. n = SysMemMap(M, c, UTEXT, e, UTEMP, perm) /\ pte' = n.pte
    BY <1>1, <1>4
  <2>2. /\ OnlyVa(e, UTEMP) /\ Good(n, {})
        /\ MapOk(M, c, UTEXT, e, UTEMP) =>
             /\ pte[c][UTEXT] # NoPte
             /\ pte'[e][UTEMP] = [page |-> pte[c][UTEXT].page, perm |-> perm]
    BY <1>2, <1>3, <2>1, MapEffect
  <2> QED BY <1>1, <2>2
<1>6. \A q : InUse(M, e, UTEMP, q) => n.mem[q] = mem[q]
  <2>1. Maps(M, c, UTEXT, e, UTEMP, perm, n)
    BY <1>1, <1>2, <1>3 DEF Maps
  <2> QED BY <1>3, <2>1, MapWord
<1>7. Unshared(c, UTEXT)
  BY <1>2 DEF ShareInv, FillOk
<1>8. p \in Pages /\ n.mem \in [Pages -> Words]
  <2>1. pte[c][UTEXT] \in Pte
    BY <1>2, <1>3, <1>7 DEF Unshared, MapInv, PagesOk, PageType
  <2> QED BY <1>1, <1>5, <2>1 DEF Pte, Good, IsMem
<1>9. mem'[p] = Argv /\ \A q : q # p => mem'[q] = n.mem[q]
  BY <1>4, <1>5, <1>8
<1>10. ASSUME NEW y \in Env, NEW u \in Va, y # e \/ u # UTEMP, y # c \/ u # UTEXT, pte[y][u] # NoPte
       PROVE  mem'[pte[y][u].page] = mem[pte[y][u].page]
  <2>1. pte[y][u].page # p
    BY <1>1, <1>7, <1>10 DEF Unshared
  <2>2. InUse(M, e, UTEMP, pte[y][u].page)
    BY <1>3, <1>10, TwoHolders, Addresses
  <2> QED BY <1>6, <1>9, <2>1, <2>2
<1> QED BY <1>1, <1>5, <1>9, <1>10 DEF FillsWord

LEMMA FilledInv ==
  ASSUME SpaceInv, ShareInv', NEW e \in Env, op[e].at = "fill", NEW c, c = op[e].child,
         FillsWord(e, c), NEW r, RoutineMoves(e, r), r.at = "filled"
  PROVE  SpaceInv'
<1>1. /\ MapInv /\ MapInv' /\ ShareInv /\ LibraryOk /\ CopyOk /\ ForkedOk /\ OnlyVa(e, UTEMP)
      /\ Unshared(c, UTEXT) /\ {UTEMP, UTEXT, UCOW} \subseteq Va
  BY Addresses, MapAssumption DEF SpaceInv, ShareInv, FillOk, FillsWord
<1>2. /\ env_status[e] = "RUNNABLE" /\ cow[e] = NoCow /\ op'[e] = r
      /\ (\A x \in Env : x # e => op'[x] = op[x]) /\ \A x \in Env : cow'[x] = cow[x]
  BY <1>1, RoutineMoved DEF RoutineMoves
<1>3. c \in Env /\ env_status[c] = "NOT_RUNNABLE"
  BY <1>1, ChildState
<1>4. LibraryOk'
  <2>1. Agrees(e, UTEMP)
    BY <1>1, <1>3 DEF Agrees, FillsWord, Unshared
  <2> QED BY <1>1, <2>1, LibraryKept
<1>5. CopyOk'
  <2> SUFFICES ASSUME NEW x \in Env, cow[x].at \in {"alloc", "copy", "map"} PROVE Copies(x)'
    BY <1>2 DEF CopyOk
  <2>1. Copies(x) /\ cow[x] # NoCow
    BY <1>1 DEF CopyOk, NoCow
  <2>2. /\ cow[x].va \in Va /\ (cow[x].at = "map" => pte[x][UCOW] # NoPte)
        /\ x # e /\ x # c
    BY <1>1, <1>2, <1>3, <2>1, Addresses DEF MapInv, HandlerOk
  <2>3. pte'[x] = pte[x]
    BY <1>1, <2>2 DEF OnlyVa
  <2>4. /\ mem'[pte[x][cow[x].va].page] = mem[pte[x][cow[x].va].page]
        /\ cow[x].at = "map" => mem'[pte[x][UCOW].page] = mem[pte[x][UCOW].page]
    BY <1>1, <2>1, <2>2 DEF FillsWord, Copies
  <2> QED BY <1>2, <2>1, <2>3, <2>4 DEF Copies
<1>6. ForkedOk'
  <2>1. ASSUME NEW x \in Env, x # e PROVE ForkKeeps(x)
    BY <1>1, <1>2, <2>1, ForkStays
  <2>2. ForkKeeps(e)
    BY <1>2 DEF ForkKeeps
  <2>3. \A x \in Env : ForkKeeps(x)
    BY <2>1, <2>2
  <2> QED BY <2>3 DEF ForkedOk, ForkKeeps
<1> QED BY <1>4, <1>5, <1>6 DEF SpaceInv

LEMMA LoadFilledOk ==
  ASSUME SpaceInv, ShareInv', NEW e \in Env, LoadFill(e, Argv),
         MapOk(M, op[e].child, UTEXT, e, UTEMP)
  PROVE  StepOk
<1>1. PICK c, r : /\ c = op[e].child
                  /\ r = [at |-> "filled", child |-> c, va |-> 0, perm |-> {}]
  OBVIOUS
<1>2. op[e].at = "fill" /\ RoutineMoves(e, r) /\ env_status' = env_status
  BY <1>1 DEF LoadFill, OpGoes, RoutineMoves, envVars
<1>3. FillsWord(e, c)
  BY <1>1, <1>2, FilledChange
<1>4. SpaceInv'
  BY <1>1, <1>2, <1>3, FilledInv
<1>5. SameDup /\ StartedEnvs' = StartedEnvs
  BY <1>1, <1>2, <1>4, RoutineSameDup DEF StartedEnvs
<1>6. ~ BeingDuped(c, UTEXT) /\ c \in Env /\ c \notin StartedEnvs
  BY <1>1, <1>2, ChildNotDuped
<1>7. /\ Unshared(c, UTEXT) /\ UTEXT \in UserVa /\ UTEXT \in Va /\ UTEMP \in Va /\ UTEMP \notin UserVa
      /\ OnlyVa(e, UTEMP) /\ \A u \in UserVa : u \in Va
  BY <1>1, <1>2, <1>3, Addresses, MapAssumption DEF SpaceInv, ShareInv, FillOk, FillsWord, UserVa
<1>8. \A y \in Env : \A u \in UserVa : pte'[y][u] = pte[y][u]
  BY <1>7 DEF OnlyVa
<1>9. ASSUME NEW y \in Env, NEW u \in UserVa, y # c \/ u # UTEXT, pte[y][u] # NoPte
      PROVE  mem'[pte[y][u].page] = mem[pte[y][u].page]
  BY <1>3, <1>7, <1>9 DEF FillsWord
<1>10. HeapNow
  <2> SUFFICES ASSUME NEW p \in SharedPages' PROVE mem'[p] = IF p \in SharedPages THEN mem[p] ELSE 0
    BY DEF HeapNow
  <2>1. PICK y \in Env, u \in UserVa : "LIBRARY" \in pte'[y][u].perm /\ pte'[y][u].page = p
    BY DEF SharedPages
  <2>2. "LIBRARY" \in pte[y][u].perm /\ pte[y][u].page = p /\ pte[y][u] # NoPte
    BY <1>8, <2>1 DEF NoPte
  <2>3. p \in SharedPages
    BY <2>2, SharedPage
  <2>4. y # c \/ u # UTEXT
    BY <1>7, <2>2 DEF Unshared
  <2> QED BY <1>9, <2>2, <2>3, <2>4
<1>11. \A y \in Env : \A u \in UserVa : y # c \/ u # UTEXT => Sees(y, u)' = Sees(y, u)
  BY <1>5, <1>8, <1>9 DEF Sees, SameDup
<1>12. PICK new : new = [kind |-> "private", word |-> Argv]
  OBVIOUS
<1>13. Sees(c, UTEXT)' = new
  <2>1. ~ BeingDuped(c, UTEXT)'
    BY <1>5, <1>6, <1>7 DEF SameDup
  <2>2. pte'[c][UTEXT] = pte[c][UTEXT] /\ mem'[pte[c][UTEXT].page] = Argv
    BY <1>3, <1>6, <1>7, <1>8 DEF FillsWord
  <2> QED BY <1>7, <1>12, <2>1, <2>2 DEF Sees, Unshared
<1>14. UserSpaces' = [UserSpaces EXCEPT ![c][UTEXT] = new]
  BY <1>6, <1>7, <1>11, <1>13, OneSpace
<1>15. (new.kind = "shared" => new.obj \notin SharedPages)
       /\ (new.kind = "private" => new.word = 0 \/ c \notin StartedEnvs)
  BY <1>6, <1>12
<1> QED BY <1>4, <1>5, <1>6, <1>7, <1>10, <1>14, <1>15, Replaced DEF StepOk

(* It cannot, and unmaps the page in the child.                            *)
LEMMA LoadGivesUpOk ==
  ASSUME SpaceInv, ShareInv', NEW e \in Env, LoadFill(e, Argv),
         ~ MapOk(M, op[e].child, UTEXT, e, UTEMP)
  PROVE  StepOk
<1>1. PICK c, perm, m, p : /\ c = op[e].child /\ perm = {"D"} /\ p = pte[c][UTEXT].page
                           /\ m = SysMemMap(M, c, UTEXT, e, UTEMP, perm)
  OBVIOUS
<1>2. /\ op[e].at = "fill" /\ RoutineMoves(e, Idle) /\ MapInv /\ ShareInv
      /\ Commit(PageRemove(m, c, UTEXT)) /\ ~ MapOk(M, c, UTEXT, e, UTEMP)
      /\ env_status' = env_status
  BY <1>1 DEF LoadFill, Abandon, RoutineMoves, envVars, SpaceInv, ShareInv
<1>3. /\ UTEMP \in Va /\ UTEXT \in Va /\ UTEMP \in Slot /\ UTEXT \in Slot /\ UTEMP # UVPT
      /\ perm \in Perms /\ Good(M, {}) /\ TlbType /\ M.pte = pte /\ M.mem = mem
  BY <1>1, <1>2, Now, Addresses, MapAssumption DEF M, Mem, Perms
<1>4. c \in Env /\ pte[c][UTEXT] # NoPte /\ pte[e][UTEMP] = NoPte
  BY <1>1, <1>2, ChildNotDuped, RoutineMoved DEF ShareInv, FillOk, Unshared
<1>5. m.pte = pte /\ m.mem = mem
  <2>1. m = PageInsert(M, e, UTEMP, p, perm) /\ ~ InsertOk(M, e, UTEMP, p)
    BY <1>1, <1>2, <1>3, <1>4 DEF SysMemMap, MapOk
  <2>2. m = Cleared(M, e, UTEMP)
    BY <2>1 DEF PageInsert, InsertOk
  <2>3. PageRemove(M, e, UTEMP) = M
    BY <1>3, <1>4 DEF PageRemove
  <2> QED BY <1>3, <2>2, <2>3 DEF Cleared, TlbInvalidate, Mem
<1>6. Good(m, {})
  <2>1. Maps(M, c, UTEXT, e, UTEMP, perm, m)
    BY <1>1, <1>3, <1>4 DEF Maps
  <2> QED BY <2>1, GoodMemMap
<1>7. ChangedAt(m, c, UTEXT)
  BY <1>5, <1>6 DEF ChangedAt
<1>8. Change(c, UTEXT) /\ Gone(c, UTEXT)
  BY <1>2, <1>3, <1>4, <1>7, RemovedAfter
<1> QED BY <1>1, <1>2, <1>3, <1>8, ChildEntryOk DEF Idle

(* The child gets a page, or its entry is removed: what both fork and      *)
(* spawn need.                                                             *)
LEMMA ChildChange ==
  ASSUME SpaceInv, ShareInv', NEW e \in Env, NEW r, RoutineMoves(e, r), NEW v, NEW c, NEW perm, NEW n,
         MapsForChild(e, v, c, perm, n), mem' = n.mem,
         "LIBRARY" \in perm <=> "LIBRARY" \in pte[e][v].perm
  PROVE  /\ c # e /\ pte'[e] = pte[e] /\ Change(c, v) /\ Outcome(c, v) /\ RoutineEntry(e, r, c, v)
         /\ MapOk(M, e, v, c, v) => Shares(c, v, e, v, perm)
         /\ ~ MapOk(M, e, v, c, v) => Gone(c, v) \/ Same(c, v)
<1>1. MapInv /\ ShareInv /\ v \in Va /\ perm \in Perms /\ pte' = n.pte
      /\ n = SysMemMap(M, e, v, c, v, perm) /\ op[e].at # "user" /\ c = op[e].child
  BY DEF MapsForChild, SpaceInv, ShareInv
<1>2. /\ c \in Env /\ c # e /\ pte'[e] = pte[e] /\ OnlyVa(c, v)
      /\ RoutineScratch(e)' /\ r.at # "fill" => StepOf(e, c, v) /\ ScratchAfter(e)
      /\ MapOk(M, e, v, c, v) => pte'[c][v] = [page |-> pte[e][v].page, perm |-> perm]
      /\ ~ MapOk(M, e, v, c, v) => Alone(c, v, {"D"})
  <2>1. ShareInv
    BY <1>1
  <2> QED BY <2>1, ChildEntry
<1>3. /\ Change(c, v) /\ Good(n, {})
      /\ MapOk(M, e, v, c, v) => Joined(c, v, e, v, perm)
      /\ ~ MapOk(M, e, v, c, v) => Gone(c, v) \/ Same(c, v)
  BY <1>1, <1>2, MapChange
<1>4. MapOk(M, e, v, c, v) => Shares(c, v, e, v, perm)
  BY <1>3 DEF Shares
<1>5. Outcome(c, v)
  BY <1>1, <1>3, <1>4 DEF Outcome
<1>6. Agrees(c, v)
  BY <1>1, <1>2, <1>5, OutcomeAgrees
<1>7. RoutineEntry(e, r, c, v)
  BY <1>1, <1>3, <1>6 DEF RoutineEntry
<1> QED BY <1>2, <1>3, <1>4, <1>5, <1>7

(* spawn shares a page with PTE_LIBRARY.                                   *)
LEMMA ShareLibraryOk ==
  ASSUME SpaceInv, ShareInv', NEW e \in Env, ShareLibrary(e)
  PROVE  StepOk
<1>1. PICK v, c, perm, n, r :
        /\ v = (CHOOSE x \in ToShare(e) : \A y \in ToShare(e) : x <= y)
        /\ c = op[e].child /\ perm = pte[e][v].perm /\ n = SysMemMap(M, e, v, c, v, perm)
        /\ r = IF MapOk(M, e, v, c, v)
               THEN [at |-> "share", child |-> c, va |-> v + 1, perm |-> {}] ELSE Idle
  OBVIOUS
<1>2. /\ op[e].at = "share" /\ InUser(e) /\ ToShare(e) # {} /\ pte' = n.pte /\ MapInv
      /\ cow' = cow /\ op' = [op EXCEPT ![e] = r] /\ mem' = n.mem /\ env_status' = env_status
      /\ ShareInv
  BY <1>1 DEF ShareLibrary, Commit, OpGoes, Abandon, envVars, SpaceInv, ShareInv
<1>3. v \in ToShare(e) /\ v \in Va
  <2>1. ToShare(e) \subseteq op[e].va .. UXSTACK
    BY DEF ToShare
  <2> QED BY <1>1, <1>2, <2>1, ScanFinds
<1>4. pte[e][v] # NoPte /\ pte[e][v] \in Pte
  <2>1. "LIBRARY" \in pte[e][v].perm
    BY <1>3 DEF ToShare
  <2>2. pte[e][v] # NoPte
    BY <2>1 DEF NoPte
  <2>3. pte[e][v] \in Pte \cup {NoPte}
    BY <1>2, <1>3, Addresses DEF MapInv, PagesOk, PageType
  <2> QED BY <2>2, <2>3
<1>5. RoutineMoves(e, r) /\ MapsForChild(e, v, c, perm, n)
      /\ ("LIBRARY" \in perm <=> "LIBRARY" \in pte[e][v].perm)
  BY <1>1, <1>2, <1>3, <1>4 DEF RoutineMoves, MapsForChild, Pte
<1>6. /\ c # e /\ pte'[e] = pte[e] /\ Change(c, v) /\ Outcome(c, v) /\ RoutineEntry(e, r, c, v)
      /\ MapOk(M, e, v, c, v) => Shares(c, v, e, v, perm)
      /\ ~ MapOk(M, e, v, c, v) => Gone(c, v) \/ Same(c, v)
  BY <1>2, <1>5, ChildChange
<1>7. ~ BeingDuped(c, v) /\ c \in Env /\ c \notin StartedEnvs
  BY <1>1, <1>2, ChildNotDuped
<1>8. r.at # "dup" /\ r.at \notin {"fork", "dup", "args", "give"}
  BY <1>1 DEF Idle
<1>9. ForkKeeps(e)
  BY <1>2, <1>5, <1>8, RoutineMoved DEF ForkKeeps
<1>10. SpaceInv'
  BY <1>6, <1>7, <1>9, RoutineAfter
<1>11. SameDup /\ StartedEnvs' = StartedEnvs
  BY <1>2, <1>5, <1>8, <1>10, RoutineSameDup DEF StartedEnvs
<1>12. CASE MapOk(M, e, v, c, v)
  <2>1. e \in StartedEnvs
    BY <1>2 DEF InUser, Runs, StartedEnvs
  <2> QED BY <1>3, <1>6, <1>7, <1>10, <1>11, <1>12, <2>1, InheritStep DEF StepOk
<1>13. CASE ~ MapOk(M, e, v, c, v)
  BY <1>3, <1>6, <1>7, <1>10, <1>11, <1>13, OwnStep DEF StepOk
<1> QED BY <1>12, <1>13

(* fork maps a page of the parent in the child: one that it does not have  *)
(* to protect is the child's at once, the other ones are when duppage is   *)
(* done with them.                                                         *)
LEMMA ForkDups ==
  ASSUME SpaceInv, ShareInv', NEW e \in Env, NEW r, RoutineMoves(e, r), op[e].at = "fork", r.at = "dup",
         NEW c \in Env, c = op[e].child, c = r.child, NEW v \in Va, v = r.va, Change(c, v)
  PROVE  \A y \in Env : \A u \in UserVa : y # c \/ u # v => Sees(y, u)' = Sees(y, u)
<1>1. MapInv /\ MapInv' /\ ShareInv
  BY DEF SpaceInv, ShareInv
<1>2. op'[e] = r /\ \A x \in Env : x # e => op'[x] = op[x]
  BY <1>1, RoutineMoved
<1>3. ASSUME NEW y \in Env, NEW u \in UserVa, y # c \/ u # v
      PROVE  BeingDuped(y, u)' <=> BeingDuped(y, u)
  <2>1. BeingDuped(y, u) <=> \E x \in Env : op[x].at = "dup" /\ op[x].child = y /\ op[x].va = u
    BY <1>1 DEF BeingDuped, MapInv, BuildsChild
  <2>2. BeingDuped(y, u)' <=> \E x \in Env : op'[x].at = "dup" /\ op'[x].child = y /\ op'[x].va = u
    BY <1>1 DEF BeingDuped, MapInv, BuildsChild
  <2>3. ~ (op[e].at = "dup") /\ ~ (op'[e].child = y /\ op'[e].va = u)
    BY <1>2, <1>3
  <2> QED BY <1>2, <2>1, <2>2, <2>3
<1> QED BY <1>3, ElseSame

LEMMA DupChildOk ==
  ASSUME SpaceInv, ShareInv', NEW e \in Env, DupChild(e)
  PROVE  StepOk
<1>1. PICK v, c, old, perm, n, r :
        /\ v = NextVisit(e, USTACK) /\ c = op[e].child /\ old = pte[e][v].perm
        /\ perm = ChildPerm(old) /\ n = SysMemMap(M, e, v, c, v, perm)
        /\ r = IF ~ MapOk(M, e, v, c, v) THEN Idle
               ELSE IF IsPrivate(old)
               THEN [at |-> "dup", child |-> c, va |-> v, perm |-> perm]
               ELSE [at |-> "fork", child |-> c, va |-> v + 1, perm |-> {}]
  OBVIOUS
<1>2. /\ op[e].at = "fork" /\ InUser(e) /\ ToVisit(e, USTACK) # {} /\ pte' = n.pte /\ MapInv
      /\ mem' = n.mem /\ ShareInv /\ op[e].va \in Nat
      /\ ~ MapOk(M, e, v, c, v) => UserPanics(e) /\ r = Idle
      /\ MapOk(M, e, v, c, v) => RoutineMoves(e, r) /\ env_status' = env_status
  BY <1>1 DEF DupChild, Commit, OpGoes, RoutineMoves, envVars, SpaceInv, ShareInv, MapInv, RoutineType
<1>3. RoutineMoves(e, r)
  BY <1>2, PanicMoves
<1>4. v \in ToVisit(e, USTACK) /\ v \in Va
  <2>1. ToVisit(e, USTACK) \subseteq op[e].va .. UXSTACK
    BY <1>2, MapAssumption DEF ToVisit, Va
  <2> QED BY <1>1, <1>2, <2>1, ScanFinds DEF NextVisit
<1>5. pte[e][v] # NoPte /\ v \in op[e].va .. USTACK /\ pte[e][v] \in Pte
  <2>1. pte[e][v] # NoPte /\ v \in op[e].va .. USTACK
    BY <1>4 DEF ToVisit
  <2>2. pte[e][v] \in Pte \cup {NoPte}
    BY <1>2, <1>4, Addresses DEF MapInv, PagesOk, PageType
  <2> QED BY <2>1, <2>2
<1>6. perm \in Perms
  <2>1. old \in Perms /\ EntryOk(v, old)
    BY <1>1, <1>2, <1>4, <1>5 DEF ShareInv, PermsOk, Pte
  <2> QED BY <1>1, <2>1, DuppedPerm
<1>7. MapsForChild(e, v, c, perm, n) /\ ("LIBRARY" \in perm <=> "LIBRARY" \in pte[e][v].perm)
  BY <1>1, <1>2, <1>4, <1>5, <1>6 DEF MapsForChild, ChildPerm
<1>8. /\ c # e /\ pte'[e] = pte[e] /\ Change(c, v) /\ Outcome(c, v) /\ RoutineEntry(e, r, c, v)
      /\ MapOk(M, e, v, c, v) => Shares(c, v, e, v, perm)
      /\ ~ MapOk(M, e, v, c, v) => Gone(c, v) \/ Same(c, v)
  BY <1>2, <1>3, <1>7, ChildChange
<1>9. ~ BeingDuped(c, v) /\ c \in Env /\ c \notin StartedEnvs
  BY <1>1, <1>2, ChildNotDuped
<1>10. op'[e] = r
  BY <1>2, <1>3, RoutineMoved
<1>11. /\ \A u \in Va : u >= op[e].va => pte[c][u] = NoPte
       /\ pte[c][v] = NoPte
  <2>1. Forked(e)
    BY <1>2 DEF SpaceInv, ForkedOk
  <2> QED BY <1>1, <1>2, <1>4, <1>5, <2>1 DEF Forked
<1>12. ForkKeeps(e)
  <2>1. \A u \in Va : u # v /\ u >= op[e].va => pte'[c][u] = NoPte
    BY <1>8, <1>9, <1>11 DEF Change, OnlyVa
  <2>2. CASE r.at = "user"
    BY <1>10, <2>2 DEF ForkKeeps
  <2>3. CASE r = [at |-> "fork", child |-> c, va |-> v + 1, perm |-> {}]
    <3>1. \A u \in Va : u >= v + 1 => u # v /\ u >= op[e].va
      BY <1>2, <1>4, <1>5, MapAssumption DEF Va
    <3> QED BY <1>10, <2>1, <2>3, <3>1 DEF ForkKeeps, Forked
  <2>4. CASE r = [at |-> "dup", child |-> c, va |-> v, perm |-> perm] /\ MapOk(M, e, v, c, v)
    <3>1. \A u \in Va : u >= v /\ u # v => u # v /\ u >= op[e].va
      BY <1>2, <1>4, <1>5, MapAssumption DEF Va
    <3>2. pte'[c][v].page = pte'[e][v].page
      BY <1>8, <2>4 DEF Shares, Joined
    <3> QED BY <1>10, <2>1, <2>4, <3>1, <3>2 DEF ForkKeeps, Forked
  <2> QED BY <1>1, <2>2, <2>3, <2>4 DEF Idle
<1>13. SpaceInv'
  BY <1>8, <1>9, <1>12, RoutineAfter
<1>14. HeapNow
  BY <1>4, <1>8, <1>9, HeapChange
<1>15. CASE ~ MapOk(M, e, v, c, v)
  <2>1. pte'[c][v] = NoPte /\ UserPanics(e) /\ r.at = "user"
    BY <1>2, <1>8, <1>11, <1>15 DEF Gone, Same, Idle
  <2>2. SameDup
    BY <1>2, <1>3, <1>13, <2>1, RoutineSameDup
  <2>3. \A y \in Env : \A u \in UserVa : y # c \/ u # v => Sees(y, u)' = Sees(y, u)
    BY <1>8, <1>9, <2>2, ElseSame DEF SameDup
  <2>4. Sees(c, v)' = Sees(c, v)
    BY <1>11, <2>1 DEF Sees
  <2>5. UserSpaces' = UserSpaces
    BY <2>3, <2>4, SpacesKept
  <2>6. StartedEnvs' = StartedEnvs \ {e}
    BY <2>1, PanicStops
  <2> QED BY <1>13, <1>14, <2>5, <2>6, Lives DEF StepOk
<1>16. CASE MapOk(M, e, v, c, v) /\ ~ IsPrivate(old)
  <2>1. r.at # "dup"
    BY <1>1, <1>16
  <2>2. SameDup /\ StartedEnvs' = StartedEnvs
    BY <1>2, <1>3, <1>13, <1>16, <2>1, RoutineSameDup DEF StartedEnvs
  <2>3. e \in StartedEnvs
    BY <1>2 DEF InUser, Runs, StartedEnvs
  <2> QED BY <1>4, <1>8, <1>9, <1>13, <1>16, <2>2, <2>3, InheritStep DEF StepOk
<1>17. CASE MapOk(M, e, v, c, v) /\ IsPrivate(old)
  <2>1. r.at = "dup" /\ r.child = c /\ r.va = v
    BY <1>1, <1>17
  <2>2. \A y \in Env : \A u \in UserVa : y # c \/ u # v => Sees(y, u)' = Sees(y, u)
    BY <1>1, <1>2, <1>3, <1>4, <1>8, <1>9, <2>1, ForkDups
  <2>3. Sees(c, v)' = Sees(c, v)
    <3>1. env_status'[c] = "NOT_RUNNABLE"
      BY <1>1, <1>2, <1>17 DEF MapInv, BuildsChild
    <3>2. BeingDuped(c, v)'
      BY <1>10, <2>1, <3>1 DEF BeingDuped
    <3> QED BY <1>11, <3>2 DEF Sees
  <2>4. UserSpaces' = UserSpaces
    BY <2>2, <2>3, SpacesKept
  <2>5. StartedEnvs' = StartedEnvs
    BY <1>2, <1>17 DEF StartedEnvs
  <2> QED BY <1>13, <1>14, <2>4, <2>5, Stutters DEF StepOk
<1> QED BY <1>15, <1>16, <1>17

(* duppage is done with a page: the child has what its parent has there.   *)
LEMMA DupParentOk ==
  ASSUME SpaceInv, ShareInv', NEW e \in Env, DupParent(e)
  PROVE  StepOk
<1>1. PICK v, c, perm, n, r :
        /\ v = op[e].va /\ c = op[e].child /\ perm = op[e].perm /\ n = SysMemMap(M, e, v, e, v, perm)
        /\ r = [at |-> "fork", child |-> c, va |-> v + 1, perm |-> {}]
  OBVIOUS
<1>2. /\ op[e].at = "dup" /\ pte' = n.pte /\ mem' = n.mem /\ MapInv /\ MapInv' /\ ShareInv
      /\ RoutineMoves(e, r) /\ env_status' = env_status
  BY <1>1 DEF DupParent, Commit, OpGoes, RoutineMoves, envVars, SpaceInv, ShareInv
<1>3. /\ v \in Va /\ v # UCOW /\ v # UTEMP /\ v <= USTACK /\ Private(pte[e][v]) /\ pte[e][v] # NoPte
      /\ "LIBRARY" \notin perm
  <2>1. v \in Va /\ v \notin {UCOW, UTEMP} /\ pte[e][v] # NoPte /\ Private(pte[e][v])
        /\ "D" \notin perm /\ pte[e][UTEMP] = NoPte /\ v <= USTACK
    BY <1>1, <1>2, Scratch DEF RoutineScratch
  <2> QED BY <1>1, <1>2, <2>1 DEF MapInv, ForkOk
<1>4. v \in UserVa
  BY <1>3, MapAssumption DEF UserVa, Va
<1>5. /\ perm \in Perms /\ c \in Env /\ env_status[c] = "NOT_RUNNABLE" /\ env_parent[c] = e
      /\ env_status[e] = "RUNNABLE" /\ cow[e] = NoCow /\ c # e
      /\ op'[e] = r /\ \A x \in Env : x # e => op'[x] = op[x]
  <2>1. perm \in Perms /\ c \in Env /\ env_status[c] = "NOT_RUNNABLE" /\ env_parent[c] = e
    BY <1>1, <1>2 DEF MapInv, RoutineType, BuildsChild
  <2>2. /\ env_status[e] = "RUNNABLE" /\ cow[e] = NoCow
        /\ op'[e] = r /\ \A x \in Env : x # e => op'[x] = op[x]
    BY <1>2, RoutineMoved
  <2> QED BY <2>1, <2>2
<1>6. Change(e, v) /\ Joined(e, v, e, v, perm)
  <2>1. MapOk(M, e, v, e, v)
    BY <1>3 DEF MapOk, InsertOk, SamePage, M, Mem
  <2>2. /\ Change(e, v) /\ Good(n, {})
        /\ MapOk(M, e, v, e, v) => Joined(e, v, e, v, perm)
        /\ ~ MapOk(M, e, v, e, v) => Gone(e, v) \/ Same(e, v)
    BY <1>1, <1>2, <1>3, <1>5, MapChange
  <2> QED BY <2>1, <2>2
<1>7. Outcome(e, v)
  <2>1. Shares(e, v, e, v, perm)
    BY <1>3, <1>6 DEF Shares, Private
  <2> QED BY <1>3, <2>1 DEF Outcome
<1>8. RoutineEntry(e, r, e, v)
  <2>1. Agrees(e, v)
    BY <1>3, <1>7, OutcomeAgrees
  <2> QED BY <1>2, <1>3, <1>6, <2>1 DEF RoutineEntry
<1>9. /\ \A u \in Va : u >= v /\ u # v => pte[c][u] = NoPte
      /\ pte[c][v].page = pte[e][v].page
  <2>1. Forked(e)
    BY <1>2 DEF SpaceInv, ForkedOk
  <2> QED BY <1>1, <1>2, <2>1 DEF Forked
<1>10. pte'[c] = pte[c]
  BY <1>5, <1>6 DEF Change, OnlyVa
<1>11. ForkKeeps(e)
  <2>1. \A u \in Va : u >= v + 1 => u >= v /\ u # v
    BY <1>3, MapAssumption DEF Va
  <2> QED BY <1>1, <1>5, <1>9, <1>10, <2>1 DEF ForkKeeps, Forked
<1>12. SpaceInv'
  BY <1>8, <1>11, RoutineAfter
<1>13. HeapNow
  BY <1>3, <1>6, <1>7, HeapChange
<1>14. ASSUME NEW y \in Env, NEW u \in UserVa, y # c \/ u # v
       PROVE  BeingDuped(y, u)' <=> BeingDuped(y, u)
  <2>1. BeingDuped(y, u) <=> \E x \in Env : op[x].at = "dup" /\ op[x].child = y /\ op[x].va = u
    BY <1>2 DEF BeingDuped, MapInv, BuildsChild
  <2>2. BeingDuped(y, u)' <=> \E x \in Env : op'[x].at = "dup" /\ op'[x].child = y /\ op'[x].va = u
    BY <1>2 DEF BeingDuped, MapInv, BuildsChild
  <2>3. ~ (op[e].child = y /\ op[e].va = u) /\ op'[e].at # "dup"
    BY <1>1, <1>5, <1>14
  <2> QED BY <1>5, <2>1, <2>2, <2>3
<1>15. Sees(e, v)' = Sees(e, v) /\ Sees(e, v) = [kind |-> "private", word |-> mem[pte[e][v].page]]
  <2>1. ~ BeingDuped(e, v) /\ ~ BeingDuped(e, v)'
    BY <1>2, <1>5 DEF BeingDuped
  <2>2. pte[e][v].page # 0
    <3>1. EntriesOk(pte)
      BY <1>2, TablesTyped
    <3> QED BY <1>3, <3>1 DEF EntriesOk
  <2>3. /\ pte'[e][v] = [page |-> pte[e][v].page, perm |-> perm] /\ pte'[e][v] # NoPte
        /\ mem'[pte[e][v].page] = mem[pte[e][v].page]
    BY <1>6, <2>2 DEF Joined, NoPte
  <2>4. "LIBRARY" \notin pte[e][v].perm /\ "LIBRARY" \notin pte'[e][v].perm
        /\ pte'[e][v].page = pte[e][v].page
    BY <1>3, <2>3 DEF Private
  <2> QED BY <1>3, <2>1, <2>3, <2>4 DEF Sees
<1>16. Sees(c, v)' = Sees(e, v)
  <2>1. ~ BeingDuped(c, v)'
    <3> SUFFICES ASSUME NEW x \in Env, op'[x].at = "dup", op'[x].child = c PROVE FALSE
      BY DEF BeingDuped
    <3>1. x # e
      BY <1>1, <1>5
    <3>2. op[x].at = "dup" /\ op[x].child = c
      BY <1>5, <3>1
    <3> QED BY <1>2, <1>5, <3>1, <3>2 DEF MapInv, BuildsChild
  <2>2. pte[c][v] # NoPte
    <3>1. EntriesOk(pte)
      BY <1>2, TablesTyped
    <3>2. pte[e][v].page # 0
      BY <1>3, <3>1 DEF EntriesOk
    <3> QED BY <1>9, <3>2 DEF NoPte
  <2>3. "LIBRARY" \notin pte[c][v].perm
    BY <1>3, <1>5, <1>9 DEF SpaceInv, LibraryOk, Private
  <2>4. mem'[pte[c][v].page] = mem[pte[e][v].page]
    BY <1>6, <1>9 DEF Joined
  <2> QED BY <1>10, <1>15, <2>1, <2>2, <2>3, <2>4 DEF Sees
<1>17. \A y \in Env : \A u \in UserVa : y # c \/ u # v => Sees(y, u)' = Sees(y, u)
  <2> SUFFICES ASSUME NEW y \in Env, NEW u \in UserVa, y # c \/ u # v PROVE Sees(y, u)' = Sees(y, u)
    OBVIOUS
  <2>1. CASE y = e /\ u = v
    BY <1>15, <2>1
  <2>2. CASE y # e \/ u # v
    <3>1. BeingDuped(y, u)' <=> BeingDuped(y, u)
      BY <1>14
    <3> QED BY <1>6, <2>2, <3>1, ElseSame
  <2> QED BY <2>1, <2>2
<1>18. UserSpaces[e][v] = Sees(e, v)
  BY <1>4 DEF UserSpaces
<1>19. UserSpaces' = [UserSpaces EXCEPT ![c][v] = UserSpaces[e][v]]
  BY <1>4, <1>5, <1>16, <1>17, <1>18, OneSpace
<1>20. StartedEnvs' = StartedEnvs /\ e \in StartedEnvs /\ c \notin StartedEnvs
  BY <1>2, <1>5 DEF StartedEnvs
<1> QED BY <1>4, <1>5, <1>12, <1>13, <1>19, <1>20, Inherited DEF StepOk

-----------------------------------------------------------------------------
(* wait reaps a zombie: it loses everything, and the pages that others     *)
(* hold keep their words.                                                  *)
LEMMA FreedWords ==
  ASSUME MapInv, NEW z \in Env, Commit(EnvFreed(z)), PagesOk', NEW y \in Env, NEW u \in Va,
         pte'[y] = pte[y], pte[y][u] # NoPte
  PROVE  mem'[pte[y][u].page] = mem[pte[y][u].page]
<1>1. PICK p : p = pte[y][u].page
  OBVIOUS
<1>2. /\ pte \in [Env -> [Slot -> Pte \cup {NoPte}]] /\ pp_ref \in [Pages -> Nat] /\ u \in Slot
      /\ RefCounts'
  BY Addresses DEF MapInv, PagesOk, PageType
<1>3. p \in Pages
  BY <1>1, <1>2 DEF Pte
<1>4. /\ mem' = [q \in Pages |-> IF q \in Unreferenced(z) THEN Junk ELSE mem[q]]
      /\ pp_ref' = [q \in Pages |-> pp_ref[q] - RefsOf(z, q)]
  BY DEF Commit, EnvFreed, Mem
<1>5. pp_ref'[p] # 0
  <2>1. PICK H, V : H = Holders(pte', p) /\ V = {e \in Env : env_vars'[e] = p}
    OBVIOUS
  <2>2. pp_ref'[p] = Cardinality(H) + Cardinality(V)
    BY <1>2, <1>3, <2>1 DEF RefCounts
  <2>3. IsFiniteSet(H) /\ Cardinality(H) \in Nat
    BY <2>1, HoldersFinite
  <2>4. Cardinality(V) \in Nat
    <3>1. IsFiniteSet(V)
      BY <2>1, Finite, FS_Subset
    <3> QED BY <3>1, FS_CardinalityType
  <2>5. H # {}
    <3>1. pte'[y][u].page = p
      BY <1>1
    <3>2. <<y, u>> \in H
      BY <1>2, <2>1, <3>1 DEF Holders
    <3> QED BY <3>2
  <2>6. Cardinality(H) # 0
    BY <2>3, <2>5, FS_EmptySet
  <2> QED BY <2>2, <2>3, <2>4, <2>6
<1>6. p \notin Unreferenced(z)
  <2> SUFFICES ASSUME p \in Unreferenced(z) PROVE FALSE
    OBVIOUS
  <2>1. pp_ref[p] \in Nat /\ pp_ref[p] = RefsOf(z, p)
    BY <1>2, <1>3 DEF Unreferenced
  <2> QED BY <1>3, <1>4, <1>5, <2>1
<1> QED BY <1>1, <1>3, <1>4, <1>6

(* Every entry of the zombie is gone, and all others are as they were.     *)
LEMMA ReapOk ==
  ASSUME SpaceInv, ShareInv', NEW e \in Env, NEW z \in Env, Reap(e, z)
  PROVE  StepOk
<1>1. /\ env_status[z] = "ZOMBIE" /\ Commit(EnvFreed(z))
      /\ env_vars' = [env_vars EXCEPT ![z] = 0] /\ env_status' = [env_status EXCEPT ![z] = "FREE"]
      /\ UNCHANGED env_asid /\ op' = op /\ cow' = cow /\ MapInv /\ MapInv'
  BY DEF Reap, SpaceInv, ShareInv
<1>2. /\ PagesOk' /\ \A f \in Env : f # z => pte'[f] = pte[f]
      /\ \A s \in Slot : pte'[z][s] = NoPte
  BY <1>1, EnvFreedStep
<1>3. /\ \A f \in Env : \A v \in Va : f # z => pte'[f][v] = pte[f][v]
      /\ \A v \in Va : pte'[z][v] = NoPte
  BY <1>2, Addresses
<1>4. \A f \in Env : \A v \in Va : f # z /\ pte[f][v] # NoPte => mem'[pte[f][v].page] = mem[pte[f][v].page]
  <2> SUFFICES ASSUME NEW f \in Env, NEW v \in Va, f # z, pte[f][v] # NoPte
               PROVE  mem'[pte[f][v].page] = mem[pte[f][v].page]
    OBVIOUS
  <2>1. pte'[f] = pte[f]
    BY <1>2
  <2> QED BY <1>1, <1>2, <2>1, FreedWords
<1>5. LibraryOk'
  <2> SUFFICES ASSUME NEW x \in Env, NEW y \in Env, NEW v \in Va, NEW u \in Va,
                      pte'[x][v].page = pte'[y][u].page
               PROVE  "LIBRARY" \in pte'[x][v].perm <=> "LIBRARY" \in pte'[y][u].perm
    BY DEF LibraryOk
  <2>1. EntriesOk(pte')
    BY <1>1, TablesTyped
  <2>2. CASE x # z /\ y # z
    <3>1. pte'[x][v] = pte[x][v] /\ pte'[y][u] = pte[y][u]
      BY <1>3, <2>2
    <3> QED BY <3>1 DEF SpaceInv, LibraryOk
  <2>3. CASE x = z \/ y = z
    <3>1. pte'[x][v] = NoPte /\ pte'[y][u] = NoPte
      <4>1. pte'[x][v] = NoPte \/ pte'[y][u] = NoPte
        BY <1>3, <2>3
      <4>2. pte'[x][v].page = 0 /\ pte'[y][u].page = 0
        BY <4>1 DEF NoPte
      <4> QED BY <2>1, <4>2 DEF EntriesOk
    <3> QED BY <3>1
  <2> QED BY <2>2, <2>3
<1>6. CopyOk'
  <2> SUFFICES ASSUME NEW x \in Env, cow[x].at \in {"alloc", "copy", "map"} PROVE Copies(x)'
    BY <1>1 DEF CopyOk
  <2>1. Copies(x) /\ cow[x] # NoCow
    BY DEF SpaceInv, CopyOk, NoCow
  <2>2. /\ env_status[x] = "RUNNABLE" /\ cow[x].va \in Va /\ UCOW \in Va
        /\ cow[x].at = "map" => pte[x][UCOW] # NoPte
    BY <1>1, <2>1, Addresses DEF MapInv, HandlerOk
  <2>3. x # z
    BY <1>1, <2>2
  <2>4. pte'[x][cow[x].va] = pte[x][cow[x].va] /\ pte'[x][UCOW] = pte[x][UCOW]
    BY <1>3, <2>2, <2>3
  <2>5. mem'[pte[x][cow[x].va].page] = mem[pte[x][cow[x].va].page]
    BY <1>4, <2>1, <2>2, <2>3 DEF Copies
  <2>6. cow[x].at = "map" => mem'[pte[x][UCOW].page] = mem[pte[x][UCOW].page]
    BY <1>4, <2>2, <2>3
  <2> QED BY <1>1, <2>1, <2>4, <2>5, <2>6 DEF Copies
<1>7. ForkedOk'
  <2> SUFFICES ASSUME NEW x \in Env, op[x].at \in {"fork", "dup", "args", "give"} PROVE Forked(x)'
    BY <1>1 DEF ForkedOk
  <2>1. Forked(x)
    BY DEF SpaceInv, ForkedOk
  <2>2. op[x].child \in Env /\ op[x].child # z /\ x # z
    BY <1>1 DEF MapInv, BuildsChild
  <2>3. pte'[x] = pte[x] /\ pte'[op[x].child] = pte[op[x].child]
    BY <1>2, <2>2
  <2> QED BY <1>1, <2>1, <2>3 DEF Forked
<1>8. SpaceInv'
  BY <1>5, <1>6, <1>7 DEF SpaceInv
<1>9. StartedEnvs' = StartedEnvs /\ z \notin StartedEnvs
  <2>1. env_status \in [Env -> {"FREE", "NOT_RUNNABLE", "RUNNABLE", "ZOMBIE"}]
    BY <1>1 DEF MapInv, EnvType
  <2> QED BY <1>1, <2>1 DEF StartedEnvs
<1>10. HeapNow
  <2> SUFFICES ASSUME NEW p \in SharedPages' PROVE mem'[p] = IF p \in SharedPages THEN mem[p] ELSE 0
    BY DEF HeapNow
  <2>1. PICK y \in Env, u \in UserVa : "LIBRARY" \in pte'[y][u].perm /\ pte'[y][u].page = p
    BY DEF SharedPages
  <2>2. u \in Va /\ pte'[y][u] # NoPte
    BY <2>1, Addresses DEF NoPte
  <2>3. y # z /\ pte'[y][u] = pte[y][u]
    BY <1>3, <2>2
  <2>4. p \in SharedPages
    BY <2>1, <2>3, SharedPage
  <2> QED BY <1>4, <2>1, <2>2, <2>3, <2>4
<1>11. SameDup
  BY <1>1, DupSame
<1>12. ASSUME NEW y \in Env, NEW u \in UserVa, y # z PROVE Sees(y, u)' = Sees(y, u)
  <2>1. u \in Va /\ pte'[y][u] = pte[y][u]
    BY <1>3, <1>12, Addresses
  <2>2. pte[y][u] # NoPte => mem'[pte[y][u].page] = mem[pte[y][u].page]
    BY <1>4, <1>12, <2>1
  <2>3. BeingDuped(y, u)' <=> BeingDuped(y, u)
    BY <1>11 DEF SameDup
  <2> QED BY <2>1, <2>2, <2>3 DEF Sees
<1>13. \A u \in UserVa : Sees(z, u)' = Spaces!Nothing
  BY <1>3, Addresses DEF Sees, Spaces!Nothing
<1>14. UserSpaces' = [UserSpaces EXCEPT ![z] = [v \in UserVa |-> Spaces!Nothing]]
  <2>1. UserSpaces' = [y \in Env |-> [u \in UserVa |-> Sees(y, u)']]
    BY DEF UserSpaces
  <2>2. UserSpaces = [y \in Env |-> [u \in UserVa |-> Sees(y, u)]]
    BY DEF UserSpaces
  <2>3. \A y \in Env : y # z => [u \in UserVa |-> Sees(y, u)'] = [u \in UserVa |-> Sees(y, u)]
    BY <1>12
  <2>4. [u \in UserVa |-> Sees(z, u)'] = [u \in UserVa |-> Spaces!Nothing]
    BY <1>13
  <2> QED BY <2>1, <2>2, <2>3, <2>4
<1> QED BY <1>8, <1>9, <1>10, <1>14, Released DEF StepOk

-----------------------------------------------------------------------------
(* The theorems.                                                           *)

(* The first env has its stack, a private page of zeros; nobody else has   *)
(* anything.                                                               *)
LEMMA InitSpace == Init => SpaceInv /\ Spaces!SpaceInit
<1> SUFFICES ASSUME Init PROVE SpaceInv /\ Spaces!SpaceInit
  OBVIOUS
<1>1. ShareInv
  BY InitShares
<1>2. /\ op = [e \in Env |-> Idle] /\ cow = [e \in Env |-> NoCow]
      /\ pte = [e \in Env |-> [s \in Slot |-> IF e = 0 THEN BootPte(s) ELSE NoPte]]
      /\ mem = [p \in Pages |-> IF p <= 4 THEN 0 ELSE Junk]
  BY DEF Init
<1>3. \A e \in Env : op[e].at = "user" /\ cow[e].at = "no"
  BY <1>2 DEF Idle, NoCow
<1>4. {UCOW, UTEMP, USTACK} \subseteq Va /\ Va \subseteq Slot
  BY Addresses
<1>5. ASSUME NEW e \in Env, NEW v \in Va
      PROVE  /\ e = 0 /\ v = USTACK => pte[e][v].page = 4 /\ pte[e][v].perm = {"D"}
             /\ e # 0 \/ v # USTACK => pte[e][v] = NoPte
  <2>1. PDX[USTACK] \notin Va /\ UVPT \notin Va
    BY <1>4, Addresses
  <2>2. v \in Slot /\ v # UVPT /\ v # PDX[USTACK]
    BY <1>4, <2>1
  <2>3. /\ v = USTACK => BootPte(v) = [page |-> 4, perm |-> {"D"}]
        /\ v # UVPT /\ v # PDX[USTACK] /\ v # USTACK => BootPte(v) = NoPte
    BY <2>2, BootEntries
  <2> QED BY <1>2, <2>2, <2>3
<1>6. \A e \in Env : \A v \in Va : "LIBRARY" \notin pte[e][v].perm
  BY <1>5 DEF NoPte
<1>7. LibraryOk /\ CopyOk /\ ForkedOk
  BY <1>3, <1>6 DEF LibraryOk, CopyOk, ForkedOk
<1>8. SpaceInv
  BY <1>1, <1>7 DEF SpaceInv
<1>9. ASSUME NEW e \in Env, NEW v \in UserVa
      PROVE  Sees(e, v) \in {Spaces!Nothing} \cup {Spaces!Private(w) : w \in Words}
  <2>1. v \in Va /\ "LIBRARY" \notin pte[e][v].perm
    BY <1>6, Addresses
  <2>2. CASE pte[e][v] = NoPte
    BY <2>2 DEF Sees, Spaces!Nothing
  <2>3. CASE pte[e][v] # NoPte
    <3>1. pte[e][v].page = 4
      BY <1>5, <2>1, <2>3
    <3>2. pte[e][v] \in Pte
      BY <1>1, <1>4, <2>1, <2>3 DEF ShareInv, MapInv, PagesOk, PageType
    <3>3. mem[pte[e][v].page] = 0 /\ 0 \in Words
      BY <1>2, <3>1, <3>2, MapAssumption DEF Pte
    <3>4. ~ BeingDuped(e, v)
      BY <1>3 DEF BeingDuped
    <3>5. Sees(e, v) = Spaces!Private(0)
      BY <2>1, <2>3, <3>3, <3>4 DEF Sees, Spaces!Private
    <3> QED BY <3>3, <3>5
  <2> QED BY <2>2, <2>3
<1>10. UserSpaces \in [Env -> [UserVa -> {Spaces!Nothing} \cup {Spaces!Private(w) : w \in Words}]]
  BY <1>9 DEF UserSpaces
<1>11. SharedPages = {} /\ Spaces!InUse(UserSpaces) = {}
  <2>1. SharedPages = {}
    BY <1>6, Addresses DEF SharedPages
  <2> QED BY <1>8, <2>1, SharedAreObjects DEF SharedAsSeen, SharedOfSpaces
<1>12. SharedHeap = [o \in Spaces!InUse(UserSpaces) |-> 0]
  BY <1>11 DEF SharedHeap
<1>13. StartedEnvs \in SUBSET Env
  BY DEF StartedEnvs
<1> QED BY <1>8, <1>10, <1>12, <1>13 DEF Spaces!SpaceInit

(* Every step keeps the invariant and is one that the spaces allow.        *)
LEMMA NextSpaces == SpaceInv /\ [Next]_vars => StepOk
<1> SUFFICES ASSUME SpaceInv, [Next]_vars PROVE StepOk
  OBVIOUS
<1>0. ShareInv'
  BY NextShares DEF SpaceInv
<1>1. ASSUME UNCHANGED vars PROVE StepOk
  BY <1>0, <1>1, StillOk DEF vars, pageVars, envVars
<1>2. ASSUME NEW e \in Env, NEW s \in Slot, DoTlbRefill(e, s) PROVE StepOk
  BY <1>0, <1>2, DoTlbRefillOk
<1>3. ASSUME NEW e \in Env, NEW s \in UserVa, NEW w \in Words, Store(e, s, w) PROVE StepOk
  BY <1>0, <1>3, StoreOk
<1>4. ASSUME NEW e \in Env, (\E s \in UserVa : DoTlbMod(e, s)) \/ WriteWindow(e) PROVE StepOk
  BY <1>0, <1>4, DoTlbModOk
<1>14. ASSUME NEW e \in Env, BadAccess(e) PROVE StepOk
  BY <1>0, <1>14, HaltsOk DEF BadAccess
<1>5. ASSUME NEW e \in Env, NEW s \in UserVa, NEW perm \in UserPerms, MemAlloc(e, s, perm)
      PROVE  StepOk
  BY <1>0, <1>5, MemAllocOk
<1>6. ASSUME NEW e \in Env, NEW s \in UserVa, MemUnmap(e, s) PROVE StepOk
  BY <1>0, <1>6, MemUnmapOk
<1>7. ASSUME NEW e \in Env, CowAlloc(e) \/ CowCopy(e) \/ CowMap(e) \/ CowUnmap(e) PROVE StepOk
  BY <1>0, <1>7, CowAllocOk, CowCopyOk, CowMapOk, CowUnmapOk
<1>8. ASSUME NEW e \in Env, ForkCall(e) \/ DupChild(e) \/ DupParent(e) \/ ForkDone(e)
      PROVE  StepOk
  BY <1>0, <1>8, ForkCallOk, DupChildOk, DupParentOk, StartOk
<1>9. ASSUME NEW e \in Env, SpawnCall(e) \/ InitStackAlloc(e, Argv) PROVE StepOk
  BY <1>0, <1>9, SpawnCallOk, InitStackAllocOk
<1>10. ASSUME NEW e \in Env, InitStackMap(e) \/ InitStackUnmap(e) \/ LoadUnmap(e) PROVE StepOk
  BY <1>0, <1>10, InitStackGivenOk, InitStackGivesUpOk, UnmapOk
<1>15. ASSUME NEW e \in Env, LoadFails(e) \/ LoadFill(e, Argv) PROVE StepOk
  BY <1>0, <1>15, LoadFailsOk, LoadFilledOk, LoadGivesUpOk
<1>16. ASSUME NEW e \in Env, NEW perm \in SegmentPerms, LoadAlloc(e, perm) PROVE StepOk
  BY <1>0, <1>16, LoadAllocOk
<1>11. ASSUME NEW e \in Env, ShareLibrary(e) \/ SpawnDone(e) PROVE StepOk
  BY <1>0, <1>11, ShareLibraryOk, StartOk
<1>12. ASSUME NEW e \in Env, Exit(e) PROVE StepOk
  BY <1>0, <1>12, ExitOk
<1>13. ASSUME NEW e \in Env, NEW z \in Env, Reap(e, z) PROVE StepOk
  BY <1>0, <1>13, ReapOk
<1> QED BY <1>1, <1>2, <1>3, <1>4, <1>5, <1>6, <1>7, <1>8, <1>9, <1>10, <1>11, <1>12, <1>13,
           <1>14, <1>15, <1>16 DEF Next

(* The inductive invariant of the refinement: pages with PTE_LIBRARY are   *)
(* shared in all their entries, cow_entry maps a copy of the page that it  *)
(* replaces, and the child of fork or spawn has nothing but what it has    *)
(* been given.                                                             *)
THEOREM SpaceInvariant == Spec => []SpaceInv
<1>1. Init => SpaceInv
  BY InitSpace
<1>2. SpaceInv /\ [Next]_vars => SpaceInv'
  BY NextSpaces DEF StepOk
<1> QED BY <1>1, <1>2, PTL DEF Spec

(* fork with its copy-on-write pages, spawn, the memory system calls and   *)
(* the TLB under them give every env memory of its own, but for what it    *)
(* shares: each step is one of MemSpaces or changes nothing in the spaces. *)
THEOREM MemoryImplementsSpaces == Spec => ImplementsSpaces
<1>1. Init => Spaces!SpaceInit
  BY InitSpace
<1>2. SpaceInv /\ [Next]_vars => [Spaces!SpaceNext]_(Spaces!spaceVars)
  BY NextSpaces DEF StepOk, NextSpace
<1> QED BY <1>1, <1>2, SpaceInvariant, PTL DEF Spec, ImplementsSpaces, Spaces!SpaceSpec
=============================================================================
