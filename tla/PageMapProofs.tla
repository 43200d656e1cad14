--------------------------- MODULE PageMapProofs ----------------------------
(***************************************************************************)
(* Proofs about PageMap, for any number of envs, pages, page tables and    *)
(* TLB entries: the reference counters, the free list and the TLB agree    *)
(* with the page tables.                                                   *)
(*                                                                         *)
(* The memory functions of kern/pmap.c are composed on a record m of the   *)
(* kernel's memory, so what each of them preserves is a lemma about m:     *)
(* Good(m, held), where held are the pages that were allocated and are not *)
(* referenced yet.                                                         *)
(***************************************************************************)
EXTENDS PageMap, FiniteSetTheorems, WellFoundedInduction, TLAPS

(* A record of the memory state.                                           *)
IsMem(m) ==
  /\ m = [free |-> m.free, ref |-> m.ref, mem |-> m.mem, lost |-> m.lost,
          pte |-> m.pte, tlb |-> m.tlb]
  /\ m.free \subseteq Pages /\ m.lost \subseteq Pages
  /\ m.ref \in [Pages -> Nat]
  /\ m.mem \in [Pages -> Words]
  /\ m.pte \in [Env -> [Slot -> Pte \cup {NoPte}]]

VarHolders(p) == {e \in Env : env_vars[e] = p}

Counted(m) ==
  \A p \in Pages : m.ref[p] = Cardinality(Holders(m.pte, p)) + Cardinality(VarHolders(p))

Accounted(m, held) ==
  /\ held \subseteq Pages
  /\ m.free \cap m.lost = {} /\ m.free \cap held = {} /\ m.lost \cap held = {}
  /\ \A p \in Pages : m.ref[p] = 0 <=> p \in m.free \cup m.lost \cup held

Coherent(m) ==
  \A t \in m.tlb : \A s \in DOMAIN t.lo :
    t.lo[s] # NoPte =>
      \E e \in Env : env_status[e] # "FREE" /\ env_asid[e] = t.asid /\ m.pte[e][s] = t.lo[s]

Good(m, held) ==
  /\ IsMem(m) /\ Counted(m) /\ Accounted(m, held)
  /\ m.tlb \subseteq tlb /\ Coherent(m)

-----------------------------------------------------------------------------
(* Constants.                                                              *)

(* The addresses: user pages, page tables and the directory are different. *)
LEMMA Addresses ==
  /\ Va \subseteq Slot /\ Tables \subseteq Slot /\ UVPT \in Slot /\ UVPT \notin Va
  /\ Va \cap Tables = {} /\ UVPT \notin Tables
  /\ \A s \in Slot : PDX[s] \in Slot /\ PDX[s] \notin Va
  /\ \A s \in Slot \ {UVPT} : PDX[s] # s
  /\ UserVa \subseteq Va /\ {UTEMP, UCOW, USTACK, UXSTACK} \subseteq Va
  /\ UCOW \notin UserVa /\ UTEMP \notin UserVa /\ USTACK \in UserVa
  /\ UTEXT \in UserVa /\ UTEXT # USTACK
<1>1. UTOP \in Nat /\ UVPT \in Nat /\ UTOP < UVPT /\ {UTEMP, UCOW, USTACK, UXSTACK} \subseteq Va
      /\ UTEMP < USTACK /\ UCOW < USTACK /\ USTACK < UXSTACK
      /\ UTEXT \in 0 .. USTACK - 1 /\ UTEXT \notin {UTEMP, UCOW}
  BY MapAssumption
<1>2. PDX \in [Slot -> Tables \cup {UVPT}] /\ \A v \in Va : PDX[v] \in Tables
  BY MapAssumption
<1>3. \A d \in Tables \cup {UVPT} : PDX[d] = UVPT
  BY MapAssumption
<1>4. /\ Va \subseteq Slot /\ Tables \subseteq Slot /\ UVPT \in Slot /\ UVPT \notin Va
      /\ Va \cap Tables = {} /\ UVPT \notin Tables /\ Slot = Va \cup Tables \cup {UVPT}
  BY <1>1 DEF Va, Slot, Tables
<1>5. \A s \in Slot : PDX[s] \in Slot /\ PDX[s] \notin Va
  BY <1>2, <1>4
<1>6. \A s \in Slot \ {UVPT} : PDX[s] # s
  BY <1>2, <1>3, <1>4
<1>7. UserVa \subseteq Va /\ UCOW \notin UserVa /\ UTEMP \notin UserVa /\ USTACK \in UserVa
      /\ UTEXT \in UserVa /\ UTEXT # USTACK
  BY <1>1 DEF UserVa, Va
<1> QED BY <1>1, <1>4, <1>5, <1>6, <1>7

(* There are finitely many envs, slots and pages.                          *)
LEMMA Finite ==
  IsFiniteSet(Env) /\ IsFiniteSet(Slot) /\ IsFiniteSet(Pages) /\ IsFiniteSet(Env \X Slot)
  /\ Cardinality(Env) = NENV
<1>1. NENV - 1 \in Int /\ NPAGE \in Int /\ UVPT \in Int /\ NENV \in Nat \ {0}
  BY MapAssumption
<1>2. IsFiniteSet(Env) /\ Cardinality(Env) = NENV
  BY <1>1, FS_Interval DEF Env
<1>3. IsFiniteSet(Slot)
  BY <1>1, FS_Interval DEF Slot
<1>4. IsFiniteSet(Pages)
  BY <1>1, FS_Interval DEF Pages
<1> QED BY <1>2, <1>3, <1>4, FS_Product

(* The entries and the envs that hold a page are counted.                  *)
LEMMA HoldersFinite ==
  ASSUME NEW tables, NEW p
  PROVE  /\ IsFiniteSet(Holders(tables, p)) /\ Cardinality(Holders(tables, p)) \in Nat
         /\ IsFiniteSet(VarHolders(p)) /\ Cardinality(VarHolders(p)) \in Nat
<1>1. IsFiniteSet(Holders(tables, p))
  BY Finite, FS_Subset DEF Holders
<1>2. IsFiniteSet(VarHolders(p))
  BY Finite, FS_Subset DEF VarHolders
<1> QED BY <1>1, <1>2, FS_CardinalityType

(* A set of pages that is not empty has a least one.                       *)
LEMMA Least ==
  ASSUME NEW S \in SUBSET Nat, S # {}
  PROVE  \E x \in S : \A y \in S : x <= y
<1>1. PICK x \in S : \A y \in S : ~ (<<y, x>> \in OpToRel(<, Nat))
  BY NatLessThanWellFounded, WFMin, Zenon
<1>2. \A y \in S : ~ (y < x)
  BY <1>1, Zenon DEF OpToRel
<1> QED BY <1>2

(* page_alloc takes a page of the free list.                               *)
LEMMA FirstFree ==
  ASSUME NEW m, m.free \subseteq Pages, m.free # {}
  PROVE  First(m) \in m.free /\ First(m) \in Pages
<1>1. \E p \in m.free : \A q \in m.free : p <= q
  BY Least, MapAssumption DEF Pages
<1> QED BY <1>1 DEF First

-----------------------------------------------------------------------------
(* One entry changes.                                                      *)

(* n is m with another entry at s of env e.                                *)
OnlyEntry(old, new, e, s) ==
  \A f \in Env : \A x \in Slot : f # e \/ x # s => new[f][x] = old[f][x]

(* Changing one entry moves it from the holders of the old page to those   *)
(* of the new one.                                                         *)
LEMMA OneEntry ==
  ASSUME NEW old, NEW new, NEW e \in Env, NEW s \in Slot, OnlyEntry(old, new, e, s), NEW p
  PROVE  /\ new[e][s].page = p => Holders(new, p) = Holders(old, p) \cup {<<e, s>>}
         /\ new[e][s].page # p => Holders(new, p) = Holders(old, p) \ {<<e, s>>}
<1>1. \A y \in Env \X Slot : y = <<e, s>> \/ y[1] # e \/ y[2] # s
  OBVIOUS
<1>2. ASSUME NEW y \in Env \X Slot
      PROVE  y \in Holders(new, p) <=>
               IF y = <<e, s>> THEN new[e][s].page = p ELSE y \in Holders(old, p)
  BY <1>1 DEF Holders, OnlyEntry
<1>3. Holders(new, p) \subseteq Env \X Slot /\ Holders(old, p) \subseteq Env \X Slot
      /\ <<e, s>> \in Env \X Slot
  BY DEF Holders
<1> QED BY <1>2, <1>3

(* An entry is a holder of its page.                                       *)
LEMMA HolderOf ==
  ASSUME NEW tables, NEW e \in Env, NEW s \in Slot, NEW p
  PROVE  <<e, s>> \in Holders(tables, p) <=> tables[e][s].page = p
BY DEF Holders

-----------------------------------------------------------------------------
(* What the memory functions do to each field of m.                        *)

(* page_alloc takes the page off the free list.                            *)
LEMMA AllocFields ==
  ASSUME NEW m, IsMem(m), m.free # {}
  PROVE  LET n == PageAlloc(m)
         IN  /\ IsMem(n) /\ n.free = m.free \ {First(m)} /\ n.lost = m.lost
             /\ n.ref = m.ref /\ n.pte = m.pte /\ n.tlb = m.tlb
<1>1. First(m) \in Pages /\ 0 \in Words
  BY FirstFree, MapAssumption DEF IsMem
<1> QED BY <1>1 DEF IsMem, PageAlloc, Mem

(* tlb_invalidate touches the TLB only.                                    *)
LEMMA InvalidateFields ==
  ASSUME NEW m, IsMem(m), NEW a, NEW s
  PROVE  LET n == TlbInvalidate(m, a, s)
         IN  /\ IsMem(n) /\ n.free = m.free /\ n.lost = m.lost /\ n.mem = m.mem
             /\ n.ref = m.ref /\ n.pte = m.pte
             /\ n.tlb = {t \in m.tlb : ~ (t.asid = a /\ t.pair = Pair(s))}
BY DEF IsMem, TlbInvalidate, Mem

(* page_decref counts down and frees the page at zero.                     *)
LEMMA DecrefFields ==
  ASSUME NEW m, IsMem(m), NEW p \in Pages, m.ref[p] # 0
  PROVE  LET n == PageDecref(m, p)
         IN  /\ IsMem(n) /\ n.lost = m.lost /\ n.pte = m.pte /\ n.tlb = m.tlb
             /\ n.ref = [m.ref EXCEPT ![p] = @ - 1]
             /\ n.free = IF m.ref[p] = 1 THEN m.free \cup {p} ELSE m.free
<1>1. Junk \in Words
  BY MapAssumption
<1>2. m.ref[p] - 1 \in Nat
  BY DEF IsMem
<1> QED BY <1>1, <1>2 DEF IsMem, PageDecref, Mem

(* A new entry counts its page up.                                         *)
LEMMA LinkFields ==
  ASSUME NEW m, IsMem(m), NEW e \in Env, NEW s \in Slot, NEW p \in Pages, NEW perm \in Perms
  PROVE  LET n == Link(m, e, s, p, perm)
         IN  /\ IsMem(n) /\ n.free = m.free /\ n.lost = m.lost /\ n.tlb = m.tlb /\ n.mem = m.mem
             /\ n.ref = [m.ref EXCEPT ![p] = @ + 1]
             /\ n.pte = [m.pte EXCEPT ![e][s] = [page |-> p, perm |-> perm]]
<1>1. [page |-> p, perm |-> perm] \in Pte
  BY DEF Pte
<1> QED BY <1>1 DEF IsMem, Link, Mem

(* An assignment to an entry touches the tables only.                      *)
LEMMA SetPteFields ==
  ASSUME NEW m, IsMem(m), NEW e \in Env, NEW s \in Slot, NEW h \in Pte \cup {NoPte}
  PROVE  LET n == SetPte(m, e, s, h)
         IN  /\ IsMem(n) /\ n.free = m.free /\ n.lost = m.lost /\ n.tlb = m.tlb /\ n.mem = m.mem
             /\ n.ref = m.ref /\ n.pte = [m.pte EXCEPT ![e][s] = h]
BY DEF IsMem, SetPte, Mem

(* A page is lost.                                                         *)
LEMMA LosesFields ==
  ASSUME NEW m, IsMem(m), NEW p \in Pages
  PROVE  LET n == Loses(m, p)
         IN  /\ IsMem(n) /\ n.free = m.free /\ n.lost = m.lost \cup {p} /\ n.tlb = m.tlb
             /\ n.mem = m.mem /\ n.ref = m.ref /\ n.pte = m.pte
BY DEF IsMem, Loses, Mem

(* A page is written.                                                      *)
LEMMA WritesFields ==
  ASSUME NEW m, IsMem(m), NEW p \in Pages, NEW w \in Words
  PROVE  LET n == Writes(m, p, w)
         IN  /\ IsMem(n) /\ n.free = m.free /\ n.lost = m.lost /\ n.tlb = m.tlb
             /\ n.ref = m.ref /\ n.pte = m.pte
BY DEF IsMem, Writes, Mem


-----------------------------------------------------------------------------
(* What the memory functions preserve.                                     *)

(* A page that an entry holds is counted, so it is not free.               *)
LEMMA HeldIsCounted ==
  ASSUME NEW m, IsMem(m), Counted(m), NEW e \in Env, NEW s \in Slot, m.pte[e][s] # NoPte
  PROVE  m.pte[e][s].page \in Pages /\ m.ref[m.pte[e][s].page] # 0
<1> DEFINE p == m.pte[e][s].page
<1>1. p \in Pages
  BY DEF IsMem, Pte
<1>2. <<e, s>> \in Holders(m.pte, p)
  BY HolderOf
<1>3. Cardinality(Holders(m.pte, p)) # 0
  BY <1>2, HoldersFinite, FS_EmptySet
<1>4. m.ref[p] = Cardinality(Holders(m.pte, p)) + Cardinality(VarHolders(p))
  BY <1>1 DEF Counted
<1> QED BY <1>1, <1>3, <1>4, HoldersFinite

(* No entry holds a page whose counter is zero.                            *)
LEMMA ZeroIsUnheld ==
  ASSUME NEW m, IsMem(m), Counted(m), NEW p \in Pages, m.ref[p] = 0
  PROVE  \A e \in Env : \A s \in Slot : m.pte[e][s].page # p
<1> SUFFICES ASSUME NEW e \in Env, NEW s \in Slot, m.pte[e][s].page = p PROVE FALSE
  OBVIOUS
<1>1. m.pte[e][s] # NoPte
  BY MapAssumption DEF NoPte, Pages
<1> QED BY <1>1, HeldIsCounted

(* page_alloc.                                                             *)
LEMMA GoodAlloc ==
  ASSUME NEW m, NEW held, Good(m, held), m.free # {}
  PROVE  /\ Good(PageAlloc(m), held \cup {First(m)})
         /\ First(m) \in Pages /\ First(m) \in m.free /\ First(m) \notin held
         /\ PageAlloc(m).pte = m.pte /\ PageAlloc(m).ref = m.ref /\ m.ref[First(m)] = 0
         /\ PageAlloc(m).free = m.free \ {First(m)}
<1> DEFINE n == PageAlloc(m)
<1>1. First(m) \in m.free /\ First(m) \in Pages
  BY FirstFree DEF Good, IsMem
<1>2. /\ IsMem(n) /\ n.free = m.free \ {First(m)} /\ n.lost = m.lost
      /\ n.ref = m.ref /\ n.pte = m.pte /\ n.tlb = m.tlb
  BY AllocFields DEF Good
<1> HIDE DEF n
<1>3. Accounted(n, held \cup {First(m)}) /\ First(m) \notin held /\ m.ref[First(m)] = 0
  BY <1>1, <1>2 DEF Good, Accounted
<1>4. Counted(n) /\ Coherent(n)
  BY <1>2 DEF Good, Counted, Coherent
<1> QED BY <1>1, <1>2, <1>3, <1>4 DEF Good, n

(* tlb_invalidate.                                                         *)
LEMMA GoodInvalidate ==
  ASSUME NEW m, NEW held, Good(m, held), NEW a, NEW s
  PROVE  Good(TlbInvalidate(m, a, s), held)
<1> DEFINE n == TlbInvalidate(m, a, s)
<1>1. /\ IsMem(n) /\ n.free = m.free /\ n.lost = m.lost
      /\ n.ref = m.ref /\ n.pte = m.pte
      /\ n.tlb \subseteq m.tlb
  BY InvalidateFields DEF Good
<1> HIDE DEF n
<1>2. Accounted(n, held) /\ Counted(n) /\ Coherent(n)
  BY <1>1 DEF Good, Accounted, Counted, Coherent
<1> QED BY <1>1, <1>2 DEF Good, n

(* What the TLB holds of other pairs, or for other ASIDs, stays true when  *)
(* an entry changes.                                                       *)
LEMMA StaysCoherent ==
  ASSUME NEW m, Coherent(m), IsMem(m), m.tlb \subseteq tlb, TlbType,
         NEW e \in Env, NEW s \in Slot, NEW n,
         OnlyEntry(m.pte, n.pte, e, s),
         n.tlb \subseteq {t \in m.tlb : ~ (t.asid = env_asid[e] /\ t.pair = Pair(s))}
  PROVE  Coherent(n)
<1> SUFFICES ASSUME NEW t \in n.tlb, NEW x \in DOMAIN t.lo, t.lo[x] # NoPte
             PROVE  \E f \in Env : env_status[f] # "FREE" /\ env_asid[f] = t.asid
                                   /\ n.pte[f][x] = t.lo[x]
  BY DEF Coherent
<1>1. t \in m.tlb /\ t \in tlb /\ ~ (t.asid = env_asid[e] /\ t.pair = Pair(s))
  OBVIOUS
<1>2. x \in Slot /\ Pair(x) = t.pair
  BY <1>1 DEF TlbType
<1>3. PICK f \in Env : env_status[f] # "FREE" /\ env_asid[f] = t.asid /\ m.pte[f][x] = t.lo[x]
  BY <1>1 DEF Coherent
<1>4. f # e \/ x # s
  BY <1>1, <1>2, <1>3
<1> QED BY <1>2, <1>3, <1>4 DEF OnlyEntry

(* An entry that was not there is not in the TLB.                          *)
LEMMA StaysCoherentNew ==
  ASSUME NEW m, Coherent(m), m.tlb \subseteq tlb, TlbType,
         NEW e \in Env, NEW s \in Slot, NEW n, m.pte[e][s] = NoPte,
         OnlyEntry(m.pte, n.pte, e, s),
         n.tlb = m.tlb
  PROVE  Coherent(n)
<1> SUFFICES ASSUME NEW t \in n.tlb, NEW x \in DOMAIN t.lo, t.lo[x] # NoPte
             PROVE  \E f \in Env : env_status[f] # "FREE" /\ env_asid[f] = t.asid
                                   /\ n.pte[f][x] = t.lo[x]
  BY DEF Coherent
<1>1. t \in m.tlb /\ x \in Slot
  BY DEF TlbType
<1>2. PICK f \in Env : env_status[f] # "FREE" /\ env_asid[f] = t.asid /\ m.pte[f][x] = t.lo[x]
  BY <1>1 DEF Coherent
<1> QED BY <1>1, <1>2 DEF OnlyEntry

(* The counters after an entry that held a page is cleared.                *)
LEMMA UnlinkCounts ==
  ASSUME NEW m, IsMem(m), Counted(m), NEW e \in Env, NEW s \in Slot, m.pte[e][s] # NoPte,
         NEW n, OnlyEntry(m.pte, n.pte, e, s), n.pte[e][s] = NoPte,
         n.ref = [m.ref EXCEPT ![m.pte[e][s].page] = @ - 1]
  PROVE  Counted(n)
<1> SUFFICES ASSUME NEW p \in Pages
             PROVE  n.ref[p] = Cardinality(Holders(n.pte, p)) + Cardinality(VarHolders(p))
  BY DEF Counted
<1> DEFINE q == m.pte[e][s].page
           before == Holders(m.pte, p)
<1>1. q \in Pages /\ m.ref \in [Pages -> Nat] /\ NoPte.page # p
  BY HeldIsCounted, MapAssumption DEF IsMem, NoPte, Pages
<1>2. Holders(n.pte, p) = before \ {<<e, s>>}
  BY <1>1, OneEntry
<1>3. IsFiniteSet(before) /\ (<<e, s>> \in before <=> p = q) /\ Cardinality(before) \in Nat
      /\ Cardinality(VarHolders(p)) \in Nat
  BY HoldersFinite, HolderOf
<1>4. m.ref[p] = Cardinality(before) + Cardinality(VarHolders(p))
  BY DEF Counted
<1>5. n.ref[p] = IF p = q THEN m.ref[p] - 1 ELSE m.ref[p]
  BY <1>1
<1> HIDE DEF before, q
<1>6. Cardinality(before \ {<<e, s>>}) = IF p = q THEN Cardinality(before) - 1
                                                  ELSE Cardinality(before)
  BY <1>3, FS_RemoveElement
<1> QED BY <1>2, <1>3, <1>4, <1>5, <1>6

(* The counters after an empty entry is given a page.                      *)
LEMMA LinkCounts ==
  ASSUME NEW m, IsMem(m), Counted(m), NEW e \in Env, NEW s \in Slot, m.pte[e][s] = NoPte,
         NEW q \in Pages,
         NEW n, OnlyEntry(m.pte, n.pte, e, s), n.pte[e][s].page = q,
         n.ref = [m.ref EXCEPT ![q] = @ + 1]
  PROVE  Counted(n)
<1> SUFFICES ASSUME NEW p \in Pages
             PROVE  n.ref[p] = Cardinality(Holders(n.pte, p)) + Cardinality(VarHolders(p))
  BY DEF Counted
<1> DEFINE before == Holders(m.pte, p)
<1>1. m.ref \in [Pages -> Nat] /\ NoPte.page # p
  BY MapAssumption DEF IsMem, NoPte, Pages
<1>2. /\ p = q => Holders(n.pte, p) = before \cup {<<e, s>>}
      /\ p # q => Holders(n.pte, p) = before \ {<<e, s>>}
  BY OneEntry
<1>3. IsFiniteSet(before) /\ <<e, s>> \notin before /\ Cardinality(before) \in Nat
      /\ Cardinality(VarHolders(p)) \in Nat
  BY <1>1, HoldersFinite, HolderOf
<1>4. m.ref[p] = Cardinality(before) + Cardinality(VarHolders(p))
  BY DEF Counted
<1>5. n.ref[p] = IF p = q THEN m.ref[p] + 1 ELSE m.ref[p]
  BY <1>1
<1> HIDE DEF before
<1>6. /\ Cardinality(before \cup {<<e, s>>}) = Cardinality(before) + 1
      /\ Cardinality(before \ {<<e, s>>}) = Cardinality(before)
  BY <1>3, FS_AddElement, FS_RemoveElement
<1>7. CASE p = q
  <2>1. n.ref[p] = m.ref[p] + 1
    BY <1>5, <1>7
  <2>2. Cardinality(Holders(n.pte, p)) = Cardinality(before) + 1
    BY <1>2, <1>6, <1>7
  <2> DEFINE a == Cardinality(before)
             b == Cardinality(VarHolders(p))
  <2>3. a \in Nat /\ b \in Nat /\ m.ref[p] = a + b
    BY <1>3, <1>4
  <2> HIDE DEF a, b
  <2>4. (a + b) + 1 = (a + 1) + b
    BY <2>3
  <2> QED BY <2>1, <2>2, <2>3, <2>4 DEF a, b
<1>8. CASE p # q
  BY <1>2, <1>3, <1>4, <1>5, <1>6, <1>8
<1> QED BY <1>7, <1>8

(* page_remove.                                                            *)
LEMMA GoodRemove ==
  ASSUME NEW m, NEW held, Good(m, held), TlbType, NEW e \in Env, NEW s \in Slot
  PROVE  /\ Good(PageRemove(m, e, s), held)
         /\ PageRemove(m, e, s).pte = [m.pte EXCEPT ![e][s] = NoPte]
         /\ m.free \subseteq PageRemove(m, e, s).free
         /\ \A p \in Pages : p # m.pte[e][s].page => PageRemove(m, e, s).ref[p] = m.ref[p]
<1>1. CASE m.pte[e][s] = NoPte
  <2>1. PageRemove(m, e, s) = m
    BY <1>1 DEF PageRemove
  <2>2. m.pte = [m.pte EXCEPT ![e][s] = NoPte]
    BY <1>1 DEF Good, IsMem
  <2> QED BY <2>1, <2>2
<1>2. CASE m.pte[e][s] # NoPte
  <2> DEFINE q == m.pte[e][s].page
             d == PageDecref(m, q)
             u == SetPte(d, e, s, NoPte)
             n == TlbInvalidate(u, env_asid[e], s)
  <2>1. q \in Pages /\ m.ref[q] # 0 /\ m.ref \in [Pages -> Nat]
    BY <1>2, HeldIsCounted DEF Good, IsMem
  <2>2. /\ IsMem(d) /\ d.lost = m.lost /\ d.pte = m.pte /\ d.tlb = m.tlb
        /\ d.ref = [m.ref EXCEPT ![q] = @ - 1]
        /\ d.free = IF m.ref[q] = 1 THEN m.free \cup {q} ELSE m.free
    BY <2>1, DecrefFields DEF Good
  <2> HIDE DEF q, d
  <2>3. /\ IsMem(u) /\ u.free = d.free /\ u.lost = d.lost /\ u.tlb = d.tlb
        /\ u.ref = d.ref /\ u.pte = [d.pte EXCEPT ![e][s] = NoPte]
    BY <2>2, SetPteFields
  <2> HIDE DEF u
  <2>4. /\ IsMem(n) /\ n.free = u.free /\ n.lost = u.lost /\ n.ref = u.ref /\ n.pte = u.pte
        /\ n.tlb = {t \in u.tlb : ~ (t.asid = env_asid[e] /\ t.pair = Pair(s))}
    BY <2>3, InvalidateFields
  <2>5. n = PageRemove(m, e, s)
    BY <1>2 DEF PageRemove, q, d, u
  <2> HIDE DEF n
  <2>6. /\ n.pte = [m.pte EXCEPT ![e][s] = NoPte] /\ n.ref = [m.ref EXCEPT ![q] = @ - 1]
        /\ n.lost = m.lost
        /\ n.free = IF m.ref[q] = 1 THEN m.free \cup {q} ELSE m.free
        /\ n.tlb = {t \in m.tlb : ~ (t.asid = env_asid[e] /\ t.pair = Pair(s))}
    BY <2>2, <2>3, <2>4
  <2>9. OnlyEntry(m.pte, n.pte, e, s) /\ n.pte[e][s] = NoPte
    BY <2>6 DEF Good, IsMem, OnlyEntry
  <2>7. Counted(n)
    BY <1>2, <2>6, <2>9, UnlinkCounts DEF Good, q
  <2>8. Accounted(n, held)
    BY <2>1, <2>6 DEF Good, Accounted
  <2>10. Coherent(n)
    <3>1. Coherent(m) /\ IsMem(m) /\ m.tlb \subseteq tlb
      BY DEF Good
    <3>2. n.tlb \subseteq {t \in m.tlb : ~ (t.asid = env_asid[e] /\ t.pair = Pair(s))}
      BY <2>6
    <3> QED BY <2>9, <3>1, <3>2, StaysCoherent
  <2>11. Good(n, held)
    <3>1. m.tlb \subseteq tlb
      BY DEF Good
    <3>2. n.tlb \subseteq tlb
      BY <2>6, <3>1
    <3> QED BY <2>4, <2>7, <2>8, <2>10, <3>2 DEF Good
  <2>12. \A p \in Pages : p # q => n.ref[p] = m.ref[p]
    BY <2>1, <2>6
  <2> QED BY <2>5, <2>6, <2>11, <2>12 DEF q
<1> QED BY <1>1, <1>2

(* What becomes of the other entries and of the counters when a page is    *)
(* put into an entry.                                                      *)
LEMMA LinkEffect ==
  ASSUME NEW m, IsMem(m), NEW e \in Env, NEW s \in Slot, NEW p \in Pages, NEW perm \in Perms,
         NEW n, n = Link(m, e, s, p, perm)
  PROVE  /\ OnlyEntry(m.pte, n.pte, e, s) /\ n.pte[e][s] = [page |-> p, perm |-> perm]
         /\ \A q \in Pages : m.ref[q] # 0 => n.ref[q] # 0
<1>1. /\ n.ref = [m.ref EXCEPT ![p] = @ + 1]
      /\ n.pte = [m.pte EXCEPT ![e][s] = [page |-> p, perm |-> perm]]
  BY DEF Link, Mem
<1>2. OnlyEntry(m.pte, n.pte, e, s) /\ n.pte[e][s] = [page |-> p, perm |-> perm]
  BY <1>1 DEF IsMem, OnlyEntry
<1>3. \A q \in Pages : m.ref[q] # 0 => n.ref[q] # 0
  BY <1>1 DEF IsMem
<1> QED BY <1>2, <1>3

(* A page that was allocated or is in use is put into an empty entry.      *)
LEMMA GoodLink ==
  ASSUME NEW m, NEW held, Good(m, held), TlbType, NEW e \in Env, NEW s \in Slot,
         m.pte[e][s] = NoPte, NEW p \in Pages, p \in held \/ m.ref[p] # 0, NEW perm \in Perms,
         NEW n, n = Link(m, e, s, p, perm), NEW rest, rest = held \ {p}
  PROVE  Good(n, rest)
<1>0. IsMem(m) /\ Counted(m) /\ Coherent(m) /\ m.tlb \subseteq tlb /\ m.ref \in [Pages -> Nat]
  BY DEF Good, IsMem
<1>1. /\ n.free = m.free /\ n.lost = m.lost /\ n.tlb = m.tlb
      /\ n.ref = [m.ref EXCEPT ![p] = @ + 1]
      /\ n.pte = [m.pte EXCEPT ![e][s] = [page |-> p, perm |-> perm]]
  BY DEF Link, Mem
<1>6. IsMem(n)
  BY <1>0, LinkFields
<1>2. OnlyEntry(m.pte, n.pte, e, s) /\ n.pte[e][s].page = p
  BY <1>0, <1>1 DEF IsMem, OnlyEntry
<1>3. Counted(n)
  BY <1>0, <1>1, <1>2, LinkCounts
<1>4. Accounted(n, rest)
  BY <1>0, <1>1 DEF Good, Accounted
<1>5. Coherent(n)
  BY <1>0, <1>1, <1>2, StaysCoherentNew
<1> QED BY <1>0, <1>1, <1>3, <1>4, <1>5, <1>6 DEF Good

(* Beside the entry of s, page_insert changes only a page table that was   *)
(* missing.                                                                *)
Frame(m, n, e, s) ==
  \A f \in Env : \A x \in Slot : f # e \/ x # s =>
    n.pte[f][x] = m.pte[f][x] \/ (f = e /\ x = PDX[s] /\ m.pte[f][x] = NoPte)

(* pgdir_walk, when it succeeds.                                           *)
LEMMA GoodWalk ==
  ASSUME NEW m, NEW held, Good(m, held), TlbType, NEW e \in Env, NEW s \in Slot \ {UVPT},
         WalkOk(m, e, s)
  PROVE  LET n == PgdirWalk(m, e, s)
         IN  /\ Good(n, held) /\ Frame(m, n, e, s) /\ n.pte[e][s] = m.pte[e][s]
             /\ \A p \in Pages : m.ref[p] # 0 => n.ref[p] # 0
<1> DEFINE n == PgdirWalk(m, e, s)
<1>0. s \in Slot /\ PDX[s] \in Slot /\ PDX[s] # s /\ m.ref \in [Pages -> Nat]
  BY Addresses DEF Good, IsMem
<1>1. CASE m.pte[e][PDX[s]] # NoPte
  <2>1. n = m
    BY <1>1 DEF PgdirWalk
  <2> QED BY <2>1 DEF Frame
<1>2. CASE m.pte[e][PDX[s]] = NoPte
  <2> DEFINE a == PageAlloc(m)
             q == First(m)
  <2>1. m.free # {}
    BY <1>2 DEF WalkOk
  <2>2. /\ Good(a, held \cup {q}) /\ q \in Pages /\ q \notin held
        /\ a.pte = m.pte /\ a.ref = m.ref
    BY <2>1, GoodAlloc
  <2>3. n = Link(a, e, PDX[s], q, {}) /\ {} \in Perms
    BY <1>2 DEF PgdirWalk, Perms
  <2> HIDE DEF a, q, n
  <2>4. /\ Good(n, held)
        /\ OnlyEntry(a.pte, n.pte, e, PDX[s])
        /\ \A p \in Pages : a.ref[p] # 0 => n.ref[p] # 0
    <3>1. q \in held \cup {q} /\ a.pte[e][PDX[s]] = NoPte
      BY <1>2, <2>2
    <3>2. held = (held \cup {q}) \ {q}
      BY <2>2
    <3>3. PICK more, t, none : more = held \cup {q} /\ t = PDX[s] /\ none = {}
      OBVIOUS
    <3>4. /\ Good(a, more) /\ q \in more /\ t \in Slot /\ none \in Perms /\ held = more \ {q}
          /\ a.pte[e][t] = NoPte /\ n = Link(a, e, t, q, none) /\ q \in Pages /\ e \in Env
      BY <1>0, <2>2, <2>3, <3>1, <3>2, <3>3
    <3>5. Good(n, held)
      BY <3>4, GoodLink
    <3>6. IsMem(a)
      BY <3>4 DEF Good
    <3>7. /\ OnlyEntry(a.pte, n.pte, e, t)
          /\ \A p \in Pages : a.ref[p] # 0 => n.ref[p] # 0
      <4>1. n.ref = [a.ref EXCEPT ![q] = @ + 1] /\ a.ref \in [Pages -> Nat]
        BY <3>4, <3>6 DEF Link, Mem, IsMem
      <4>2. n.pte = [a.pte EXCEPT ![e][t] = [page |-> q, perm |-> none]]
            /\ a.pte \in [Env -> [Slot -> Pte \cup {NoPte}]]
        BY <3>4, <3>6 DEF Link, Mem, IsMem
      <4>3. OnlyEntry(a.pte, n.pte, e, t)
        BY <3>4, <4>2 DEF OnlyEntry
      <4> QED BY <3>4, <4>1, <4>3
    <3> QED BY <3>3, <3>5, <3>7
  <2>7. \A f \in Env : \A x \in Slot : f # e \/ x # PDX[s] => n.pte[f][x] = m.pte[f][x]
    BY <1>0, <2>2, <2>4 DEF OnlyEntry
  <2>8. Frame(m, n, e, s) /\ n.pte[e][s] = m.pte[e][s]
    BY <1>0, <1>2, <2>7 DEF Frame
  <2>9. \A p \in Pages : m.ref[p] # 0 => n.ref[p] # 0
    BY <1>0, <2>2, <2>4
  <2> QED BY <2>4, <2>8, <2>9 DEF n
<1> QED BY <1>1, <1>2

(* page_insert over the same page.                                         *)
LEMMA GoodReinsert ==
  ASSUME NEW m, NEW held, Good(m, held), TlbType, NEW e \in Env, NEW s \in Slot,
         NEW p \in Pages, NEW perm \in Perms, SamePage(m, e, s, p)
  PROVE  LET n == SetPte(TlbInvalidate(m, env_asid[e], s), e, s, [page |-> p, perm |-> perm])
         IN  Good(n, held) /\ n.pte = [m.pte EXCEPT ![e][s] = [page |-> p, perm |-> perm]]
<1> DEFINE h == [page |-> p, perm |-> perm]
           i == TlbInvalidate(m, env_asid[e], s)
           n == SetPte(i, e, s, h)
<1>1. h \in Pte /\ h.page = p /\ m.pte[e][s].page = p
  BY DEF Pte, SamePage
<1>2. /\ IsMem(i) /\ i.free = m.free /\ i.lost = m.lost /\ i.ref = m.ref /\ i.pte = m.pte
      /\ i.tlb = {t \in m.tlb : ~ (t.asid = env_asid[e] /\ t.pair = Pair(s))}
  BY InvalidateFields DEF Good
<1> HIDE DEF h, i
<1>3. /\ IsMem(n) /\ n.free = i.free /\ n.lost = i.lost /\ n.tlb = i.tlb /\ n.ref = i.ref
      /\ n.pte = [i.pte EXCEPT ![e][s] = h]
  BY <1>1, <1>2, SetPteFields
<1> HIDE DEF n
<1>4. OnlyEntry(m.pte, n.pte, e, s) /\ n.pte[e][s] = h
  BY <1>2, <1>3 DEF Good, IsMem, OnlyEntry
<1>5. ASSUME NEW q \in Pages PROVE Holders(n.pte, q) = Holders(m.pte, q)
  <2>1. /\ p = q => Holders(n.pte, q) = Holders(m.pte, q) \cup {<<e, s>>}
        /\ p # q => Holders(n.pte, q) = Holders(m.pte, q) \ {<<e, s>>}
    BY <1>1, <1>4, OneEntry
  <2>2. <<e, s>> \in Holders(m.pte, q) <=> p = q
    BY <1>1, HolderOf
  <2> QED BY <2>1, <2>2
<1>6. Counted(n)
  BY <1>2, <1>3, <1>5 DEF Good, Counted
<1>7. Accounted(n, held)
  BY <1>2, <1>3 DEF Good, Accounted
<1>8. Coherent(n)
  <2>1. Coherent(m) /\ IsMem(m) /\ m.tlb \subseteq tlb
    BY DEF Good
  <2>2. n.tlb \subseteq {t \in m.tlb : ~ (t.asid = env_asid[e] /\ t.pair = Pair(s))}
    BY <1>2, <1>3
  <2> QED BY <1>4, <2>1, <2>2, StaysCoherent
<1>9. n.tlb \subseteq tlb
  BY <1>2, <1>3 DEF Good
<1> QED BY <1>2, <1>3, <1>6, <1>7, <1>8, <1>9 DEF Good, n, h, i

(* page_insert: it succeeds with the page in the entry, or fails with the  *)
(* entry empty.                                                            *)
Inserts(m, held, e, s, p, perm, n, rest) ==
  /\ Good(m, held) /\ TlbType
  /\ e \in Env /\ s \in Slot /\ s # UVPT /\ p \in Pages /\ perm \in Perms
  /\ p \in held \/ m.ref[p] # 0
  /\ n = PageInsert(m, e, s, p, perm)
  /\ InsertOk(m, e, s, p) => rest = held \ {p}
  /\ ~ InsertOk(m, e, s, p) => rest = held

LEMMA GoodInsert ==
  ASSUME NEW m, NEW held, NEW e, NEW s, NEW p, NEW perm, NEW n, NEW rest,
         Inserts(m, held, e, s, p, perm, n, rest)
  PROVE  /\ Good(n, rest)
         /\ InsertOk(m, e, s, p) => n.pte[e][s] = [page |-> p, perm |-> perm]
         /\ ~ InsertOk(m, e, s, p) => n.pte[e][s] = NoPte
         /\ Frame(m, n, e, s)
<1> SUFFICES ASSUME Good(m, held), TlbType, e \in Env, s \in Slot \ {UVPT},
                    p \in Pages, p \in held \/ m.ref[p] # 0, perm \in Perms,
                    n = PageInsert(m, e, s, p, perm),
                    InsertOk(m, e, s, p) => rest = held \ {p},
                    ~ InsertOk(m, e, s, p) => rest = held
             PROVE  /\ Good(n, rest)
                    /\ InsertOk(m, e, s, p) => n.pte[e][s] = [page |-> p, perm |-> perm]
                    /\ ~ InsertOk(m, e, s, p) => n.pte[e][s] = NoPte
                    /\ Frame(m, n, e, s)
  BY DEF Inserts
<1>0. s \in Slot /\ m.pte \in [Env -> [Slot -> Pte \cup {NoPte}]]
  BY DEF Good, IsMem
<1>1. CASE SamePage(m, e, s, p)
  <2>1. InsertOk(m, e, s, p)
        /\ n = SetPte(TlbInvalidate(m, env_asid[e], s), e, s, [page |-> p, perm |-> perm])
    BY <1>1 DEF InsertOk, PageInsert
  <2>2. Good(n, held) /\ n.pte = [m.pte EXCEPT ![e][s] = [page |-> p, perm |-> perm]]
    BY <1>0, <1>1, <2>1, GoodReinsert
  <2>3. p \notin held
    <3>1. m.pte[e][s] # NoPte /\ m.pte[e][s].page = p
      BY <1>1, MapAssumption DEF SamePage, NoPte, Pages
    <3>2. m.ref[p] # 0
      BY <1>0, <3>1, HeldIsCounted DEF Good
    <3> QED BY <3>2 DEF Good, Accounted
  <2>4. rest = held
    BY <2>1, <2>3
  <2>5. n.pte[e][s] = [page |-> p, perm |-> perm] /\ Frame(m, n, e, s)
    BY <1>0, <2>2 DEF Frame
  <2> QED BY <2>1, <2>2, <2>4, <2>5
<1>2. CASE ~ SamePage(m, e, s, p)
  <2> DEFINE r == PageRemove(m, e, s)
             c == Cleared(m, e, s)
             w == PgdirWalk(c, e, s)
  <2>1. /\ Good(r, held) /\ r.pte = [m.pte EXCEPT ![e][s] = NoPte]
        /\ \A q \in Pages : q # m.pte[e][s].page => r.ref[q] = m.ref[q]
    BY <1>0, GoodRemove
  <2>2. c = TlbInvalidate(r, env_asid[e], s)
    BY DEF Cleared
  <2> HIDE DEF r, c
  <2>3. Good(c, held) /\ c.pte = r.pte /\ c.ref = r.ref
    <3>1. IsMem(r)
      BY <2>1 DEF Good
    <3> QED BY <2>1, <2>2, <3>1, GoodInvalidate, InvalidateFields
  <2>4. p \in held \/ c.ref[p] # 0
    BY <1>2, <2>1, <2>3 DEF SamePage
  <2>5. c.pte[e][s] = NoPte /\ Frame(m, c, e, s)
    BY <1>0, <2>1, <2>3 DEF Frame
  <2>6. CASE WalkOk(c, e, s)
    <3>1. InsertOk(m, e, s, p) /\ n = Link(w, e, s, p, perm)
      BY <1>2, <2>6 DEF InsertOk, PageInsert, c
    <3>2. /\ Good(w, held) /\ Frame(c, w, e, s) /\ w.pte[e][s] = c.pte[e][s]
          /\ \A q \in Pages : c.ref[q] # 0 => w.ref[q] # 0
      BY <2>3, <2>6, GoodWalk
    <3> HIDE DEF w
    <3>3. /\ Good(n, rest)
          /\ OnlyEntry(w.pte, n.pte, e, s) /\ n.pte[e][s] = [page |-> p, perm |-> perm]
      <4>1. w.pte[e][s] = NoPte /\ (p \in held \/ w.ref[p] # 0)
        BY <2>4, <2>5, <3>2
      <4>2. rest = held \ {p}
        BY <3>1
      <4>3. n = Link(w, e, s, p, perm) /\ Good(w, held)
        BY <3>1, <3>2
      <4>4. s \in Slot /\ p \in Pages /\ perm \in Perms /\ e \in Env
        OBVIOUS
      <4>5. Good(n, rest)
        BY <4>1, <4>2, <4>3, <4>4, GoodLink
      <4>6. IsMem(w)
        BY <4>3 DEF Good
      <4>7. OnlyEntry(w.pte, n.pte, e, s) /\ n.pte[e][s] = [page |-> p, perm |-> perm]
        BY <4>3, <4>4, <4>6, LinkEffect
      <4> QED BY <4>2, <4>5, <4>7
    <3>6. Frame(m, n, e, s)
      <4> SUFFICES ASSUME NEW f \in Env, NEW x \in Slot, f # e \/ x # s
                   PROVE  n.pte[f][x] = m.pte[f][x]
                          \/ (f = e /\ x = PDX[s] /\ m.pte[f][x] = NoPte)
        BY DEF Frame
      <4>1. n.pte[f][x] = w.pte[f][x] /\ c.pte[f][x] = m.pte[f][x]
        BY <1>0, <2>1, <2>3, <3>3 DEF OnlyEntry
      <4>2. w.pte[f][x] = c.pte[f][x] \/ (f = e /\ x = PDX[s] /\ c.pte[f][x] = NoPte)
        BY <3>2 DEF Frame
      <4> QED BY <4>1, <4>2
    <3> QED BY <3>1, <3>3, <3>6
  <2>7. CASE ~ WalkOk(c, e, s)
    <3>1. ~ InsertOk(m, e, s, p) /\ n = c
      BY <1>2, <2>7 DEF InsertOk, PageInsert, c
    <3> QED BY <2>3, <2>5, <3>1
  <2> QED BY <2>6, <2>7
<1> QED BY <1>1, <1>2

(* sys_mem_alloc: the page in the entry is new, or the entry is empty, or  *)
(* nothing has happened.                                                   *)
LEMMA GoodMemAlloc ==
  ASSUME NEW m, Good(m, {}), TlbType, NEW e \in Env, NEW s \in Slot \ {UVPT}, NEW perm \in Perms,
         NEW n, n = SysMemAlloc(m, e, s, perm)
  PROVE  /\ Good(n, {})
         /\ AllocOk(m, e, s) => /\ First(m) \in Pages /\ m.ref[First(m)] = 0
                                /\ n.pte[e][s] = [page |-> First(m), perm |-> perm]
         /\ ~ AllocOk(m, e, s) => n.pte[e][s] = NoPte \/ n.pte[e][s] = m.pte[e][s]
         /\ Frame(m, n, e, s)
<1>1. CASE m.free = {}
  <2>1. n = m /\ ~ AllocOk(m, e, s)
    BY <1>1 DEF SysMemAlloc, AllocOk
  <2> QED BY <2>1 DEF Frame
<1>2. CASE m.free # {}
  <2>1. PICK a, q, i, held, rest :
          /\ a = PageAlloc(m) /\ q = First(m) /\ i = PageInsert(a, e, s, q, perm) /\ held = {q}
          /\ rest = IF InsertOk(a, e, s, q) THEN held \ {q} ELSE held
    OBVIOUS
  <2>2. Good(a, {} \cup {q}) /\ q \in Pages /\ m.ref[q] = 0 /\ a.pte = m.pte
    BY <1>2, <2>1, GoodAlloc
  <2>3. Good(a, held) /\ q \in held
    <3>1. {} \cup {q} = held
      BY <2>1
    <3> QED BY <2>2, <3>1
  <2>10. (InsertOk(a, e, s, q) => rest = held \ {q}) /\ (~ InsertOk(a, e, s, q) => rest = held)
    BY <2>1
  <2>11. i = PageInsert(a, e, s, q, perm) /\ q \in Pages
    BY <2>1, <2>2
  <2>12. Inserts(a, held, e, s, q, perm, i, rest)
    BY <2>3, <2>10, <2>11 DEF Inserts
  <2>4. Good(i, rest)
    BY <2>12, GoodInsert
  <2>5. /\ InsertOk(a, e, s, q) => i.pte[e][s] = [page |-> q, perm |-> perm]
        /\ ~ InsertOk(a, e, s, q) => i.pte[e][s] = NoPte
        /\ Frame(a, i, e, s)
    BY <2>12, GoodInsert
  <2>6. Frame(m, i, e, s)
    BY <2>2, <2>5 DEF Frame
  <2>7. AllocOk(m, e, s) <=> InsertOk(a, e, s, q)
    BY <1>2, <2>1 DEF AllocOk
  <2>8. CASE AllocOk(m, e, s)
    <3>1. n = i /\ rest = {}
      BY <1>2, <2>1, <2>7, <2>8 DEF SysMemAlloc
    <3> QED BY <2>1, <2>2, <2>4, <2>5, <2>6, <2>7, <2>8, <3>1
  <2>9. CASE ~ AllocOk(m, e, s)
    <3>1. n = Loses(i, q) /\ rest = {q}
      BY <1>2, <2>1, <2>7, <2>9 DEF SysMemAlloc
    <3>2. IsMem(i) /\ Counted(i) /\ Accounted(i, {q}) /\ i.tlb \subseteq tlb /\ Coherent(i)
      BY <2>4, <3>1 DEF Good
    <3>3. /\ n.free = i.free /\ n.lost = i.lost \cup {q} /\ n.tlb = i.tlb
          /\ n.ref = i.ref /\ n.pte = i.pte
      BY <3>1 DEF Loses, Mem
    <3>4. IsMem(n)
      BY <2>2, <3>1, <3>2, LosesFields
    <3>5. Counted(n) /\ Coherent(n)
      BY <3>2, <3>3 DEF Counted, Coherent
    <3>6. Accounted(n, {})
      BY <3>2, <3>3 DEF Accounted
    <3>7. Good(n, {})
      BY <3>2, <3>3, <3>4, <3>5, <3>6 DEF Good
    <3>8. Frame(m, n, e, s) /\ n.pte[e][s] = NoPte
      BY <2>5, <2>6, <2>7, <2>9, <3>3 DEF Frame
    <3> QED BY <2>9, <3>7, <3>8
  <2> QED BY <2>8, <2>9
<1> QED BY <1>1, <1>2

(* sys_mem_map of a page to the entry t of env f.                          *)
Maps(m, e, s, f, t, perm, n) ==
  /\ Good(m, {}) /\ TlbType /\ e \in Env /\ s \in Slot /\ f \in Env /\ t \in Slot /\ t # UVPT
  /\ perm \in Perms /\ n = SysMemMap(m, e, s, f, t, perm)

LEMMA GoodMemMap ==
  ASSUME NEW m, NEW e, NEW s, NEW f, NEW t, NEW perm, NEW n, Maps(m, e, s, f, t, perm, n)
  PROVE  /\ Good(n, {})
         /\ MapOk(m, e, s, f, t) => n.pte[f][t] = [page |-> m.pte[e][s].page, perm |-> perm]
         /\ ~ MapOk(m, e, s, f, t) => n.pte[f][t] = NoPte \/ n.pte[f][t] = m.pte[f][t]
         /\ Frame(m, n, f, t)
<1>0. /\ Good(m, {}) /\ TlbType /\ e \in Env /\ s \in Slot /\ f \in Env /\ t \in Slot /\ t # UVPT
      /\ perm \in Perms /\ n = SysMemMap(m, e, s, f, t, perm)
  BY DEF Maps
<1>1. CASE m.pte[e][s] = NoPte
  <2>1. n = m /\ ~ MapOk(m, e, s, f, t)
    BY <1>0, <1>1 DEF SysMemMap, MapOk
  <2> QED BY <1>0, <2>1 DEF Frame
<1>2. CASE m.pte[e][s] # NoPte
  <2>1. PICK q, rest : q = m.pte[e][s].page /\ rest = {}
    OBVIOUS
  <2>2. q \in Pages /\ m.ref[q] # 0
    BY <1>0, <1>2, <2>1, HeldIsCounted DEF Good
  <2>3. n = PageInsert(m, f, t, q, perm) /\ (MapOk(m, e, s, f, t) <=> InsertOk(m, f, t, q))
    BY <1>0, <1>2, <2>1 DEF SysMemMap, MapOk
  <2>4. Good(m, rest) /\ rest = rest \ {q}
    BY <1>0, <2>1
  <2>9. (InsertOk(m, f, t, q) => rest = rest \ {q}) /\ (~ InsertOk(m, f, t, q) => rest = rest)
    BY <2>4
  <2>10. Inserts(m, rest, f, t, q, perm, n, rest)
    BY <1>0, <2>2, <2>3, <2>4, <2>9 DEF Inserts
  <2>5. Good(n, rest)
    BY <2>10, GoodInsert
  <2>6. /\ InsertOk(m, f, t, q) => n.pte[f][t] = [page |-> q, perm |-> perm]
        /\ ~ InsertOk(m, f, t, q) => n.pte[f][t] = NoPte
        /\ Frame(m, n, f, t)
    BY <2>10, GoodInsert
  <2> QED BY <2>1, <2>3, <2>5, <2>6
<1> QED BY <1>1, <1>2

(* passive_alloc fills an empty entry.                                     *)
LEMMA GoodPassive ==
  ASSUME NEW m, Good(m, {}), TlbType, NEW e \in Env, NEW s \in Slot \ {UVPT},
         NEW n, n = PassiveAlloc(m, e, s), PassiveOk(m, e, s)
  PROVE  /\ Good(n, {}) /\ Frame(m, n, e, s) /\ n.pte[e][s] # NoPte
         /\ m.pte[e][s] # NoPte => n = m
         /\ m.pte[e][s] = NoPte => /\ n.pte[e][s].perm = IF s \in Va THEN {"D"} ELSE {}
                                   /\ m.ref[n.pte[e][s].page] = 0 /\ n.pte[e][s].page \in Pages
<1>1. CASE m.pte[e][s] # NoPte
  <2>1. n = m
    BY <1>1 DEF PassiveAlloc
  <2> QED BY <1>1, <2>1 DEF Frame
<1>2. CASE m.pte[e][s] = NoPte
  <2>1. PICK perm \in Perms : perm = IF s \in Va THEN {"D"} ELSE {}
    BY DEF Perms
  <2>2. n = SysMemAlloc(m, e, s, perm) /\ AllocOk(m, e, s)
    BY <1>2, <2>1 DEF PassiveAlloc, PassiveOk
  <2>3. Good(n, {})
    BY <2>2, GoodMemAlloc
  <2>4. /\ First(m) \in Pages /\ m.ref[First(m)] = 0 /\ Frame(m, n, e, s)
        /\ n.pte[e][s] = [page |-> First(m), perm |-> perm]
    BY <2>2, <2>3, GoodMemAlloc
  <2>5. n.pte[e][s].page = First(m) /\ n.pte[e][s].perm = perm
    BY <2>4
  <2>6. n.pte[e][s] # NoPte
    BY <2>4, <2>5, MapAssumption DEF NoPte, Pages
  <2> QED BY <1>2, <2>1, <2>3, <2>4, <2>5, <2>6
<1> QED BY <1>1, <1>2

-----------------------------------------------------------------------------
(* From the memory record to the variables.                                *)

(* Between two steps no page is allocated and unreferenced.                *)
LEMMA GoodNow ==
  ASSUME PagesOk
  PROVE  Good(M, {}) /\ TlbType
<1>1. /\ M.free = page_free_list /\ M.lost = lost /\ M.ref = pp_ref /\ M.mem = mem
      /\ M.pte = pte /\ M.tlb = tlb
  BY DEF M, Mem
<1>2. IsMem(M)
  BY DEF M, Mem, IsMem, PagesOk, PageType
<1>3. Counted(M) /\ Coherent(M)
  BY <1>1 DEF Counted, Coherent, VarHolders, PagesOk, RefCounts, TlbCoherent
<1>4. Accounted(M, {})
  BY <1>1 DEF Accounted, PagesOk, PagesAccounted
<1> QED BY <1>1, <1>2, <1>3, <1>4 DEF Good, PagesOk

(* No env is allocated or freed.                                           *)
SameEnvs ==
  /\ \A e \in Env : env_status'[e] = "FREE" <=> env_status[e] = "FREE"
  /\ env_vars' = env_vars /\ env_asid' = env_asid

(* A system call that ends with a good memory record.                      *)
LEMMA GoodCommit ==
  ASSUME PagesOk, NEW m, Good(m, {}), Commit(m), SameEnvs
  PROVE  PagesOk'
<1>1. /\ page_free_list' = m.free /\ pp_ref' = m.ref /\ mem' = m.mem
      /\ lost' = m.lost /\ pte' = m.pte /\ tlb' = m.tlb /\ env_vars' = env_vars
  BY DEF Commit, SameEnvs
<1>2. PageType'
  BY <1>1 DEF PagesOk, PageType, Good, IsMem
<1>3. TlbType'
  <2>1. m.tlb \subseteq tlb /\ IsFiniteSet(tlb) /\ Cardinality(tlb) <= NTLB /\ NTLB \in Nat
    BY MapAssumption DEF Good, PagesOk, TlbType
  <2>2. IsFiniteSet(m.tlb) /\ Cardinality(m.tlb) <= Cardinality(tlb)
        /\ Cardinality(m.tlb) \in Nat /\ Cardinality(tlb) \in Nat
    BY <2>1, FS_Subset, FS_CardinalityType
  <2>3. Cardinality(m.tlb) <= NTLB
    BY <2>1, <2>2
  <2> QED BY <1>1, <2>1, <2>2, <2>3 DEF TlbType, PagesOk
<1>4. RefCounts'
  BY <1>1 DEF Good, Counted, RefCounts, VarHolders
<1>5. PagesAccounted' /\ (page_free_list \cap lost = {})'
  BY <1>1 DEF Good, Accounted, PagesAccounted
<1>6. TlbCoherent'
  BY <1>1 DEF Good, Coherent, TlbCoherent, SameEnvs
<1> QED BY <1>2, <1>3, <1>4, <1>5, <1>6 DEF PagesOk

(* The entries of user addresses, but for that of s in env e, and all      *)
(* those of other envs stay as they are.                                   *)
OnlyVa(e, s) ==
  /\ \A f \in Env : f # e => pte'[f] = pte[f]
  /\ \A v \in Va : v # s => pte'[e][v] = pte[e][v]

(* A memory function with this frame changes one user entry at most.       *)
LEMMA FrameOnlyVa ==
  ASSUME PagesOk, NEW n, NEW e \in Env, NEW s \in Slot,
         Frame(M, n, e, s), Good(n, {}), Commit(n)
  PROVE  OnlyVa(e, s)
<1>1. pte' = n.pte /\ M.pte = pte /\ pte \in [Env -> [Slot -> Pte \cup {NoPte}]]
      /\ n.pte \in [Env -> [Slot -> Pte \cup {NoPte}]]
  BY DEF Commit, M, Mem, PagesOk, PageType, Good, IsMem
<1>2. Va \subseteq Slot /\ PDX[s] \notin Va
  BY Addresses
<1>3. \A f \in Env : f # e => \A x \in Slot : pte'[f][x] = pte[f][x]
  BY <1>1 DEF Frame
<1>4. \A f \in Env : f # e => pte'[f] = pte[f]
  BY <1>1, <1>3
<1>5. \A v \in Va : v # s => pte'[e][v] = pte[e][v]
  BY <1>1, <1>2 DEF Frame
<1> QED BY <1>4, <1>5 DEF OnlyVa

-----------------------------------------------------------------------------
(* What the steps of the routines have in common.                          *)

(* The envs that must have no copy-on-write page.                          *)
WithoutHandler(f) == Starts(f) /\ ~ env_user_tlb_mod_entry[f]

NoneStarts == \A f \in Env : WithoutHandler(f)' => WithoutHandler(f)

(* The entry that a step may leave at s of env e.                          *)
EntryAllowed(e, s) ==
  \/ pte'[e][s] = NoPte \/ pte'[e][s] = pte[e][s] \/ "COW" \notin pte'[e][s].perm
  \/ "LIBRARY" \notin pte'[e][s].perm /\ ~ WithoutHandler(e)'

(* A step that changes one user entry at most.                             *)
LEMMA EntryStep ==
  ASSUME MapInv, NEW e \in Env, NEW s \in Slot, env_status[e] # "FREE", OnlyVa(e, s), SameEnvs,
         NoneStarts, EntryAllowed(e, s)
  PROVE  FreeEnvsEmpty' /\ AsidsDistinct' /\ EntryPerms' /\ FaultsHandled'
<1>1. FreeEnvsEmpty'
  BY DEF FreeEnvsEmpty, MapInv, OnlyVa, SameEnvs
<1>2. AsidsDistinct'
  BY DEF AsidsDistinct, MapInv, SameEnvs
<1>3. \A f \in Env : \A v \in Va : pte'[f][v] = pte[f][v] \/ (f = e /\ v = s)
  BY DEF OnlyVa
<1>4. EntryPerms'
  BY <1>3 DEF NoPte, EntryPerms, MapInv, EntryAllowed
<1>5. FaultsHandled'
  BY <1>3 DEF NoPte, FaultsHandled, MapInv, EntryAllowed, NoneStarts, WithoutHandler
<1> QED BY <1>1, <1>2, <1>4, <1>5

(* A step that changes no user entry.                                      *)
LEMMA NoEntryStep ==
  ASSUME MapInv, SameEnvs, NoneStarts, UNCHANGED pte
  PROVE  FreeEnvsEmpty' /\ AsidsDistinct' /\ EntryPerms' /\ FaultsHandled'
<1>1. FreeEnvsEmpty'
  BY DEF FreeEnvsEmpty, MapInv, SameEnvs
<1>2. AsidsDistinct'
  BY DEF AsidsDistinct, MapInv, SameEnvs
<1>4. EntryPerms'
  BY DEF EntryPerms, MapInv
<1>5. FaultsHandled'
  BY DEF FaultsHandled, MapInv, NoneStarts, WithoutHandler
<1> QED BY <1>1, <1>2, <1>4, <1>5

(* A step that leaves the handlers where they are.                         *)
LEMMA HandlersKeep ==
  ASSUME MapInv, UNCHANGED cow,
         \A f \in Env : cow[f] # NoCow =>
           /\ env_status'[f] = "RUNNABLE"
           /\ \A v \in Va : pte[f][v] # NoPte => pte'[f][v] # NoPte
  PROVE  HandlerOk'
<1>1. UserVa \subseteq Va /\ UCOW \in Va
  BY Addresses
<1> QED BY <1>1 DEF MapInv, HandlerOk

RoutineSteps ==
  {"user", "fork", "dup", "args", "give", "given", "load", "fill", "filled", "share"}

(* The routines, the states of the envs and the handlers' addresses.       *)
RoutinesOk == EnvType /\ RoutineType /\ BuildsChild /\ ForkOk

(* Nothing happens to them.                                                *)
LEMMA RoutinesSame ==
  ASSUME MapInv, UNCHANGED <<envVars, panic, op, cow>>
  PROVE  RoutinesOk' /\ NoneStarts
<1>1. UNCHANGED <<env_status, env_parent, env_asid, env_user_tlb_mod_entry, panic, op, cow>>
  BY DEF envVars
<1>2. EnvType' /\ RoutineType'
  BY <1>1 DEF MapInv, EnvType, RoutineType
<1>3. BuildsChild' /\ ForkOk'
  BY <1>1 DEF MapInv, BuildsChild, ForkOk
<1>4. NoneStarts
  BY <1>1 DEF NoneStarts, WithoutHandler, Starts
<1> QED BY <1>2, <1>3, <1>4 DEF RoutinesOk

(* A routine goes on with the child it builds.                             *)
LEMMA RoutineGoes ==
  ASSUME MapInv, UNCHANGED <<envVars, panic, cow>>, NEW e \in Env, op[e].at # "user",
         NEW at, NEW v \in 0 .. UTOP, NEW perm \in Perms, OpGoes(e, at, op[e].child, v, perm),
         \/ op[e].at \in {"fork", "dup"} /\ at = "fork"
         \/ op[e].at \in {"fork", "dup"} /\ at = "dup" /\ v \in Va /\ "COW" \in perm /\ "LIBRARY" \notin perm
         \/ op[e].at \in Spawning /\ at \in Spawning
  PROVE  RoutinesOk' /\ NoneStarts
<1>1. UNCHANGED <<env_status, env_parent, env_asid, env_user_tlb_mod_entry, panic, cow>>
  BY DEF envVars
<1>2. /\ op' = [op EXCEPT ![e] = [at |-> at, child |-> op[e].child, va |-> v, perm |-> perm]]
      /\ op \in [Env -> [at : RoutineSteps,
                     child : Env \cup {NoEnv}, va : 0 .. UTOP, perm : Perms]]
      /\ at \in RoutineSteps /\ at # "user"
  BY DEF OpGoes, MapInv, RoutineType, RoutineSteps, Spawning
<1>3. op'[e].at = at /\ op'[e].child = op[e].child /\ op'[e].va = v /\ op'[e].perm = perm
      /\ \A f \in Env : f # e => op'[f] = op[f]
  BY <1>2
<1>4. EnvType' /\ RoutineType'
  BY <1>1, <1>2 DEF MapInv, EnvType, RoutineType, RoutineSteps
<1>5. BuildsChild'
  BY <1>1, <1>3 DEF MapInv, BuildsChild
<1>6. ForkOk'
  BY <1>1, <1>3 DEF MapInv, ForkOk, Spawning
<1>7. NoneStarts
  BY <1>1, <1>3 DEF NoneStarts, WithoutHandler, Starts, Spawning
<1> QED BY <1>4, <1>5, <1>6, <1>7 DEF RoutinesOk

(* A routine ends without a child.                                         *)
LEMMA RoutineEnds ==
  ASSUME MapInv, NEW e \in Env, Abandon(e)
  PROVE  RoutinesOk' /\ NoneStarts
<1>1. UNCHANGED <<env_status, env_parent, env_asid, env_user_tlb_mod_entry, panic, cow>>
  BY DEF envVars, Abandon
<1>2. /\ op' = [op EXCEPT ![e] = Idle]
      /\ op \in [Env -> [at : RoutineSteps,
                     child : Env \cup {NoEnv}, va : 0 .. UTOP, perm : Perms]]
      /\ Idle \in [at : RoutineSteps,
                     child : Env \cup {NoEnv}, va : 0 .. UTOP, perm : Perms]
  BY MapAssumption DEF Abandon, MapInv, RoutineType, RoutineSteps, Idle, Perms
<1>3. op'[e].at = "user" /\ \A f \in Env : f # e => op'[f] = op[f]
  BY <1>2 DEF Idle
<1>4. EnvType' /\ RoutineType'
  BY <1>1, <1>2 DEF MapInv, EnvType, RoutineType, RoutineSteps
<1>5. BuildsChild'
  BY <1>1, <1>3 DEF MapInv, BuildsChild
<1>6. ForkOk'
  BY <1>1, <1>3 DEF MapInv, ForkOk, Spawning
<1>7. NoneStarts
  BY <1>1, <1>3 DEF NoneStarts, WithoutHandler, Starts, Spawning
<1> QED BY <1>4, <1>5, <1>6, <1>7 DEF RoutinesOk

(* The program of e panics or exits.                                       *)
LEMMA RoutinePanics ==
  ASSUME MapInv, NEW e \in Env, env_status[e] = "RUNNABLE", UserPanics(e), UNCHANGED env_vars,
         \A f \in Env : cow[f] # NoCow /\ f # e => pte'[f] = pte[f]
  PROVE  RoutinesOk' /\ NoneStarts /\ SameEnvs /\ HandlerOk'
<1>1. UNCHANGED <<env_parent, env_asid, env_user_tlb_mod_entry, panic>>
  BY DEF UserPanics
<1>2. /\ op' = [op EXCEPT ![e] = Idle] /\ cow' = [cow EXCEPT ![e] = NoCow]
      /\ env_status' = [env_status EXCEPT ![e] = "ZOMBIE"]
      /\ op \in [Env -> [at : RoutineSteps,
                     child : Env \cup {NoEnv}, va : 0 .. UTOP, perm : Perms]]
      /\ Idle \in [at : RoutineSteps,
                     child : Env \cup {NoEnv}, va : 0 .. UTOP, perm : Perms]
      /\ cow \in [Env -> [at : {"no", "alloc", "copy", "map", "unmap"}, va : Va, perm : Perms]]
      /\ NoCow \in [at : {"no", "alloc", "copy", "map", "unmap"}, va : Va, perm : Perms]
      /\ env_status \in [Env -> {"FREE", "NOT_RUNNABLE", "RUNNABLE", "ZOMBIE"}]
  BY MapAssumption DEF UserPanics, MapInv, RoutineType, RoutineSteps, Idle, NoCow, Perms, EnvType, Va
<1>3. /\ op'[e].at = "user" /\ cow'[e] = NoCow /\ env_status'[e] = "ZOMBIE"
      /\ \A f \in Env : f # e => op'[f] = op[f] /\ cow'[f] = cow[f] /\ env_status'[f] = env_status[f]
  BY <1>2 DEF Idle
<1>4. EnvType' /\ RoutineType'
  BY <1>1, <1>2 DEF MapInv, EnvType, RoutineType, RoutineSteps
<1>5. BuildsChild'
  BY <1>1, <1>3 DEF MapInv, BuildsChild
<1>6. ForkOk'
  BY <1>1, <1>3 DEF MapInv, ForkOk, Spawning
<1>7. NoneStarts
  BY <1>1, <1>3 DEF NoneStarts, WithoutHandler, Starts, Spawning
<1>8. SameEnvs
  BY <1>1, <1>3 DEF SameEnvs
<1>9. HandlerOk'
  BY <1>3 DEF MapInv, HandlerOk
<1> QED BY <1>4, <1>5, <1>6, <1>7, <1>8, <1>9 DEF RoutinesOk

(* The parts make the whole.                                               *)
LEMMA Together ==
  ASSUME PagesOk', RoutinesOk', HandlerOk',
         FreeEnvsEmpty' /\ AsidsDistinct' /\ EntryPerms' /\ FaultsHandled'
  PROVE  MapInv'
BY DEF MapInv, RoutinesOk

-----------------------------------------------------------------------------
(* The system calls as steps.                                              *)

(* sys_mem_alloc.                                                          *)
LEMMA AllocStep ==
  ASSUME PagesOk, NEW e \in Env, NEW s \in Va, NEW perm \in Perms,
         Commit(SysMemAlloc(M, e, s, perm)), SameEnvs
  PROVE  /\ PagesOk' /\ OnlyVa(e, s)
         /\ pte'[e][s] = NoPte \/ pte'[e][s] = pte[e][s] \/ pte'[e][s].perm = perm
<1>1. PICK n : n = SysMemAlloc(M, e, s, perm)
  OBVIOUS
<1>2. Good(M, {}) /\ TlbType /\ s \in Slot \ {UVPT} /\ s \in Slot
  BY GoodNow, Addresses
<1>3. Good(n, {})
  BY <1>1, <1>2, GoodMemAlloc
<1>4. /\ AllocOk(M, e, s) => n.pte[e][s] = [page |-> First(M), perm |-> perm]
      /\ ~ AllocOk(M, e, s) => n.pte[e][s] = NoPte \/ n.pte[e][s] = M.pte[e][s]
      /\ Frame(M, n, e, s)
  BY <1>1, <1>2, <1>3, GoodMemAlloc
<1>5. Commit(n) /\ pte' = n.pte /\ M.pte = pte
  BY <1>1 DEF Commit, M, Mem
<1>6. PagesOk'
  BY <1>3, <1>5, GoodCommit
<1>7. OnlyVa(e, s)
  BY <1>2, <1>3, <1>4, <1>5, FrameOnlyVa
<1> QED BY <1>4, <1>5, <1>6, <1>7

(* sys_mem_map.                                                            *)
LEMMA MapStep ==
  ASSUME PagesOk, NEW e \in Env, NEW s \in Va, NEW f \in Env, NEW t \in Va, NEW perm \in Perms,
         Commit(SysMemMap(M, e, s, f, t, perm)), SameEnvs
  PROVE  /\ PagesOk' /\ OnlyVa(f, t)
         /\ pte'[f][t] = NoPte \/ pte'[f][t] = pte[f][t] \/ pte'[f][t].perm = perm
<1>1. PICK n : n = SysMemMap(M, e, s, f, t, perm)
  OBVIOUS
<1>2. Good(M, {}) /\ TlbType /\ s \in Slot /\ t \in Slot \ {UVPT} /\ t \in Slot
  BY GoodNow, Addresses
<1>8. Maps(M, e, s, f, t, perm, n)
  BY <1>1, <1>2 DEF Maps
<1>3. Good(n, {})
  BY <1>8, GoodMemMap
<1>4. /\ MapOk(M, e, s, f, t) => n.pte[f][t] = [page |-> M.pte[e][s].page, perm |-> perm]
      /\ ~ MapOk(M, e, s, f, t) => n.pte[f][t] = NoPte \/ n.pte[f][t] = M.pte[f][t]
      /\ Frame(M, n, f, t)
  BY <1>8, GoodMemMap
<1>5. Commit(n) /\ pte' = n.pte /\ M.pte = pte
  BY <1>1 DEF Commit, M, Mem
<1>6. PagesOk'
  BY <1>3, <1>5, GoodCommit
<1>7. OnlyVa(f, t)
  BY <1>2, <1>3, <1>4, <1>5, FrameOnlyVa
<1> QED BY <1>4, <1>5, <1>6, <1>7

(* sys_mem_unmap.                                                          *)
LEMMA RemoveStep ==
  ASSUME PagesOk, NEW e \in Env, NEW s \in Va, Commit(PageRemove(M, e, s)), SameEnvs
  PROVE  PagesOk' /\ OnlyVa(e, s) /\ pte'[e][s] = NoPte
<1>1. Good(M, {}) /\ TlbType /\ s \in Slot
  BY GoodNow, Addresses
<1>2. /\ Good(PageRemove(M, e, s), {})
      /\ PageRemove(M, e, s).pte = [M.pte EXCEPT ![e][s] = NoPte]
  BY <1>1, GoodRemove
<1>3. PagesOk'
  BY <1>2, GoodCommit
<1>4. pte' = [pte EXCEPT ![e][s] = NoPte] /\ pte \in [Env -> [Slot -> Pte \cup {NoPte}]]
  BY <1>2 DEF Commit, M, Mem, PagesOk, PageType
<1>5. pte'[e][s] = NoPte /\ OnlyVa(e, s)
  BY <1>1, <1>4, Addresses DEF OnlyVa
<1> QED BY <1>3, <1>5

(* passive_alloc.                                                          *)
LEMMA PassiveStep ==
  ASSUME PagesOk, NEW e \in Env, NEW s \in Va, PassiveOk(M, e, s),
         Commit(PassiveAlloc(M, e, s)), SameEnvs
  PROVE  /\ PagesOk' /\ OnlyVa(e, s) /\ pte'[e][s] # NoPte
         /\ pte'[e][s] = pte[e][s] \/ pte'[e][s].perm = {"D"}
<1>1. PICK n : n = PassiveAlloc(M, e, s)
  OBVIOUS
<1>2. Good(M, {}) /\ TlbType /\ s \in Slot \ {UVPT} /\ s \in Slot
  BY GoodNow, Addresses
<1>3. Good(n, {})
  BY <1>1, <1>2, GoodPassive
<1>4. /\ n.pte[e][s] # NoPte /\ Frame(M, n, e, s)
      /\ M.pte[e][s] # NoPte => n = M
      /\ M.pte[e][s] = NoPte => n.pte[e][s].perm = IF s \in Va THEN {"D"} ELSE {}
  BY <1>1, <1>2, <1>3, GoodPassive
<1>5. Commit(n) /\ pte' = n.pte /\ M.pte = pte
  BY <1>1 DEF Commit, M, Mem
<1>6. PagesOk'
  BY <1>3, <1>5, GoodCommit
<1>7. OnlyVa(e, s)
  BY <1>2, <1>3, <1>4, <1>5, FrameOnlyVa
<1> QED BY <1>4, <1>5, <1>6, <1>7

-----------------------------------------------------------------------------
(* The actions.                                                            *)

(* sys_mem_alloc called by a program.                                      *)
LEMMA MemAllocKeeps ==
  ASSUME MapInv, NEW e \in Env, NEW s \in UserVa, NEW perm \in UserPerms, MemAlloc(e, s, perm)
  PROVE  MapInv'
<1>1. UNCHANGED <<envVars, panic, op, cow>> /\ UNCHANGED env_vars /\ cow[e] = NoCow
      /\ env_status[e] = "RUNNABLE" /\ Commit(SysMemAlloc(M, e, s, perm))
  BY DEF MemAlloc, UserLeaves, InProgram, InUser, Runs
<1>2. SameEnvs /\ s \in Va /\ s \in Slot /\ perm \in Perms /\ "COW" \notin perm
  BY <1>1, Addresses DEF SameEnvs, envVars, UserPerms, Perms
<1>3. /\ PagesOk' /\ OnlyVa(e, s)
      /\ pte'[e][s] = NoPte \/ pte'[e][s] = pte[e][s] \/ pte'[e][s].perm = perm
  BY <1>1, <1>2, AllocStep DEF MapInv
<1>4. RoutinesOk' /\ NoneStarts
  BY <1>1, RoutinesSame
<1>5. FreeEnvsEmpty' /\ AsidsDistinct' /\ EntryPerms' /\ FaultsHandled'
  <2>1. EntryAllowed(e, s)
    BY <1>2, <1>3 DEF EntryAllowed
  <2> QED BY <1>1, <1>2, <1>3, <1>4, <2>1, EntryStep
<1>6. HandlerOk'
  <2>1. \A f \in Env : cow[f] # NoCow => env_status'[f] = "RUNNABLE" /\ pte'[f] = pte[f]
    BY <1>1, <1>3 DEF envVars, OnlyVa, MapInv, HandlerOk
  <2> QED BY <1>1, <2>1, HandlersKeep
<1> QED BY <1>3, <1>4, <1>5, <1>6, Together

(* sys_mem_unmap called by a program.                                      *)
LEMMA MemUnmapKeeps ==
  ASSUME MapInv, NEW e \in Env, NEW s \in UserVa, MemUnmap(e, s)
  PROVE  MapInv'
<1>1. UNCHANGED <<envVars, panic, op, cow>> /\ UNCHANGED env_vars /\ cow[e] = NoCow
      /\ env_status[e] = "RUNNABLE" /\ Commit(PageRemove(M, e, s))
  BY DEF MemUnmap, UserLeaves, InProgram, InUser, Runs
<1>2. SameEnvs /\ s \in Va /\ s \in Slot
  BY <1>1, Addresses DEF SameEnvs, envVars
<1>3. PagesOk' /\ OnlyVa(e, s) /\ pte'[e][s] = NoPte
  BY <1>1, <1>2, RemoveStep DEF MapInv
<1>4. RoutinesOk' /\ NoneStarts
  BY <1>1, RoutinesSame
<1>5. FreeEnvsEmpty' /\ AsidsDistinct' /\ EntryPerms' /\ FaultsHandled'
  <2>1. EntryAllowed(e, s)
    BY <1>2, <1>3 DEF EntryAllowed
  <2> QED BY <1>1, <1>2, <1>3, <1>4, <2>1, EntryStep
<1>6. HandlerOk'
  <2>1. \A f \in Env : cow[f] # NoCow => env_status'[f] = "RUNNABLE" /\ pte'[f] = pte[f]
    BY <1>1, <1>3 DEF envVars, OnlyVa, MapInv, HandlerOk
  <2> QED BY <1>1, <2>1, HandlersKeep
<1> QED BY <1>3, <1>4, <1>5, <1>6, Together

(* A step of a handler, which is in state h after it.                      *)
CowStep(e, h) ==
  /\ cow' = [cow EXCEPT ![e] = h]
  /\ UNCHANGED <<env_vars, envVars, panic, op>>

LEMMA CowRoutines ==
  ASSUME MapInv, NEW e \in Env, env_status[e] = "RUNNABLE", NEW h,
         h \in [at : {"no", "alloc", "copy", "map", "unmap"}, va : Va, perm : Perms],
         CowStep(e, h), \A f \in Env : f # e => pte'[f] = pte[f],
         h # NoCow => /\ h.at # "no" /\ "D" \in h.perm /\ "COW" \notin h.perm /\ h.va \in UserVa
                      /\ h.at \in {"alloc", "copy"} => pte'[e][h.va] # NoPte
                      /\ h.at = "map" => pte'[e][UCOW] # NoPte
  PROVE  RoutinesOk' /\ NoneStarts /\ SameEnvs /\ HandlerOk'
<1>1. UNCHANGED <<env_vars, env_status, env_parent, env_asid, env_user_tlb_mod_entry, panic, op>>
      /\ cow' = [cow EXCEPT ![e] = h]
  BY DEF envVars, CowStep
<1>2. EnvType' /\ BuildsChild' /\ ForkOk'
  BY <1>1 DEF MapInv, EnvType, BuildsChild, ForkOk
<1>3. cow \in [Env -> [at : {"no", "alloc", "copy", "map", "unmap"}, va : Va, perm : Perms]]
  BY DEF MapInv, RoutineType
<1>4. cow' \in [Env -> [at : {"no", "alloc", "copy", "map", "unmap"}, va : Va, perm : Perms]]
      /\ cow'[e] = h /\ \A f \in Env : f # e => cow'[f] = cow[f]
  BY <1>1, <1>3
<1>5. RoutineType'
  BY <1>1, <1>4 DEF MapInv, RoutineType
<1>6. NoneStarts
  BY <1>1 DEF NoneStarts, WithoutHandler, Starts
<1>7. SameEnvs
  BY <1>1 DEF SameEnvs
<1>8. HandlerOk'
  BY <1>1, <1>4 DEF MapInv, HandlerOk
<1> QED BY <1>2, <1>5, <1>6, <1>7, <1>8 DEF RoutinesOk

(* What a handler that is not done knows.                                  *)
LEMMA HandlerState ==
  ASSUME MapInv, NEW e \in Env, Runs(e), cow[e].at \in {"alloc", "copy", "map", "unmap"}
  PROVE  /\ env_status[e] = "RUNNABLE" /\ "D" \in cow[e].perm /\ "COW" \notin cow[e].perm /\ cow[e].perm \in Perms
         /\ cow[e].va \in UserVa /\ cow[e].va \in Va /\ cow[e].va # UCOW
         /\ cow[e].at \in {"alloc", "copy"} => pte[e][cow[e].va] # NoPte
         /\ cow[e].at = "map" => pte[e][UCOW] # NoPte
         /\ UCOW \in Va /\ UCOW \in Slot /\ cow[e].va \in Slot
<1>1. cow[e] # NoCow /\ cow[e] \in [at : {"no", "alloc", "copy", "map", "unmap"}, va : Va, perm : Perms]
  BY DEF MapInv, RoutineType, NoCow
<1> QED BY <1>1, Addresses DEF MapInv, HandlerOk

(* cow_entry allocates a page at UCOW, or fails to.                        *)
LEMMA CowAllocKeeps ==
  ASSUME MapInv, NEW e \in Env, CowAlloc(e)
  PROVE  MapInv'
<1>1. Runs(e) /\ cow[e].at = "alloc" /\ Commit(SysMemAlloc(M, e, UCOW, cow[e].perm))
  BY DEF CowAlloc
<1>2. PICK h : h = [at |-> "copy", va |-> cow[e].va, perm |-> cow[e].perm]
  OBVIOUS
<1>3. CowStep(e, h) /\ UNCHANGED <<env_vars, envVars>>
  BY <1>2 DEF CowAlloc, CowGoes, CowLeaves, CowStep
<1>4. /\ env_status[e] = "RUNNABLE" /\ "D" \in cow[e].perm /\ "COW" \notin cow[e].perm /\ cow[e].perm \in Perms
      /\ cow[e].va \in UserVa /\ cow[e].va \in Va /\ cow[e].va # UCOW
      /\ pte[e][cow[e].va] # NoPte /\ UCOW \in Va /\ UCOW \in Slot
  BY <1>1, HandlerState
<1>5. SameEnvs
  BY <1>3 DEF SameEnvs, envVars
<1>6. /\ PagesOk' /\ OnlyVa(e, UCOW)
      /\ pte'[e][UCOW] = NoPte \/ pte'[e][UCOW] = pte[e][UCOW] \/ pte'[e][UCOW].perm = cow[e].perm
  BY <1>1, <1>4, <1>5, AllocStep DEF MapInv
<1>7. RoutinesOk' /\ NoneStarts /\ HandlerOk'
  <2>1. \A f \in Env : f # e => pte'[f] = pte[f]
    BY <1>6 DEF OnlyVa
  <2>2. pte'[e][cow[e].va] # NoPte
    BY <1>4, <1>6 DEF OnlyVa
  <2>3. /\ h \in [at : {"no", "alloc", "copy", "map", "unmap"}, va : Va, perm : Perms]
        /\ h.at = "copy" /\ h.va = cow[e].va /\ h.perm = cow[e].perm
    BY <1>2, <1>4
  <2> QED BY <1>3, <1>4, <2>1, <2>2, <2>3, CowRoutines
<1>8. FreeEnvsEmpty' /\ AsidsDistinct' /\ EntryPerms' /\ FaultsHandled'
  <2>1. EntryAllowed(e, UCOW)
    BY <1>4, <1>6 DEF EntryAllowed
  <2> QED BY <1>4, <1>5, <1>6, <1>7, <2>1, EntryStep
<1> QED BY <1>6, <1>7, <1>8, Together

(* cow_entry maps its page over the one that was written to.               *)
LEMMA CowMapKeeps ==
  ASSUME MapInv, NEW e \in Env, CowMap(e)
  PROVE  MapInv'
<1>1. Runs(e) /\ cow[e].at = "map"
      /\ Commit(SysMemMap(M, e, UCOW, e, cow[e].va, cow[e].perm))
  BY DEF CowMap
<1>2. PICK h : h = [at |-> "unmap", va |-> cow[e].va, perm |-> cow[e].perm]
  OBVIOUS
<1>3. CowStep(e, h) /\ UNCHANGED <<env_vars, envVars>>
  BY <1>2 DEF CowMap, CowGoes, CowLeaves, CowStep
<1>4. /\ env_status[e] = "RUNNABLE" /\ "D" \in cow[e].perm /\ "COW" \notin cow[e].perm /\ cow[e].perm \in Perms
      /\ cow[e].va \in UserVa /\ cow[e].va \in Va /\ cow[e].va # UCOW /\ cow[e].va \in Slot
      /\ UCOW \in Va /\ UCOW \in Slot
  BY <1>1, HandlerState
<1>5. SameEnvs
  BY <1>3 DEF SameEnvs, envVars
<1>9. PICK v, perm : v = cow[e].va /\ perm = cow[e].perm
  OBVIOUS
<1>6. PagesOk' /\ OnlyVa(e, v) /\ (pte'[e][v] = NoPte \/ pte'[e][v] = pte[e][v] \/ pte'[e][v].perm = perm)
  BY <1>1, <1>4, <1>5, <1>9, MapStep DEF MapInv
<1>7. RoutinesOk' /\ NoneStarts /\ HandlerOk'
  <2>1. \A f \in Env : f # e => pte'[f] = pte[f]
    BY <1>6 DEF OnlyVa
  <2>3. /\ h \in [at : {"no", "alloc", "copy", "map", "unmap"}, va : Va, perm : Perms]
        /\ h.at = "unmap" /\ h.va = cow[e].va /\ h.perm = cow[e].perm
    BY <1>2, <1>4
  <2> QED BY <1>3, <1>4, <2>1, <2>3, CowRoutines
<1>8. FreeEnvsEmpty' /\ AsidsDistinct' /\ EntryPerms' /\ FaultsHandled'
  <2>1. EntryAllowed(e, v)
    BY <1>4, <1>6, <1>9 DEF EntryAllowed
  <2> QED BY <1>4, <1>5, <1>6, <1>7, <1>9, <2>1, EntryStep
<1> QED BY <1>6, <1>7, <1>8, Together

(* cow_entry unmaps UCOW and returns.                                      *)
LEMMA CowUnmapKeeps ==
  ASSUME MapInv, NEW e \in Env, CowUnmap(e)
  PROVE  MapInv'
<1>1. Runs(e) /\ cow[e].at = "unmap" /\ Commit(PageRemove(M, e, UCOW))
      /\ CowStep(e, NoCow) /\ UNCHANGED <<env_vars, envVars>>
  BY DEF CowUnmap, CowLeaves, CowStep
<1>2. env_status[e] = "RUNNABLE" /\ UCOW \in Va /\ UCOW \in Slot
  BY <1>1, HandlerState
<1>3. SameEnvs
  BY <1>1 DEF SameEnvs, envVars
<1>4. PagesOk' /\ OnlyVa(e, UCOW) /\ pte'[e][UCOW] = NoPte
  BY <1>1, <1>2, <1>3, RemoveStep DEF MapInv
<1>5. RoutinesOk' /\ NoneStarts /\ HandlerOk'
  <2>1. \A f \in Env : f # e => pte'[f] = pte[f]
    BY <1>4 DEF OnlyVa
  <2>2. NoCow \in [at : {"no", "alloc", "copy", "map", "unmap"}, va : Va, perm : Perms]
    BY MapAssumption DEF NoCow, Perms, Va
  <2> QED BY <1>1, <1>2, <2>1, <2>2, CowRoutines
<1>6. FreeEnvsEmpty' /\ AsidsDistinct' /\ EntryPerms' /\ FaultsHandled'
  <2>1. EntryAllowed(e, UCOW)
    BY <1>4 DEF EntryAllowed
  <2> QED BY <1>2, <1>3, <1>4, <1>5, <2>1, EntryStep
<1> QED BY <1>4, <1>5, <1>6, Together

(* A page is written.                                                      *)
LEMMA GoodWrites ==
  ASSUME NEW m, NEW held, Good(m, held), NEW p \in Pages, NEW w \in Words,
         NEW n, n = Writes(m, p, w)
  PROVE  Good(n, held) /\ n.pte = m.pte
<1>1. IsMem(m) /\ Counted(m) /\ Accounted(m, held) /\ m.tlb \subseteq tlb /\ Coherent(m)
  BY DEF Good
<1>2. n.free = m.free /\ n.lost = m.lost /\ n.tlb = m.tlb /\ n.ref = m.ref /\ n.pte = m.pte
  BY DEF Writes, Mem
<1>3. IsMem(n)
  BY <1>1, WritesFields
<1>4. Counted(n) /\ Accounted(n, held) /\ Coherent(n)
  BY <1>1, <1>2 DEF Counted, Accounted, Coherent
<1> QED BY <1>1, <1>2, <1>3, <1>4 DEF Good

(* The kernel halts for want of memory.                                    *)
LEMMA HaltsKeeps ==
  ASSUME MapInv, NEW why, Halts(why)
  PROVE  MapInv'
<1>1. UNCHANGED <<page_free_list, pp_ref, mem, lost, pte, env_vars, tlb, env_status, env_parent,
                  env_asid, env_user_tlb_mod_entry, op, cow>> /\ panic' = why
  BY DEF Halts, pageVars, envVars
<1>2. PagesOk'
  <2>1. PageType' /\ TlbType' /\ PagesAccounted' /\ (page_free_list \cap lost = {})'
    BY <1>1 DEF MapInv, PagesOk, PageType, TlbType, PagesAccounted
  <2>2. RefCounts'
    BY <1>1 DEF MapInv, PagesOk, RefCounts
  <2>3. TlbCoherent'
    BY <1>1 DEF MapInv, PagesOk, TlbCoherent
  <2> QED BY <2>1, <2>2, <2>3 DEF PagesOk
<1>3. RoutinesOk'
  BY <1>1 DEF MapInv, RoutinesOk, EnvType, RoutineType, BuildsChild, ForkOk
<1>4. SameEnvs /\ NoneStarts
  BY <1>1 DEF SameEnvs, NoneStarts, WithoutHandler, Starts
<1>5. FreeEnvsEmpty' /\ AsidsDistinct' /\ EntryPerms' /\ FaultsHandled'
  BY <1>1, <1>4, NoEntryStep
<1>6. HandlerOk'
  <2>1. \A f \in Env : cow[f] # NoCow => env_status'[f] = "RUNNABLE" /\ pte'[f] = pte[f]
    BY <1>1 DEF MapInv, HandlerOk
  <2> QED BY <1>1, <2>1, HandlersKeep
<1> QED BY <1>2, <1>3, <1>5, <1>6, Together

(* What the TLB holds for an env is what its page table says.              *)
LEMMA HitIsEntry ==
  ASSUME MapInv, NEW e \in Env, env_status[e] # "FREE", NEW s, NEW h \in Hits(e, s)
  PROVE  s \in Slot /\ pte[e][s] = h /\ h # NoPte /\ h \in Pte
<1>1. PICK t \in tlb : t.asid = env_asid[e] /\ s \in DOMAIN t.lo /\ t.lo[s] # NoPte /\ h = t.lo[s]
  BY DEF Hits
<1>2. s \in Slot /\ h \in Pte
  BY <1>1 DEF MapInv, PagesOk, TlbType
<1>3. PICK f \in Env : env_status[f] # "FREE" /\ env_asid[f] = t.asid /\ pte[f][s] = t.lo[s]
  BY <1>1 DEF MapInv, PagesOk, TlbCoherent
<1>4. f = e
  BY <1>1, <1>3 DEF MapInv, AsidsDistinct
<1> QED BY <1>1, <1>2, <1>3, <1>4

(* A program stores to a page the TLB lets it write.                       *)
LEMMA StoreKeeps ==
  ASSUME MapInv, NEW e \in Env, NEW s \in UserVa, NEW w \in Words, Store(e, s, w)
  PROVE  MapInv'
<1>1. UNCHANGED <<page_free_list, pp_ref, lost, pte, env_vars, tlb, envVars, panic, op, cow>>
      /\ env_status[e] = "RUNNABLE"
  BY DEF Store, InUser, Runs
<1>2. PICK h \in Hits(e, s) : mem' = [mem EXCEPT ![h.page] = w]
  BY DEF Store
<1>3. h.page \in Pages
  BY <1>1, HitIsEntry DEF Pte
<1>4. mem' \in [Pages -> Words]
  BY <1>2, <1>3 DEF MapInv, PagesOk, PageType
<1>5. UNCHANGED <<env_status, env_asid, env_vars>>
  BY <1>1 DEF envVars
<1>6. PagesOk'
  BY <1>1, <1>4, <1>5 DEF MapInv, PagesOk, PageType, TlbType, RefCounts, PagesAccounted, TlbCoherent
<1>7. SameEnvs
  BY <1>5 DEF SameEnvs
<1>8. RoutinesOk' /\ NoneStarts
  BY <1>1, RoutinesSame
<1>9. FreeEnvsEmpty' /\ AsidsDistinct' /\ EntryPerms' /\ FaultsHandled'
  BY <1>1, <1>7, <1>8, NoEntryStep
<1>10. HandlerOk'
  <2>1. \A f \in Env : cow[f] # NoCow => env_status'[f] = "RUNNABLE" /\ pte'[f] = pte[f]
    BY <1>1, <1>5 DEF MapInv, HandlerOk
  <2> QED BY <1>1, <2>1, HandlersKeep
<1> QED BY <1>6, <1>8, <1>9, <1>10, Together

(* cow_entry copies the page, which the kernel may have to allocate.       *)
LEMMA CowCopyKeeps ==
  ASSUME MapInv, NEW e \in Env, CowCopy(e)
  PROVE  MapInv'
<1>1. Runs(e) /\ cow[e].at = "copy"
  BY DEF CowCopy
<1>2. CASE ~ PassiveOk(M, e, UCOW)
  BY <1>2, HaltsKeeps DEF CowCopy
<1>3. CASE PassiveOk(M, e, UCOW)
  <2>1. PICK m, n, h : /\ m = PassiveAlloc(M, e, UCOW) /\ n = Copied(m, e)
                       /\ h = [at |-> "map", va |-> cow[e].va, perm |-> cow[e].perm]
    OBVIOUS
  <2>2. Commit(n) /\ CowStep(e, h) /\ UNCHANGED <<env_vars, envVars>>
    BY <1>3, <2>1 DEF CowCopy, CowGoes, CowLeaves, CowStep
  <2>3. SameEnvs
    BY <2>2 DEF SameEnvs, envVars
  <2>4. /\ env_status[e] = "RUNNABLE" /\ "D" \in cow[e].perm /\ "COW" \notin cow[e].perm /\ cow[e].perm \in Perms
        /\ cow[e].va \in UserVa /\ cow[e].va \in Va /\ cow[e].va # UCOW
        /\ pte[e][cow[e].va] # NoPte /\ UCOW \in Va /\ UCOW \in Slot /\ cow[e].va \in Slot
    BY <1>1, HandlerState
  <2>5. Good(M, {}) /\ TlbType /\ UCOW \in Slot \ {UVPT} /\ PagesOk /\ M.pte = pte
    BY GoodNow, Addresses DEF MapInv, M, Mem
  <2>6. Good(m, {})
    BY <1>3, <2>1, <2>5, GoodPassive
  <2>7. /\ Frame(M, m, e, UCOW) /\ m.pte[e][UCOW] # NoPte
        /\ M.pte[e][UCOW] # NoPte => m = M
        /\ M.pte[e][UCOW] = NoPte => m.pte[e][UCOW].perm = IF UCOW \in Va THEN {"D"} ELSE {}
    BY <1>3, <2>1, <2>5, <2>6, GoodPassive
  <2>8. m.pte[e][cow[e].va] # NoPte
    BY <2>4, <2>5, <2>7, Addresses DEF Frame
  <2>9. m.pte[e][UCOW].page \in Pages /\ m.mem[m.pte[e][cow[e].va].page] \in Words
    <3>1. m.pte[e][cow[e].va].page \in Pages /\ m.pte[e][UCOW].page \in Pages
      BY <2>4, <2>6, <2>7, <2>8, HeldIsCounted DEF Good
    <3> QED BY <2>6, <3>1 DEF Good, IsMem
  <2>10. Good(n, {}) /\ n.pte = m.pte
    <3>1. PICK p, w : p = m.pte[e][UCOW].page /\ w = m.mem[m.pte[e][cow[e].va].page]
      OBVIOUS
    <3>2. n = Writes(m, p, w) /\ p \in Pages /\ w \in Words
      BY <2>1, <2>9, <3>1 DEF Copied
    <3> QED BY <2>6, <3>2, GoodWrites
  <2>11. PagesOk'
    BY <2>2, <2>3, <2>5, <2>10, GoodCommit
  <2>12. Frame(M, n, e, UCOW) /\ pte' = m.pte
    BY <2>2, <2>7, <2>10 DEF Frame, Commit
  <2>13. OnlyVa(e, UCOW)
    BY <2>2, <2>4, <2>5, <2>10, <2>12, FrameOnlyVa
  <2>14. RoutinesOk' /\ NoneStarts /\ HandlerOk'
    <3>1. \A f \in Env : f # e => pte'[f] = pte[f]
      BY <2>13 DEF OnlyVa
    <3>2. pte'[e][UCOW] # NoPte
      BY <2>7, <2>12
    <3>3. /\ h \in [at : {"no", "alloc", "copy", "map", "unmap"}, va : Va, perm : Perms]
          /\ h.at = "map" /\ h.va = cow[e].va /\ h.perm = cow[e].perm
      BY <2>1, <2>4
    <3> QED BY <2>2, <2>4, <3>1, <3>2, <3>3, CowRoutines
  <2>15. FreeEnvsEmpty' /\ AsidsDistinct' /\ EntryPerms' /\ FaultsHandled'
    <3>1. EntryAllowed(e, UCOW)
      BY <2>4, <2>5, <2>7, <2>12 DEF EntryAllowed
    <3> QED BY <2>3, <2>4, <2>13, <2>14, <3>1, EntryStep
  <2> QED BY <2>11, <2>14, <2>15, Together
<1> QED BY <1>2, <1>3

(* do_tlb_mod: the kernel halts only when there is no memory for the       *)
(* exception stack, since an env without a handler may write what it has.  *)
LEMMA TlbModKeeps ==
  ASSUME MapInv, NEW e \in Env, InUser(e), NEW s, NEW perm \in Perms, TlbMod(e, s, perm),
         "COW" \in perm => s \in UserVa /\ pte[e][s] # NoPte
  PROVE  MapInv'
<1>1. env_status[e] = "RUNNABLE" /\ cow[e] = NoCow
  BY DEF InUser, Runs
<1>4. UXSTACK \in Va /\ UXSTACK \in Slot /\ UserVa \subseteq Va /\ UXSTACK \notin UserVa
  BY Addresses, MapAssumption DEF UserVa, Va
<1>6. CASE ~ PassiveOk(M, e, UXSTACK)
  BY <1>6, HaltsKeeps DEF TlbMod
<1>8. CASE ~ env_user_tlb_mod_entry[e]
  BY <1>6, <1>8, HaltsKeeps DEF TlbMod
<1>7. CASE PassiveOk(M, e, UXSTACK) /\ env_user_tlb_mod_entry[e]
  <2>1. Commit(PassiveAlloc(M, e, UXSTACK)) /\ UNCHANGED env_vars
    BY <1>7 DEF TlbMod
  <2>2. ASSUME SameEnvs
        PROVE  /\ PagesOk' /\ OnlyVa(e, UXSTACK) /\ pte'[e][UXSTACK] # NoPte
               /\ pte'[e][UXSTACK] = pte[e][UXSTACK] \/ pte'[e][UXSTACK].perm = {"D"}
    BY <1>4, <1>7, <2>1, <2>2, PassiveStep DEF MapInv
  <2>3. ASSUME SameEnvs PROVE EntryAllowed(e, UXSTACK)
    BY <2>2, <2>3 DEF EntryAllowed
  <2>4. CASE "COW" \in perm
    <3>1. PICK g : g = [at |-> "alloc", va |-> s, perm |-> (perm \ {"COW"}) \cup {"D"}]
      OBVIOUS
    <3>2. CowStep(e, g)
      BY <1>7, <2>4, <3>1 DEF TlbMod, CowStep
    <3>3. SameEnvs
      BY <3>2 DEF SameEnvs, CowStep, envVars
    <3>4. RoutinesOk' /\ NoneStarts /\ HandlerOk'
      <4>1. \A f \in Env : f # e => pte'[f] = pte[f]
        BY <2>2, <3>3 DEF OnlyVa
      <4>2. pte'[e][s] # NoPte
        BY <1>4, <2>2, <2>4, <3>3 DEF OnlyVa
      <4>3. g.at = "alloc" /\ g.va = s /\ "D" \in g.perm /\ "COW" \notin g.perm /\ g.perm \in Perms
        BY <3>1 DEF Perms
      <4>4. g \in [at : {"no", "alloc", "copy", "map", "unmap"}, va : Va, perm : Perms]
        BY <1>4, <2>4, <3>1, <4>3
      <4> QED BY <1>1, <2>4, <3>2, <4>1, <4>2, <4>3, <4>4, CowRoutines
    <3>5. FreeEnvsEmpty' /\ AsidsDistinct' /\ EntryPerms' /\ FaultsHandled'
      BY <1>1, <1>4, <2>2, <2>3, <3>3, <3>4, EntryStep
    <3> QED BY <2>2, <3>3, <3>4, <3>5, Together
  <2>5. CASE "COW" \notin perm
    <3>1. UserPanics(e)
      BY <1>7, <2>5 DEF TlbMod
    <3>2. SameEnvs
      BY <1>1, <2>1, <3>1 DEF SameEnvs, UserPanics, MapInv, EnvType
    <3>3. RoutinesOk' /\ NoneStarts /\ HandlerOk'
      <4>1. \A f \in Env : cow[f] # NoCow /\ f # e => pte'[f] = pte[f]
        BY <2>2, <3>2 DEF OnlyVa
      <4> QED BY <1>1, <2>1, <3>1, <4>1, RoutinePanics
    <3>5. FreeEnvsEmpty' /\ AsidsDistinct' /\ EntryPerms' /\ FaultsHandled'
      BY <1>1, <1>4, <2>2, <2>3, <3>2, <3>3, EntryStep
    <3> QED BY <2>2, <3>2, <3>3, <3>5, Together
  <2> QED BY <2>4, <2>5
<1> QED BY <1>6, <1>7, <1>8

(* A program writes to a page of its own, or to a window.                  *)
LEMMA DoTlbModKeeps ==
  ASSUME MapInv, NEW e \in Env, (\E s \in UserVa : DoTlbMod(e, s)) \/ WriteWindow(e)
  PROVE  MapInv'
<1>1. ASSUME NEW s \in UserVa, DoTlbMod(e, s) PROVE MapInv'
  <2>1. InUser(e) /\ TlbMod(e, s, pte[e][s].perm) /\ env_status[e] = "RUNNABLE"
    BY <1>1 DEF DoTlbMod, InUser, Runs
  <2>2. PICK h \in Hits(e, s) : "D" \notin h.perm
    BY <1>1 DEF DoTlbMod
  <2>3. pte[e][s] = h /\ h # NoPte /\ h \in Pte
    BY <2>1, <2>2, HitIsEntry
  <2> QED BY <2>1, <2>3, TlbModKeeps DEF Pte
<1>2. ASSUME WriteWindow(e) PROVE MapInv'
  <2>1. PICK none : none = {}
    OBVIOUS
  <2>2. none \in Perms /\ "COW" \notin none
    BY <2>1 DEF Perms
  <2>3. InUser(e) /\ TlbMod(e, UVPT, none)
    BY <1>2, <2>1 DEF WriteWindow, InProgram
  <2> QED BY <2>2, <2>3, TlbModKeeps
<1> QED BY <1>1, <1>2

(* exit.                                                                   *)
LEMMA ExitKeeps ==
  ASSUME MapInv, NEW e \in Env, Exit(e)
  PROVE  MapInv'
<1>1. UserPanics(e) /\ env_status[e] = "RUNNABLE"
      /\ UNCHANGED <<page_free_list, pp_ref, mem, lost, pte, env_vars, tlb>>
  BY DEF Exit, InProgram, InUser, Runs, pageVars
<1>2. RoutinesOk' /\ NoneStarts /\ SameEnvs /\ HandlerOk'
  BY <1>1, RoutinePanics
<1>3. PagesOk'
  <2>1. Commit(M) /\ Good(M, {}) /\ PagesOk
    BY <1>1, GoodNow DEF Commit, M, Mem, MapInv
  <2> QED BY <1>2, <2>1, GoodCommit
<1>4. FreeEnvsEmpty' /\ AsidsDistinct' /\ EntryPerms' /\ FaultsHandled'
  BY <1>1, <1>2, NoEntryStep
<1> QED BY <1>2, <1>3, <1>4, Together

(* fork and spawn make their child runnable.                               *)
LEMMA StartKeeps ==
  ASSUME MapInv, NEW e \in Env, ForkDone(e) \/ SpawnDone(e)
  PROVE  MapInv'
<1>1. PICK c : c = op[e].child
  OBVIOUS
<1>2. /\ op[e].at \in {"fork", "share"} /\ env_status[e] = "RUNNABLE"
      /\ env_status' = [env_status EXCEPT ![c] = "RUNNABLE"] /\ op' = [op EXCEPT ![e] = Idle]
      /\ UNCHANGED <<page_free_list, pp_ref, mem, lost, pte, env_vars, tlb,
                     env_parent, env_asid, panic, cow>>
  BY <1>1 DEF ForkDone, SpawnDone, StartChild, InUser, Runs, pageVars
<1>3. c \in Env /\ env_status[c] = "NOT_RUNNABLE" /\ env_parent[c] = e
  BY <1>1, <1>2 DEF MapInv, BuildsChild
<1>4. /\ op \in [Env -> [at : RoutineSteps,
                     child : Env \cup {NoEnv}, va : 0 .. UTOP, perm : Perms]]
      /\ Idle \in [at : RoutineSteps,
                     child : Env \cup {NoEnv}, va : 0 .. UTOP, perm : Perms]
      /\ env_status \in [Env -> {"FREE", "NOT_RUNNABLE", "RUNNABLE", "ZOMBIE"}]
      /\ env_user_tlb_mod_entry \in [Env -> BOOLEAN]
  BY MapAssumption DEF MapInv, RoutineType, RoutineSteps, EnvType, Idle, Perms
<1>5. /\ op'[e] = Idle /\ env_status'[c] = "RUNNABLE"
      /\ \A f \in Env : f # e => op'[f] = op[f]
      /\ \A f \in Env : f # c => env_status'[f] = env_status[f]
  BY <1>2, <1>3, <1>4
<1>6. /\ env_user_tlb_mod_entry' \in [Env -> BOOLEAN]
      /\ \A f \in Env : env_user_tlb_mod_entry[f] => env_user_tlb_mod_entry'[f]
      /\ op[e].at = "fork" => env_user_tlb_mod_entry'[c]
  BY <1>1, <1>3, <1>4 DEF ForkDone, SpawnDone
<1>7. SameEnvs
  BY <1>2, <1>3, <1>5 DEF SameEnvs
<1>8. PagesOk'
  <2>1. Commit(M) /\ Good(M, {}) /\ PagesOk
    BY <1>2, GoodNow DEF Commit, M, Mem, MapInv
  <2> QED BY <1>7, <2>1, GoodCommit
<1>9. RoutinesOk'
  <2>1. EnvType' /\ RoutineType'
    BY <1>2, <1>4, <1>6 DEF MapInv, EnvType, RoutineType, RoutineSteps
  <2>2. BuildsChild'
    <3> SUFFICES ASSUME NEW f \in Env, op'[f].at # "user"
                 PROVE  /\ env_status'[f] = "RUNNABLE" /\ op'[f].child \in Env
                        /\ env_status'[op'[f].child] = "NOT_RUNNABLE"
                        /\ env_parent'[op'[f].child] = f
      BY DEF BuildsChild
    <3>1. f # e /\ op'[f] = op[f]
      BY <1>5 DEF Idle
    <3>2. /\ env_status[f] = "RUNNABLE" /\ op[f].child \in Env
          /\ env_status[op[f].child] = "NOT_RUNNABLE" /\ env_parent[op[f].child] = f
      BY <3>1 DEF MapInv, BuildsChild
    <3>3. op[f].child # c
      BY <1>3, <3>1, <3>2
    <3> QED BY <1>2, <1>5, <3>1, <3>2, <3>3
  <2>3. ForkOk'
    BY <1>5, <1>6 DEF MapInv, ForkOk, Idle
  <2> QED BY <2>1, <2>2, <2>3 DEF RoutinesOk
<1>10. NoneStarts
  <2> SUFFICES ASSUME NEW f \in Env, WithoutHandler(f)' PROVE WithoutHandler(f)
    BY DEF NoneStarts
  <2>1. ~ env_user_tlb_mod_entry[f] /\ ~ env_user_tlb_mod_entry'[f]
    BY <1>6 DEF WithoutHandler
  <2>2. Starts(f)
    <3>1. CASE f = c
      BY <1>1, <1>2, <1>6, <2>1, <3>1 DEF Starts, Spawning
    <3>2. CASE f # c
      BY <1>5, <3>2 DEF WithoutHandler, Starts, Idle, Spawning
    <3> QED BY <3>1, <3>2
  <2> QED BY <2>1, <2>2 DEF WithoutHandler
<1>11. FreeEnvsEmpty' /\ AsidsDistinct' /\ EntryPerms' /\ FaultsHandled'
  BY <1>2, <1>7, <1>10, NoEntryStep
<1>12. HandlerOk'
  <2>1. \A f \in Env : cow[f] # NoCow => env_status'[f] = "RUNNABLE" /\ pte'[f] = pte[f]
    BY <1>2, <1>5 DEF MapInv, HandlerOk
  <2> QED BY <1>2, <2>1, HandlersKeep
<1> QED BY <1>8, <1>9, <1>11, <1>12, Together

(* What is known of the child while it is built.                           *)
LEMMA ChildState ==
  ASSUME MapInv, NEW e \in Env, op[e].at # "user", NEW c, c = op[e].child
  PROVE  /\ c \in Env /\ env_status[c] = "NOT_RUNNABLE" /\ cow[c] = NoCow
         /\ Starts(c) => op[e].at \in Spawning
<1>1. c \in Env /\ env_status[c] = "NOT_RUNNABLE" /\ env_parent[c] = e
  BY DEF MapInv, BuildsChild
<1>2. cow[c] = NoCow
  BY <1>1 DEF MapInv, HandlerOk
<1>3. ASSUME Starts(c) PROVE op[e].at \in Spawning
  <2>1. PICK f \in Env : op[f].child = c /\ op[f].at \in Spawning
    BY <1>1, <1>3 DEF Starts
  <2>2. env_parent[c] = f
    BY <2>1 DEF MapInv, BuildsChild, Spawning
  <2> QED BY <1>1, <2>1, <2>2
<1> QED BY <1>1, <1>2, <1>3

(* A step in user code of e that changes only the entry at t of env f.     *)
LEMMA UserEntryStep ==
  ASSUME MapInv, NEW f \in Env, NEW t \in Va, OnlyVa(f, t), cow[f] = NoCow, UNCHANGED <<cow, env_status>>
  PROVE  HandlerOk'
<1>1. \A g \in Env : cow[g] # NoCow => env_status'[g] = "RUNNABLE" /\ pte'[g] = pte[g]
  BY DEF OnlyVa, MapInv, HandlerOk
<1> QED BY <1>1, HandlersKeep

(* duppage protects the parent's entry.                                    *)
LEMMA DupParentKeeps ==
  ASSUME MapInv, NEW e \in Env, DupParent(e)
  PROVE  MapInv'
<1>1. PICK v, perm : v = op[e].va /\ perm = op[e].perm
  OBVIOUS
<1>2. /\ op[e].at = "dup" /\ env_status[e] = "RUNNABLE" /\ cow[e] = NoCow
      /\ Commit(SysMemMap(M, e, v, e, v, perm))
      /\ OpGoes(e, "fork", op[e].child, v + 1, {})
      /\ UNCHANGED <<env_vars, envVars, panic, cow>>
  BY <1>1 DEF DupParent, InUser, Runs
<1>3. v \in Va /\ perm \in Perms /\ "COW" \in perm /\ "LIBRARY" \notin perm /\ env_user_tlb_mod_entry[e]
  BY <1>1, <1>2 DEF MapInv, ForkOk, RoutineType
<1>4. v \in Slot /\ v + 1 \in 0 .. UTOP /\ {} \in Perms
  BY <1>3, Addresses, MapAssumption DEF Va, Perms
<1>5. SameEnvs /\ UNCHANGED <<env_status, env_user_tlb_mod_entry>>
  BY <1>2 DEF SameEnvs, envVars
<1>6. PagesOk' /\ OnlyVa(e, v) /\ (pte'[e][v] = NoPte \/ pte'[e][v] = pte[e][v] \/ pte'[e][v].perm = perm)
  BY <1>2, <1>3, <1>5, MapStep DEF MapInv
<1>7. RoutinesOk' /\ NoneStarts
  <2>1. PICK w, none : w = v + 1 /\ none = {}
    OBVIOUS
  <2> QED BY <1>2, <1>4, <2>1, RoutineGoes
<1>8. FreeEnvsEmpty' /\ AsidsDistinct' /\ EntryPerms' /\ FaultsHandled'
  <2>1. ~ WithoutHandler(e)'
    BY <1>3, <1>5 DEF WithoutHandler
  <2>2. EntryAllowed(e, v)
    BY <1>3, <1>6, <2>1 DEF EntryAllowed
  <2> QED BY <1>2, <1>4, <1>5, <1>6, <1>7, <2>2, EntryStep
<1>9. HandlerOk'
  BY <1>2, <1>3, <1>5, <1>6, UserEntryStep
<1> QED BY <1>6, <1>7, <1>8, <1>9, Together

(* The scans of fork and spawn stop at a page of the parent.               *)
LEMMA ScanFinds ==
  ASSUME MapInv, NEW e \in Env, NEW S, S \subseteq op[e].va .. UXSTACK, S # {},
         NEW v, v = CHOOSE x \in S : \A y \in S : x <= y
  PROVE  v \in S /\ v \in Va /\ v + 1 \in 0 .. UTOP /\ v \in Slot
<1>1. op[e].va \in 0 .. UTOP /\ UTOP \in Nat /\ UXSTACK \in 0 .. UTOP - 1
  BY MapAssumption DEF MapInv, RoutineType, Va
<1>2. S \in SUBSET Nat
  BY <1>1
<1>3. v \in S
  BY <1>2, Least
<1>4. v \in 0 .. UTOP - 1 /\ v + 1 \in 0 .. UTOP
  <2>1. PICK a : a = op[e].va
    OBVIOUS
  <2>2. v \in a .. UXSTACK
    BY <1>3, <2>1
  <2> QED BY <1>1, <2>1, <2>2
<1> QED BY <1>3, <1>4, Addresses DEF Va

(* duppage maps a page of the parent in the child.                         *)
LEMMA DupChildKeeps ==
  ASSUME MapInv, NEW e \in Env, DupChild(e)
  PROVE  MapInv'
<1>1. PICK v, c, old, perm : /\ v = NextVisit(e, USTACK) /\ c = op[e].child
                             /\ old = pte[e][v].perm /\ perm = ChildPerm(old)
  OBVIOUS
<1>2. /\ op[e].at = "fork" /\ env_status[e] = "RUNNABLE" /\ cow[e] = NoCow
      /\ ToVisit(e, USTACK) # {}
      /\ Commit(SysMemMap(M, e, v, c, v, perm)) /\ UNCHANGED env_vars
  BY <1>1 DEF DupChild, InUser, Runs
<1>3. v \in ToVisit(e, USTACK) /\ v \in Va /\ v + 1 \in 0 .. UTOP /\ v \in Slot
  <2>1. ToVisit(e, USTACK) \subseteq op[e].va .. UXSTACK
    BY MapAssumption DEF ToVisit, Va, MapInv, RoutineType
  <2> QED BY <1>1, <1>2, <2>1, ScanFinds DEF NextVisit
<1>4. pte[e][v] # NoPte /\ pte[e][v] \in Pte
  BY <1>3 DEF ToVisit, MapInv, PagesOk, PageType
<1>5. /\ perm \in Perms
      /\ "COW" \notin perm \/ "LIBRARY" \notin perm
      /\ IsPrivate(old) => "COW" \in perm /\ "LIBRARY" \notin perm
  <2>1. old \in Perms /\ ("COW" \notin old \/ "LIBRARY" \notin old)
    BY <1>1, <1>3, <1>4 DEF Pte, MapInv, EntryPerms
  <2> QED BY <1>1, <2>1 DEF ChildPerm, IsPrivate, Perms
<1>6. /\ c \in Env /\ env_status[c] = "NOT_RUNNABLE" /\ cow[c] = NoCow /\ c # e
      /\ ~ Starts(c) /\ {} \in Perms
  BY <1>1, <1>2, ChildState DEF Perms, Spawning
<1>7. ASSUME SameEnvs, NoneStarts
      PROVE  /\ PagesOk' /\ OnlyVa(c, v)
             /\ FreeEnvsEmpty' /\ AsidsDistinct' /\ EntryPerms' /\ FaultsHandled'
  <2>1. PagesOk' /\ OnlyVa(c, v) /\ (pte'[c][v] = NoPte \/ pte'[c][v] = pte[c][v] \/ pte'[c][v].perm = perm)
    BY <1>2, <1>3, <1>5, <1>6, <1>7, MapStep DEF MapInv
  <2>2. ~ WithoutHandler(c)'
    BY <1>6, <1>7 DEF NoneStarts, WithoutHandler
  <2>3. EntryAllowed(c, v)
    BY <1>5, <2>1, <2>2 DEF EntryAllowed
  <2>4. FreeEnvsEmpty' /\ AsidsDistinct' /\ EntryPerms' /\ FaultsHandled'
    BY <1>3, <1>6, <1>7, <2>1, <2>3, EntryStep
  <2> QED BY <2>1, <2>4
<1>8. CASE MapOk(M, e, v, c, v)
  <2>1. UNCHANGED <<envVars, panic, cow>>
        /\ IF IsPrivate(old) THEN OpGoes(e, "dup", c, v, perm) ELSE OpGoes(e, "fork", c, v + 1, {})
    BY <1>1, <1>8 DEF DupChild
  <2>2. RoutinesOk' /\ NoneStarts
    <3>1. CASE IsPrivate(old)
      <4>1. v \in 0 .. UTOP
        BY <1>3, MapAssumption DEF Va
      <4> QED BY <1>1, <1>2, <1>3, <1>5, <2>1, <3>1, <4>1, RoutineGoes
    <3>2. CASE ~ IsPrivate(old)
      <4>1. PICK w, none : w = v + 1 /\ none = {}
        OBVIOUS
      <4> QED BY <1>1, <1>2, <1>3, <1>6, <2>1, <3>2, <4>1, RoutineGoes
    <3> QED BY <3>1, <3>2
  <2>3. SameEnvs /\ UNCHANGED <<cow, env_status>>
    BY <1>2, <2>1 DEF SameEnvs, envVars
  <2>4. HandlerOk'
    BY <1>3, <1>6, <1>7, <2>2, <2>3, UserEntryStep
  <2> QED BY <1>7, <2>2, <2>3, <2>4, Together
<1>9. CASE ~ MapOk(M, e, v, c, v)
  <2>1. UserPanics(e)
    BY <1>1, <1>9 DEF DupChild
  <2>2. SameEnvs
    BY <1>2, <2>1 DEF SameEnvs, UserPanics, MapInv, EnvType
  <2>3. PagesOk' /\ OnlyVa(c, v)
    <3>1. PagesOk' /\ OnlyVa(c, v)
      BY <1>2, <1>3, <1>5, <1>6, <2>2, MapStep DEF MapInv
    <3> QED BY <3>1
  <2>4. RoutinesOk' /\ NoneStarts /\ HandlerOk'
    <3>1. \A f \in Env : cow[f] # NoCow /\ f # e => pte'[f] = pte[f]
      BY <1>6, <2>3 DEF OnlyVa
    <3> QED BY <1>2, <2>1, <3>1, RoutinePanics
  <2> QED BY <1>7, <2>2, <2>4, Together
<1> QED BY <1>8, <1>9

(* spawn shares a page with PTE_LIBRARY.                                   *)
LEMMA ShareLibraryKeeps ==
  ASSUME MapInv, NEW e \in Env, ShareLibrary(e)
  PROVE  MapInv'
<1>1. PICK v, c, perm : /\ v = CHOOSE x \in ToShare(e) : \A y \in ToShare(e) : x <= y
                        /\ c = op[e].child /\ perm = pte[e][v].perm
  OBVIOUS
<1>2. /\ op[e].at = "share" /\ ToShare(e) # {}
      /\ Commit(SysMemMap(M, e, v, c, v, perm))
      /\ UNCHANGED <<env_vars, envVars, panic, cow>>
  BY <1>1 DEF ShareLibrary, InUser, Runs, Abandon
<1>3. v \in ToShare(e) /\ v \in Va /\ v + 1 \in 0 .. UTOP /\ v \in Slot
  <2>1. ToShare(e) \subseteq op[e].va .. UXSTACK
    BY DEF ToShare
  <2> QED BY <1>1, <1>2, <2>1, ScanFinds
<1>4. perm \in Perms /\ "COW" \notin perm
  <2>1. "LIBRARY" \in perm /\ pte[e][v] # NoPte
    BY <1>1, <1>3 DEF ToShare, NoPte
  <2>2. pte[e][v] \in Pte
    BY <1>3, <2>1 DEF MapInv, PagesOk, PageType
  <2> QED BY <1>1, <1>3, <2>1, <2>2 DEF Pte, MapInv, EntryPerms
<1>5. c \in Env /\ env_status[c] = "NOT_RUNNABLE" /\ cow[c] = NoCow /\ {} \in Perms
  BY <1>1, <1>2, ChildState DEF Perms
<1>6. SameEnvs /\ UNCHANGED <<cow, env_status>>
  BY <1>2 DEF SameEnvs, envVars
<1>7. PagesOk' /\ OnlyVa(c, v) /\ (pte'[c][v] = NoPte \/ pte'[c][v] = pte[c][v] \/ pte'[c][v].perm = perm)
  BY <1>2, <1>3, <1>4, <1>5, <1>6, MapStep DEF MapInv
<1>8. RoutinesOk' /\ NoneStarts
  <2>1. CASE MapOk(M, e, v, c, v)
    <3>1. PICK w, none : w = v + 1 /\ none = {}
      OBVIOUS
    <3>2. OpGoes(e, "share", c, w, none)
      BY <1>1, <2>1, <3>1 DEF ShareLibrary
    <3> QED BY <1>1, <1>2, <1>3, <1>5, <3>1, <3>2, RoutineGoes DEF Spawning
  <2>2. CASE ~ MapOk(M, e, v, c, v)
    BY <1>1, <2>2, RoutineEnds DEF ShareLibrary
  <2> QED BY <2>1, <2>2
<1>9. FreeEnvsEmpty' /\ AsidsDistinct' /\ EntryPerms' /\ FaultsHandled'
  <2>1. EntryAllowed(c, v)
    BY <1>4, <1>7 DEF EntryAllowed
  <2> QED BY <1>3, <1>5, <1>6, <1>7, <1>8, <2>1, EntryStep
<1>10. HandlerOk'
  BY <1>3, <1>5, <1>6, <1>7, UserEntryStep
<1> QED BY <1>7, <1>8, <1>9, <1>10, Together

(* init_stack fills a page at UTEMP, or spawn gives up.                    *)
LEMMA InitStackAllocKeeps ==
  ASSUME MapInv, NEW e \in Env, InitStackAlloc(e, Argv)
  PROVE  MapInv'
<1>1. op[e].at = "args" /\ env_status[e] = "RUNNABLE" /\ cow[e] = NoCow
  BY DEF InitStackAlloc, InUser, Runs
<1>2. PICK perm, none : perm = {"D"} /\ none = {}
  OBVIOUS
<1>3. /\ perm \in Perms /\ none \in Perms /\ "COW" \notin perm /\ Argv \in Words /\ 0 \in 0 .. UTOP
      /\ UTEMP \in Va /\ UTEMP \in Slot /\ UTEMP \in Slot \ {UVPT}
  <2>1. UTEMP \in Va /\ UTEMP \in Slot /\ UTEMP \in Slot \ {UVPT}
    BY Addresses
  <2>2. Argv \in Words /\ 0 \in 0 .. UTOP
    BY MapAssumption
  <2> QED BY <1>2, <2>1, <2>2 DEF Perms
<1>4. UNCHANGED <<env_vars, envVars, panic, cow>>
  BY DEF InitStackAlloc, Abandon
<1>5. SameEnvs /\ UNCHANGED <<cow, env_status>>
  BY <1>4 DEF SameEnvs, envVars
<1>6. RoutinesOk' /\ NoneStarts
  <2>1. CASE AllocOk(M, e, UTEMP)
    <3>1. PICK zero : zero = 0
      OBVIOUS
    <3>2. OpGoes(e, "give", op[e].child, zero, none)
      BY <1>2, <2>1, <3>1 DEF InitStackAlloc
    <3> QED BY <1>1, <1>3, <1>4, <3>1, <3>2, RoutineGoes DEF Spawning
  <2>2. CASE ~ AllocOk(M, e, UTEMP)
    BY <2>2, RoutineEnds DEF InitStackAlloc
  <2> QED BY <2>1, <2>2
<1>7. /\ PagesOk' /\ OnlyVa(e, UTEMP)
      /\ pte'[e][UTEMP] = NoPte \/ pte'[e][UTEMP] = pte[e][UTEMP] \/ pte'[e][UTEMP].perm = perm
  <2>1. CASE ~ AllocOk(M, e, UTEMP)
    <3>1. Commit(SysMemAlloc(M, e, UTEMP, perm))
      BY <1>2, <2>1 DEF InitStackAlloc
    <3> QED BY <1>3, <1>5, <3>1, AllocStep DEF MapInv
  <2>2. CASE AllocOk(M, e, UTEMP)
    <3>1. PICK m, n, p : /\ m = SysMemAlloc(M, e, UTEMP, perm) /\ n = Written(m, e, Argv)
                         /\ p = m.pte[e][UTEMP].page
      OBVIOUS
    <3>2. Commit(n) /\ n = Writes(m, p, Argv)
      BY <1>2, <2>2, <3>1 DEF InitStackAlloc, Written
    <3>3. Good(M, {}) /\ TlbType /\ PagesOk
      BY GoodNow DEF MapInv
    <3>4. Good(m, {})
      BY <1>3, <3>1, <3>3, GoodMemAlloc
    <3>5. /\ First(M) \in Pages /\ m.pte[e][UTEMP] = [page |-> First(M), perm |-> perm]
          /\ Frame(M, m, e, UTEMP)
      BY <1>3, <2>2, <3>1, <3>3, <3>4, GoodMemAlloc
    <3>6. p \in Pages /\ m.pte[e][UTEMP].perm = perm
      BY <3>1, <3>5
    <3>7. Good(n, {}) /\ n.pte = m.pte
      BY <1>3, <3>2, <3>4, <3>6, GoodWrites
    <3>8. Frame(M, n, e, UTEMP) /\ pte' = n.pte
      BY <3>2, <3>5, <3>7 DEF Frame, Commit
    <3>9. PagesOk'
      BY <1>5, <3>2, <3>3, <3>7, GoodCommit
    <3>10. OnlyVa(e, UTEMP)
      BY <1>3, <3>2, <3>3, <3>7, <3>8, FrameOnlyVa
    <3> QED BY <3>6, <3>7, <3>8, <3>9, <3>10
  <2> QED BY <2>1, <2>2
<1>8. FreeEnvsEmpty' /\ AsidsDistinct' /\ EntryPerms' /\ FaultsHandled'
  <2>1. EntryAllowed(e, UTEMP)
    BY <1>3, <1>7 DEF EntryAllowed
  <2> QED BY <1>1, <1>3, <1>5, <1>6, <1>7, <2>1, EntryStep
<1>9. HandlerOk'
  BY <1>1, <1>3, <1>5, <1>7, UserEntryStep
<1> QED BY <1>6, <1>7, <1>8, <1>9, Together

(* init_stack unmaps UTEMP.                                                *)
LEMMA InitStackUnmapKeeps ==
  ASSUME MapInv, NEW e \in Env, InitStackUnmap(e)
  PROVE  MapInv'
<1>1. /\ op[e].at = "given" /\ env_status[e] = "RUNNABLE" /\ cow[e] = NoCow
      /\ Commit(PageRemove(M, e, UTEMP)) /\ UNCHANGED <<env_vars, envVars, panic, cow>>
  BY DEF InitStackUnmap, InUser, Runs
<1>2. SameEnvs /\ UNCHANGED <<cow, env_status>> /\ UTEMP \in Va /\ UTEMP \in Slot
  BY <1>1, Addresses DEF SameEnvs, envVars
<1>3. PagesOk' /\ OnlyVa(e, UTEMP) /\ pte'[e][UTEMP] = NoPte
  BY <1>1, <1>2, RemoveStep DEF MapInv
<1>4. RoutinesOk' /\ NoneStarts
  <2>1. PICK zero, none : zero = 0 /\ none = {}
    OBVIOUS
  <2>2. zero \in 0 .. UTOP /\ none \in Perms /\ OpGoes(e, "load", op[e].child, zero, none)
    BY <2>1, MapAssumption DEF Perms, InitStackUnmap
  <2> QED BY <1>1, <2>2, RoutineGoes DEF Spawning
<1>5. FreeEnvsEmpty' /\ AsidsDistinct' /\ EntryPerms' /\ FaultsHandled'
  <2>1. EntryAllowed(e, UTEMP)
    BY <1>3 DEF EntryAllowed
  <2> QED BY <1>1, <1>2, <1>3, <1>4, <2>1, EntryStep
<1>6. HandlerOk'
  BY <1>1, <1>2, <1>3, UserEntryStep
<1> QED BY <1>3, <1>4, <1>5, <1>6, Together

(* A step that changes user entries of e and of c.                         *)
LEMMA TwoEnvsStep ==
  ASSUME MapInv, NEW e \in Env, NEW c \in Env,
         env_status[e] # "FREE", env_status[c] # "FREE", SameEnvs, NoneStarts,
         \A f \in Env : f # e /\ f # c => pte'[f] = pte[f],
         \A f \in Env : \A v \in Va : \/ pte'[f][v] = NoPte \/ pte'[f][v] = pte[f][v]
                                      \/ "COW" \notin pte'[f][v].perm
  PROVE  FreeEnvsEmpty' /\ AsidsDistinct' /\ EntryPerms' /\ FaultsHandled'
<1>1. FreeEnvsEmpty'
  BY DEF FreeEnvsEmpty, MapInv, SameEnvs
<1>2. AsidsDistinct'
  BY DEF AsidsDistinct, MapInv, SameEnvs
<1>4. EntryPerms'
  BY DEF NoPte, EntryPerms, MapInv
<1>5. FaultsHandled'
  BY DEF NoPte, FaultsHandled, MapInv, NoneStarts, WithoutHandler
<1> QED BY <1>1, <1>2, <1>4, <1>5

(* init_stack gives the page at UTEMP to the child, or spawn gives up and  *)
(* unmaps it.                                                              *)
LEMMA InitStackMapKeeps ==
  ASSUME MapInv, NEW e \in Env, InitStackMap(e)
  PROVE  MapInv'
<1>1. PICK c, perm, none, m : /\ c = op[e].child /\ perm = {"D"} /\ none = {}
                              /\ m = SysMemMap(M, e, UTEMP, c, USTACK, perm)
  OBVIOUS
<1>2. op[e].at = "give" /\ env_status[e] = "RUNNABLE" /\ cow[e] = NoCow
      /\ UNCHANGED <<env_vars, envVars, panic, cow>>
  BY DEF InitStackMap, InUser, Runs, Abandon
<1>3. c \in Env /\ env_status[c] = "NOT_RUNNABLE" /\ cow[c] = NoCow /\ c # e
  BY <1>1, <1>2, ChildState
<1>4. /\ perm \in Perms /\ none \in Perms /\ "COW" \notin perm /\ 0 \in 0 .. UTOP
      /\ UTEMP \in Va /\ UTEMP \in Slot /\ USTACK \in Va /\ USTACK \in Slot
      /\ USTACK \in Slot \ {UVPT}
  <2>1. /\ UTEMP \in Va /\ UTEMP \in Slot /\ USTACK \in Va /\ USTACK \in Slot
        /\ USTACK \in Slot \ {UVPT}
    BY Addresses
  <2>2. 0 \in 0 .. UTOP
    BY MapAssumption
  <2> QED BY <1>1, <2>1, <2>2 DEF Perms
<1>5. SameEnvs /\ UNCHANGED <<cow, env_status>>
  BY <1>2 DEF SameEnvs, envVars
<1>6. CASE MapOk(M, e, UTEMP, c, USTACK)
  <2>1. PICK zero : zero = 0
    OBVIOUS
  <2>2. Commit(m) /\ OpGoes(e, "given", c, zero, none)
    BY <1>1, <1>6, <2>1 DEF InitStackMap
  <2>3. RoutinesOk' /\ NoneStarts
    BY <1>1, <1>2, <1>4, <2>1, <2>2, RoutineGoes DEF Spawning
  <2>4. /\ PagesOk' /\ OnlyVa(c, USTACK)
        /\ \/ pte'[c][USTACK] = NoPte \/ pte'[c][USTACK] = pte[c][USTACK]
           \/ pte'[c][USTACK].perm = perm
    BY <1>1, <1>3, <1>4, <1>5, <2>2, MapStep DEF MapInv
  <2>5. FreeEnvsEmpty' /\ AsidsDistinct' /\ EntryPerms' /\ FaultsHandled'
    <3>1. EntryAllowed(c, USTACK)
      BY <1>4, <2>4 DEF EntryAllowed
    <3> QED BY <1>3, <1>4, <1>5, <2>3, <2>4, <3>1, EntryStep
  <2>6. HandlerOk'
    BY <1>3, <1>4, <1>5, <2>4, UserEntryStep
  <2> QED BY <2>3, <2>4, <2>5, <2>6, Together
<1>7. CASE ~ MapOk(M, e, UTEMP, c, USTACK)
  <2>1. Commit(PageRemove(m, e, UTEMP)) /\ Abandon(e)
    BY <1>1, <1>7 DEF InitStackMap
  <2>2. RoutinesOk' /\ NoneStarts
    BY <2>1, RoutineEnds
  <2>3. Good(M, {}) /\ TlbType /\ PagesOk /\ M.pte = pte
    BY GoodNow DEF MapInv, M, Mem
  <2>14. Maps(M, e, UTEMP, c, USTACK, perm, m)
    BY <1>1, <1>3, <1>4, <2>3 DEF Maps
  <2>4. Good(m, {})
    BY <2>14, GoodMemMap
  <2>5. (m.pte[c][USTACK] = NoPte \/ m.pte[c][USTACK] = M.pte[c][USTACK]) /\ Frame(M, m, c, USTACK)
    <3>1. /\ MapOk(M, e, UTEMP, c, USTACK) =>
               m.pte[c][USTACK] = [page |-> M.pte[e][UTEMP].page, perm |-> perm]
          /\ ~ MapOk(M, e, UTEMP, c, USTACK) =>
               m.pte[c][USTACK] = NoPte \/ m.pte[c][USTACK] = M.pte[c][USTACK]
          /\ Frame(M, m, c, USTACK)
      BY <2>14, GoodMemMap
    <3> QED BY <1>7, <3>1
  <2>6. /\ Good(PageRemove(m, e, UTEMP), {})
        /\ PageRemove(m, e, UTEMP).pte = [m.pte EXCEPT ![e][UTEMP] = NoPte]
    BY <1>4, <2>3, <2>4, GoodRemove
  <2>7. PagesOk'
    BY <1>5, <2>1, <2>3, <2>6, GoodCommit
  <2>8. /\ pte' = [m.pte EXCEPT ![e][UTEMP] = NoPte]
        /\ m.pte \in [Env -> [Slot -> Pte \cup {NoPte}]] /\ pte \in [Env -> [Slot -> Pte \cup {NoPte}]]
    BY <2>1, <2>3, <2>4, <2>6 DEF Commit, Good, IsMem, PagesOk, PageType
  <2>9. ASSUME NEW f \in Env, f # c PROVE m.pte[f] = pte[f]
    <3>1. \A x \in Slot : m.pte[f][x] = pte[f][x]
      BY <2>3, <2>5, <2>9 DEF Frame
    <3> QED BY <2>8, <2>9, <3>1
  <2>10. \A f \in Env : f # e /\ f # c => pte'[f] = pte[f]
    BY <2>8, <2>9
  <2>11. \A f \in Env : \A v \in Va : pte'[f][v] = NoPte \/ pte'[f][v] = pte[f][v]
    <3>1. \A v \in Va : m.pte[c][v] = NoPte \/ m.pte[c][v] = pte[c][v]
      BY <1>3, <2>3, <2>5, Addresses DEF Frame
    <3>2. \A f \in Env : \A v \in Va : m.pte[f][v] = NoPte \/ m.pte[f][v] = pte[f][v]
      BY <2>9, <3>1
    <3> QED BY <1>4, <2>8, <3>2, Addresses
  <2>12. FreeEnvsEmpty' /\ AsidsDistinct' /\ EntryPerms' /\ FaultsHandled'
    BY <1>2, <1>3, <1>5, <2>2, <2>10, <2>11, TwoEnvsStep
  <2>13. HandlerOk'
    <3>1. \A f \in Env : cow[f] # NoCow => env_status'[f] = "RUNNABLE" /\ pte'[f] = pte[f]
      BY <1>2, <1>3, <1>5, <2>10 DEF MapInv, HandlerOk
    <3> QED BY <1>5, <3>1, HandlersKeep
  <2> QED BY <2>2, <2>7, <2>12, <2>13, Together
<1> QED BY <1>6, <1>7

(* A read of the program's file fails: spawn gives up.                     *)
LEMMA LoadFailsKeeps ==
  ASSUME MapInv, NEW e \in Env, LoadFails(e)
  PROVE  MapInv'
<1>1. Abandon(e) /\ UNCHANGED <<page_free_list, pp_ref, mem, lost, pte, tlb>>
      /\ UNCHANGED <<env_vars, env_status, env_asid, cow>>
  BY DEF LoadFails, Abandon, envVars
<1>2. RoutinesOk' /\ NoneStarts
  BY <1>1, RoutineEnds
<1>3. SameEnvs
  BY <1>1 DEF SameEnvs
<1>4. PagesOk'
  <2>1. Commit(M) /\ Good(M, {}) /\ PagesOk
    BY <1>1, GoodNow DEF Commit, M, Mem, MapInv
  <2> QED BY <1>3, <2>1, GoodCommit
<1>5. FreeEnvsEmpty' /\ AsidsDistinct' /\ EntryPerms' /\ FaultsHandled'
  BY <1>1, <1>2, <1>3, NoEntryStep
<1>6. HandlerOk'
  <2>1. \A f \in Env : cow[f] # NoCow => env_status'[f] = "RUNNABLE" /\ pte'[f] = pte[f]
    BY <1>1 DEF MapInv, HandlerOk
  <2> QED BY <1>1, <2>1, HandlersKeep
<1> QED BY <1>2, <1>4, <1>5, <1>6, Together

(* spawn allocates a page of a segment in the child, or gives up.          *)
LEMMA LoadAllocKeeps ==
  ASSUME MapInv, NEW e \in Env, NEW perm \in SegmentPerms, LoadAlloc(e, perm)
  PROVE  MapInv'
<1>1. PICK c : c = op[e].child
  OBVIOUS
<1>2. op[e].at = "load" /\ Commit(SysMemAlloc(M, c, UTEXT, perm))
      /\ UNCHANGED <<env_vars, envVars, panic, cow>>
  BY <1>1 DEF LoadAlloc, Abandon
<1>3. c \in Env /\ env_status[c] = "NOT_RUNNABLE" /\ cow[c] = NoCow
  BY <1>1, <1>2, ChildState
<1>4. perm \in Perms /\ "COW" \notin perm
  BY DEF SegmentPerms, Perms
<1>5. UTEXT \in Va /\ UTEXT \in Slot
  BY Addresses
<1>6. SameEnvs /\ UNCHANGED <<cow, env_status>>
  BY <1>2 DEF SameEnvs, envVars
<1>7. RoutinesOk' /\ NoneStarts
  <2>1. CASE AllocOk(M, c, UTEXT)
    <3>1. PICK zero, none : zero = 0 /\ none = {}
      OBVIOUS
    <3>2. PICK at \in {"fill", "share"} : OpGoes(e, at, op[e].child, zero, none)
      BY <1>1, <2>1, <3>1 DEF LoadAlloc
    <3>3. zero \in 0 .. UTOP /\ none \in Perms
      BY <3>1, MapAssumption DEF Perms
    <3>4. op[e].at \in Spawning /\ at \in Spawning
      BY <1>2 DEF Spawning
    <3> QED BY <1>2, <3>2, <3>3, <3>4, RoutineGoes
  <2>2. CASE ~ AllocOk(M, c, UTEXT)
    BY <1>1, <2>2, RoutineEnds DEF LoadAlloc
  <2> QED BY <2>1, <2>2
<1>8. /\ PagesOk' /\ OnlyVa(c, UTEXT)
      /\ pte'[c][UTEXT] = NoPte \/ pte'[c][UTEXT] = pte[c][UTEXT] \/ pte'[c][UTEXT].perm = perm
  BY <1>2, <1>3, <1>4, <1>5, <1>6, AllocStep DEF MapInv
<1>9. FreeEnvsEmpty' /\ AsidsDistinct' /\ EntryPerms' /\ FaultsHandled'
  <2>1. EntryAllowed(c, UTEXT)
    BY <1>4, <1>8 DEF EntryAllowed
  <2> QED BY <1>3, <1>5, <1>6, <1>7, <1>8, <2>1, EntryStep
<1>10. HandlerOk'
  BY <1>3, <1>5, <1>6, <1>8, UserEntryStep
<1> QED BY <1>7, <1>8, <1>9, <1>10, Together

(* spawn maps the page of the segment at UTEMP and fills it, or gives up   *)
(* and unmaps it from the child.                                           *)
LEMMA LoadFillKeeps ==
  ASSUME MapInv, NEW e \in Env, LoadFill(e, Argv)
  PROVE  MapInv'
<1>1. PICK c, perm, none, m : /\ c = op[e].child /\ perm = {"D"} /\ none = {}
                              /\ m = SysMemMap(M, c, UTEXT, e, UTEMP, perm)
  OBVIOUS
<1>2. op[e].at = "fill" /\ env_status[e] = "RUNNABLE" /\ cow[e] = NoCow
      /\ UNCHANGED <<env_vars, envVars, panic, cow>>
  BY DEF LoadFill, InUser, Runs, Abandon
<1>3. c \in Env /\ env_status[c] = "NOT_RUNNABLE" /\ cow[c] = NoCow /\ c # e
  BY <1>1, <1>2, ChildState
<1>4. /\ perm \in Perms /\ none \in Perms /\ "COW" \notin perm /\ 0 \in 0 .. UTOP /\ Argv \in Words
      /\ UTEMP \in Va /\ UTEMP \in Slot /\ UTEXT \in Va /\ UTEXT \in Slot
      /\ UTEMP \in Slot \ {UVPT}
  <2>1. /\ UTEMP \in Va /\ UTEMP \in Slot /\ UTEXT \in Va /\ UTEXT \in Slot
        /\ UTEMP \in Slot \ {UVPT}
    BY Addresses
  <2>2. 0 \in 0 .. UTOP /\ Argv \in Words
    BY MapAssumption
  <2> QED BY <1>1, <2>1, <2>2 DEF Perms
<1>5. SameEnvs /\ UNCHANGED <<cow, env_status>>
  BY <1>2 DEF SameEnvs, envVars
<1>6. Good(M, {}) /\ TlbType /\ PagesOk /\ M.pte = pte
  BY GoodNow DEF MapInv, M, Mem
<1>7. Maps(M, c, UTEXT, e, UTEMP, perm, m)
  BY <1>1, <1>3, <1>4, <1>6 DEF Maps
<1>8. Good(m, {})
  BY <1>7, GoodMemMap
<1>9. /\ MapOk(M, c, UTEXT, e, UTEMP) =>
           m.pte[e][UTEMP] = [page |-> M.pte[c][UTEXT].page, perm |-> perm]
      /\ ~ MapOk(M, c, UTEXT, e, UTEMP) =>
           m.pte[e][UTEMP] = NoPte \/ m.pte[e][UTEMP] = M.pte[e][UTEMP]
      /\ Frame(M, m, e, UTEMP)
  BY <1>7, GoodMemMap
<1>10. CASE MapOk(M, c, UTEXT, e, UTEMP)
  <2>1. PICK zero, n, p : zero = 0 /\ n = Written(m, e, Argv) /\ p = m.pte[e][UTEMP].page
    OBVIOUS
  <2>2. Commit(n) /\ n = Writes(m, p, Argv) /\ OpGoes(e, "filled", op[e].child, zero, none)
    BY <1>1, <1>10, <2>1 DEF LoadFill, Written
  <2>3. RoutinesOk' /\ NoneStarts
    BY <1>2, <1>4, <2>1, <2>2, RoutineGoes DEF Spawning
  <2>4. p \in Pages /\ m.pte[e][UTEMP].perm = perm
    <3>1. M.pte[c][UTEXT] \in Pte
      BY <1>3, <1>4, <1>6, <1>10 DEF MapOk, PagesOk, PageType
    <3> QED BY <1>9, <1>10, <2>1, <3>1 DEF Pte
  <2>5. Good(n, {}) /\ n.pte = m.pte
    BY <1>4, <1>8, <2>2, <2>4, GoodWrites
  <2>6. Frame(M, n, e, UTEMP) /\ pte' = n.pte
    BY <1>9, <2>2, <2>5 DEF Frame, Commit
  <2>7. PagesOk'
    BY <1>5, <1>6, <2>2, <2>5, GoodCommit
  <2>8. OnlyVa(e, UTEMP)
    BY <1>4, <1>6, <2>2, <2>5, <2>6, FrameOnlyVa
  <2>9. FreeEnvsEmpty' /\ AsidsDistinct' /\ EntryPerms' /\ FaultsHandled'
    <3>1. EntryAllowed(e, UTEMP)
      BY <1>4, <2>4, <2>5, <2>6 DEF EntryAllowed
    <3> QED BY <1>2, <1>4, <1>5, <2>3, <2>8, <3>1, EntryStep
  <2>10. HandlerOk'
    BY <1>2, <1>4, <1>5, <2>8, UserEntryStep
  <2> QED BY <2>3, <2>7, <2>9, <2>10, Together
<1>11. CASE ~ MapOk(M, c, UTEXT, e, UTEMP)
  <2>1. Commit(PageRemove(m, c, UTEXT)) /\ Abandon(e)
    BY <1>1, <1>11 DEF LoadFill
  <2>2. RoutinesOk' /\ NoneStarts
    BY <2>1, RoutineEnds
  <2>3. /\ Good(PageRemove(m, c, UTEXT), {})
        /\ PageRemove(m, c, UTEXT).pte = [m.pte EXCEPT ![c][UTEXT] = NoPte]
    BY <1>3, <1>4, <1>6, <1>8, GoodRemove
  <2>4. PagesOk'
    BY <1>5, <1>6, <2>1, <2>3, GoodCommit
  <2>5. /\ pte' = [m.pte EXCEPT ![c][UTEXT] = NoPte]
        /\ m.pte \in [Env -> [Slot -> Pte \cup {NoPte}]] /\ pte \in [Env -> [Slot -> Pte \cup {NoPte}]]
    BY <1>6, <1>8, <2>1, <2>3 DEF Commit, Good, IsMem, PagesOk, PageType
  <2>6. ASSUME NEW f \in Env, f # e PROVE m.pte[f] = pte[f]
    <3>1. \A x \in Slot : m.pte[f][x] = pte[f][x]
      BY <1>6, <1>9, <2>6 DEF Frame
    <3> QED BY <2>5, <2>6, <3>1
  <2>7. \A f \in Env : f # e /\ f # c => pte'[f] = pte[f]
    BY <2>5, <2>6
  <2>8. \A f \in Env : \A v \in Va : pte'[f][v] = NoPte \/ pte'[f][v] = pte[f][v]
    <3>1. \A v \in Va : m.pte[e][v] = NoPte \/ m.pte[e][v] = pte[e][v]
      BY <1>6, <1>9, <1>11, Addresses DEF Frame
    <3>2. \A f \in Env : \A v \in Va : m.pte[f][v] = NoPte \/ m.pte[f][v] = pte[f][v]
      BY <2>6, <3>1
    <3> QED BY <1>3, <1>4, <2>5, <3>2, Addresses
  <2>9. FreeEnvsEmpty' /\ AsidsDistinct' /\ EntryPerms' /\ FaultsHandled'
    BY <1>2, <1>3, <1>5, <2>2, <2>7, <2>8, TwoEnvsStep
  <2>10. HandlerOk'
    <3>1. \A f \in Env : cow[f] # NoCow => env_status'[f] = "RUNNABLE" /\ pte'[f] = pte[f]
      BY <1>2, <1>3, <1>5, <2>7 DEF MapInv, HandlerOk
    <3> QED BY <1>5, <3>1, HandlersKeep
  <2> QED BY <2>2, <2>4, <2>9, <2>10, Together
<1> QED BY <1>10, <1>11

(* spawn unmaps the page that it has filled.                               *)
LEMMA LoadUnmapKeeps ==
  ASSUME MapInv, NEW e \in Env, LoadUnmap(e)
  PROVE  MapInv'
<1>1. /\ op[e].at = "filled" /\ env_status[e] = "RUNNABLE" /\ cow[e] = NoCow
      /\ Commit(PageRemove(M, e, UTEMP)) /\ UNCHANGED <<env_vars, envVars, panic, cow>>
  BY DEF LoadUnmap, InUser, Runs
<1>2. SameEnvs /\ UNCHANGED <<cow, env_status>> /\ UTEMP \in Va /\ UTEMP \in Slot
  BY <1>1, Addresses DEF SameEnvs, envVars
<1>3. PagesOk' /\ OnlyVa(e, UTEMP) /\ pte'[e][UTEMP] = NoPte
  BY <1>1, <1>2, RemoveStep DEF MapInv
<1>4. RoutinesOk' /\ NoneStarts
  <2>1. PICK zero, none : zero = 0 /\ none = {}
    OBVIOUS
  <2>2. zero \in 0 .. UTOP /\ none \in Perms /\ OpGoes(e, "share", op[e].child, zero, none)
    BY <2>1, MapAssumption DEF Perms, LoadUnmap
  <2> QED BY <1>1, <2>2, RoutineGoes DEF Spawning
<1>5. FreeEnvsEmpty' /\ AsidsDistinct' /\ EntryPerms' /\ FaultsHandled'
  <2>1. EntryAllowed(e, UTEMP)
    BY <1>3 DEF EntryAllowed
  <2> QED BY <1>1, <1>2, <1>3, <1>4, <2>1, EntryStep
<1>6. HandlerOk'
  BY <1>1, <1>2, <1>3, UserEntryStep
<1> QED BY <1>3, <1>4, <1>5, <1>6, Together

(* When sys_mem_alloc has an empty entry to fill, it does not matter what  *)
(* the TLB holds.                                                          *)
LEMMA AllocOkEmpty ==
  ASSUME NEW m, NEW e, NEW s, m.pte[e][s] = NoPte
  PROVE  AllocOk(m, e, s) <=>
           /\ m.free # {}
           /\ \/ NoPte.page = First(m) \/ m.pte[e][PDX[s]] # NoPte
              \/ m.free \ {First(m)} # {}
<1>1. PICK a : a = PageAlloc(m)
  OBVIOUS
<1>2. a.pte = m.pte /\ a.free = m.free \ {First(m)}
  BY <1>1 DEF PageAlloc, Mem
<1>3. PageRemove(a, e, s) = a
  BY <1>2 DEF PageRemove
<1>4. Cleared(a, e, s).pte = a.pte /\ Cleared(a, e, s).free = a.free
  BY <1>3 DEF Cleared, TlbInvalidate, Mem
<1>5. WalkOk(Cleared(a, e, s), e, s) <=> (m.pte[e][PDX[s]] # NoPte \/ m.free \ {First(m)} # {})
  BY <1>2, <1>4 DEF WalkOk
<1>6. SamePage(a, e, s, First(m)) <=> NoPte.page = First(m)
  BY <1>2 DEF SamePage
<1> QED BY <1>1, <1>5, <1>6 DEF AllocOk, InsertOk

(* So passive_alloc succeeds after tlb_invalidate if it does before.       *)
LEMMA PassiveOkInvalidated ==
  ASSUME NEW m, NEW a, NEW e, NEW s, PassiveOk(m, e, s)
  PROVE  PassiveOk(TlbInvalidate(m, a, s), e, s)
<1>1. PICK n : n = TlbInvalidate(m, a, s)
  OBVIOUS
<1>2. n.pte = m.pte /\ n.free = m.free
  BY <1>1 DEF TlbInvalidate, Mem
<1>3. First(n) = First(m)
  BY <1>2 DEF First
<1>4. CASE m.pte[e][s] # NoPte
  BY <1>1, <1>2, <1>4 DEF PassiveOk
<1>5. CASE m.pte[e][s] = NoPte
  <2>1. AllocOk(m, e, s)
    BY <1>5 DEF PassiveOk
  <2>2. /\ m.free # {}
        /\ NoPte.page = First(m) \/ m.pte[e][PDX[s]] # NoPte \/ m.free \ {First(m)} # {}
    BY <1>5, <2>1, AllocOkEmpty
  <2>3. AllocOk(n, e, s)
    BY <1>2, <1>3, <1>5, <2>2, AllocOkEmpty
  <2> QED BY <1>1, <2>3 DEF PassiveOk
<1> QED BY <1>4, <1>5

(* The refill loads what the page table says.                              *)
LEMMA RefillStep ==
  ASSUME PagesOk, EnvType, NEW m, Good(m, {}), NEW e \in Env, env_status[e] # "FREE",
         NEW s \in Slot, Refill(m, e, s), SameEnvs
  PROVE  PagesOk' /\ pte' = m.pte
<1>1. PICK victim, new : /\ new = Entry(env_asid[e], s, Halves(m, e, s))
                         /\ Cardinality(m.tlb \ {victim}) < NTLB
                         /\ Commit(Mem(m.free, m.ref, m.mem, m.lost, m.pte,
                                       (m.tlb \ {victim}) \cup {new}))
  BY DEF Refill
<1>2. /\ page_free_list' = m.free /\ pp_ref' = m.ref /\ mem' = m.mem
      /\ lost' = m.lost /\ pte' = m.pte /\ tlb' = (m.tlb \ {victim}) \cup {new}
      /\ env_vars' = env_vars
  BY <1>1 DEF Commit, Mem, SameEnvs
<1>3. PageType'
  BY <1>2 DEF PagesOk, PageType, Good, IsMem
<1>4. RefCounts'
  BY <1>2 DEF Good, Counted, RefCounts, VarHolders
<1>5. PagesAccounted' /\ (page_free_list \cap lost = {})'
  BY <1>2 DEF Good, Accounted, PagesAccounted
<1>6. new.asid = env_asid[e] /\ new.pair = Pair(s) /\ new.lo = Halves(m, e, s)
  BY <1>1 DEF Entry
<1>7. ASSUME NEW x \in DOMAIN new.lo
      PROVE  x \in Slot /\ Pair(x) = Pair(s) /\ new.lo[x] = m.pte[e][x]
             /\ m.pte[e][x] \in Pte \cup {NoPte}
  <2>1. x \in Slot /\ Pair(x) = Pair(s) /\ new.lo[x] = m.pte[e][x]
    BY <1>6 DEF Halves
  <2> QED BY <2>1 DEF Good, IsMem
<1>8. m.tlb \subseteq tlb
  BY DEF Good
<1>9. TlbType'
  <2>1. IsFiniteSet(m.tlb \ {victim})
    BY <1>8, FS_Subset DEF PagesOk, TlbType
  <2>2. IsFiniteSet(tlb') /\ Cardinality(tlb') <= Cardinality(m.tlb \ {victim}) + 1
        /\ Cardinality(m.tlb \ {victim}) \in Nat /\ Cardinality(tlb') \in Nat
    <3>1. PICK T : T = m.tlb \ {victim}
      OBVIOUS
    <3>2. IsFiniteSet(T) /\ Cardinality(T) \in Nat
      BY <2>1, <3>1, FS_CardinalityType
    <3>3. /\ IsFiniteSet(T \cup {new})
          /\ Cardinality(T \cup {new}) = IF new \in T THEN Cardinality(T) ELSE Cardinality(T) + 1
      BY <3>2, FS_AddElement
    <3>4. Cardinality(T \cup {new}) \in Nat /\ Cardinality(T \cup {new}) <= Cardinality(T) + 1
      BY <3>2, <3>3
    <3> QED BY <1>2, <3>1, <3>2, <3>3, <3>4
  <2>3. Cardinality(tlb') <= NTLB
    <3>1. NTLB \in Nat
      BY MapAssumption
    <3>2. PICK i, j : i = Cardinality(m.tlb \ {victim}) /\ j = Cardinality(tlb')
      OBVIOUS
    <3>3. i \in Nat /\ j \in Nat /\ j <= i + 1 /\ i < NTLB
      BY <1>1, <2>2, <3>2
    <3>4. j <= NTLB
      BY <3>1, <3>3
    <3> QED BY <3>2, <3>4
  <2>4. ASSUME NEW t \in tlb'
        PROVE  /\ t.asid \in Env
               /\ \A x \in DOMAIN t.lo : x \in Slot /\ Pair(x) = t.pair /\ t.lo[x] \in Pte \cup {NoPte}
    <3>1. CASE t = new
      BY <1>6, <1>7, <3>1 DEF EnvType
    <3>2. CASE t \in tlb
      BY <3>2 DEF PagesOk, TlbType
    <3> QED BY <1>2, <1>8, <3>1, <3>2
  <2> QED BY <2>2, <2>3, <2>4 DEF TlbType
<1>10. TlbCoherent'
  <2> SUFFICES ASSUME NEW t \in tlb', NEW x \in DOMAIN t.lo, t.lo[x] # NoPte
               PROVE  \E f \in Env : env_status'[f] # "FREE" /\ env_asid'[f] = t.asid
                                     /\ pte'[f][x] = t.lo[x]
    BY DEF TlbCoherent
  <2>1. CASE t = new
    BY <1>2, <1>6, <1>7, <2>1 DEF SameEnvs
  <2>2. CASE t \in m.tlb
    BY <1>2, <2>2 DEF Good, Coherent, SameEnvs
  <2> QED BY <1>2, <2>1, <2>2
<1> QED BY <1>2, <1>3, <1>4, <1>5, <1>9, <1>10 DEF PagesOk

(* do_tlb_refill.                                                          *)
LEMMA DoTlbRefillKeeps ==
  ASSUME MapInv, NEW e \in Env, NEW s \in Slot, DoTlbRefill(e, s)
  PROVE  MapInv'
<1>1. env_status[e] = "RUNNABLE" /\ s \in Touches(e)
  BY DEF DoTlbRefill, Runs
<1>2. CASE ~ PassiveOk(M, e, s)
  BY <1>2, HaltsKeeps DEF DoTlbRefill
<1>3. CASE PassiveOk(M, e, s)
  <2>1. PICK i, n : i = TlbInvalidate(M, env_asid[e], s) /\ n = PassiveAlloc(i, e, s)
    OBVIOUS
  <2>2. Refill(n, e, s) /\ UNCHANGED <<envVars, panic, op, cow>> /\ UNCHANGED env_vars
    BY <1>3, <2>1 DEF DoTlbRefill
  <2>3. SameEnvs /\ UNCHANGED <<cow, env_status>>
    BY <2>2 DEF SameEnvs, envVars
  <2>4. s \in Slot \ {UVPT}
    <3>1. WritesTo(e) \subseteq Va
      BY Addresses DEF WritesTo
    <3> QED BY <1>1, <3>1, Addresses DEF Touches
  <2>5. Good(M, {}) /\ TlbType /\ PagesOk
    BY GoodNow DEF MapInv
  <2>6. Good(i, {}) /\ i.pte = pte /\ PassiveOk(i, e, s)
    BY <1>3, <2>1, <2>5, GoodInvalidate, PassiveOkInvalidated DEF M, TlbInvalidate, Mem
  <2>7. Good(n, {})
    BY <2>1, <2>4, <2>5, <2>6, GoodPassive
  <2>8. /\ Frame(i, n, e, s) /\ n.pte[e][s] # NoPte
        /\ i.pte[e][s] # NoPte => n = i
        /\ i.pte[e][s] = NoPte => n.pte[e][s].perm = IF s \in Va THEN {"D"} ELSE {}
    BY <2>1, <2>4, <2>5, <2>6, <2>7, GoodPassive
  <2>9. PagesOk' /\ pte' = n.pte
    BY <1>1, <2>2, <2>3, <2>5, <2>7, RefillStep DEF MapInv
  <2>10. RoutinesOk' /\ NoneStarts
    BY <2>2, RoutinesSame
  <2>11. PICK v \in Va : s \in Va => v = s
    BY Addresses
  <2>12. OnlyVa(e, v) /\ EntryAllowed(e, v)
         /\ \A x \in Va : pte[e][x] # NoPte => pte'[e][x] # NoPte
    <3>1. pte \in [Env -> [Slot -> Pte \cup {NoPte}]] /\ pte' \in [Env -> [Slot -> Pte \cup {NoPte}]]
      BY <2>7, <2>9 DEF MapInv, PagesOk, PageType, Good, IsMem
    <3>2. \A f \in Env : f # e => \A x \in Slot : pte'[f][x] = pte[f][x]
      BY <2>6, <2>8, <2>9 DEF Frame
    <3>3. \A f \in Env : f # e => pte'[f] = pte[f]
      BY <3>1, <3>2
    <3>4. \A x \in Va : x # s => pte'[e][x] = pte[e][x]
      BY <2>6, <2>8, <2>9, Addresses DEF Frame
    <3>5. OnlyVa(e, v)
      BY <2>11, <3>3, <3>4 DEF OnlyVa
    <3>6. EntryAllowed(e, v)
      BY <2>6, <2>8, <2>9, <2>11, <3>4 DEF EntryAllowed
    <3> QED BY <2>8, <2>9, <3>4, <3>5, <3>6
  <2>13. FreeEnvsEmpty' /\ AsidsDistinct' /\ EntryPerms' /\ FaultsHandled'
    <3>1. v \in Slot
      BY Addresses
    <3> QED BY <1>1, <2>3, <2>10, <2>12, <3>1, EntryStep
  <2>14. HandlerOk'
    <3>1. \A f \in Env : cow[f] # NoCow =>
            env_status'[f] = "RUNNABLE" /\ \A x \in Va : pte[f][x] # NoPte => pte'[f][x] # NoPte
      BY <2>3, <2>12 DEF MapInv, HandlerOk, OnlyVa
    <3> QED BY <2>3, <3>1, HandlersKeep
  <2> QED BY <2>9, <2>10, <2>13, <2>14, Together
<1> QED BY <1>2, <1>3

-----------------------------------------------------------------------------
(* env_alloc.                                                              *)

(* There is an ASID for every env that is free.                            *)
LEMMA AsidThere ==
  ASSUME EnvType, FreeEnvs # {}, NEW a, a = CHOOSE x \in FreeAsids : \A y \in FreeAsids : x <= y
  PROVE  a \in FreeAsids /\ a \in Env
<1> DEFINE Used == {e \in Env : env_status[e] # "FREE"}
           f == [e \in Used |-> env_asid[e]]
<1>1. FreeAsids # {}
  <2> SUFFICES ASSUME FreeAsids = {} PROVE FALSE
    OBVIOUS
  <2>1. IsFiniteSet(Env) /\ Cardinality(Env) = NENV /\ NENV \in Nat
    BY Finite, MapAssumption
  <2>2. Used \in SUBSET Env /\ IsFiniteSet(Used)
    BY <2>1, FS_Subset
  <2>3. \A x \in Env : \E e \in Used : env_asid[e] = x
    BY DEF FreeAsids
  <2>4. f \in Surjection(Used, Env)
    BY <2>3 DEF Surjection, EnvType
  <2> HIDE DEF f, Used
  <2>5. Cardinality(Env) <= Cardinality(Used)
    BY <2>2, <2>4, FS_Surjection
  <2>6. Cardinality(Used) <= Cardinality(Env) /\ Cardinality(Used) \in Nat
    BY <2>1, <2>2, FS_Subset, FS_CardinalityType
  <2>7. Cardinality(Used) = Cardinality(Env)
    BY <2>1, <2>5, <2>6
  <2>8. Used = Env
    BY <2>1, <2>2, <2>7, FS_Subset
  <2> QED BY <2>8 DEF Used, FreeEnvs
<1>2. FreeAsids \subseteq Env /\ FreeAsids \in SUBSET Nat
  BY MapAssumption DEF FreeAsids, Env
<1>3. a \in FreeAsids
  BY <1>1, <1>2, Least
<1> QED BY <1>2, <1>3

(* env_alloc takes a free env.                                             *)
LEMMA EnvThere ==
  ASSUME FreeEnvs # {}, NEW c, c = CHOOSE f \in FreeEnvs : \A g \in FreeEnvs : f <= g
  PROVE  c \in Env /\ env_status[c] = "FREE"
<1>1. FreeEnvs \in SUBSET Nat
  BY MapAssumption DEF FreeEnvs, Env
<1>2. c \in FreeEnvs
  BY <1>1, Least
<1> QED BY <1>2 DEF FreeEnvs

(* Two pages are there after the first of them is taken.                   *)
LEMMA TwoPages ==
  ASSUME NEW S, NEW x, IsFiniteSet(S), Cardinality(S) >= 2
  PROVE  S # {} /\ S \ {x} # {}
<1>3. PICK n : n = Cardinality(S) /\ n \in Nat
  BY FS_CardinalityType
<1>4. Cardinality(S \ {x}) = IF x \in S THEN n - 1 ELSE n
  BY <1>3, FS_RemoveElement
<1>1. Cardinality(S) \in Nat /\ Cardinality(S \ {x}) # 0 /\ Cardinality(S) # 0
  BY <1>3, <1>4
<1>2. Cardinality({}) = 0
  BY FS_EmptySet
<1> QED BY <1>1, <1>2

(* The page that counts for the variables of env c.                        *)
LEMMA VarsCount ==
  ASSUME env_vars \in [Env -> Pages \cup {0}], NEW c \in Env, env_vars[c] = 0,
         NEW q \in Pages, env_vars' = [env_vars EXCEPT ![c] = q], NEW p \in Pages
  PROVE  /\ p = q => Cardinality(VarHolders(p)') = Cardinality(VarHolders(p)) + 1
         /\ p # q => Cardinality(VarHolders(p)') = Cardinality(VarHolders(p))
<1>1. 0 \notin Pages
  BY DEF Pages
<1>2. c \notin VarHolders(p) /\ IsFiniteSet(VarHolders(p))
  BY <1>1, HoldersFinite DEF VarHolders
<1>3. p # q => VarHolders(p)' = VarHolders(p)
  BY <1>1 DEF VarHolders
<1>4. p = q => VarHolders(p)' = VarHolders(p) \cup {c}
  BY <1>1 DEF VarHolders
<1> QED BY <1>2, <1>3, <1>4, FS_AddElement

(* env_alloc: the directory and the page of variables are the only pages   *)
(* of the new env.                                                         *)
LEMMA EnvAllocStep ==
  ASSUME MapInv, NEW c \in Env, env_status[c] = "FREE", NEW parent \in Env,
         Cardinality(M.free) >= 2, FreeEnvs # {}, EnvAlloc(M, c, parent)
  PROVE  /\ PagesOk' /\ AsidsDistinct' /\ FreeEnvsEmpty'
         /\ \A f \in Env : \A v \in Va : pte'[f][v] = pte[f][v]
         /\ env_status' = [env_status EXCEPT ![c] = "NOT_RUNNABLE"]
         /\ env_parent' = [env_parent EXCEPT ![c] = parent]
         /\ env_asid' \in [Env -> Env]
<1>1. PICK m, a, q, none : /\ m = EnvSetupVm(M, c) /\ a = PageAlloc(m) /\ q = First(m) /\ none = {}
  OBVIOUS
<1>2. /\ Commit(SetRef(a, q, 1)) /\ env_vars' = [env_vars EXCEPT ![c] = q]
      /\ env_parent' = [env_parent EXCEPT ![c] = parent]
      /\ env_status' = [env_status EXCEPT ![c] = "NOT_RUNNABLE"]
  BY <1>1 DEF EnvAlloc, AllocVars
<1>3. PICK b : /\ b = CHOOSE x \in FreeAsids : \A y \in FreeAsids : x <= y
               /\ env_asid' = [env_asid EXCEPT ![c] = b]
  BY DEF EnvAlloc
<1>4. b \in FreeAsids /\ b \in Env
  BY <1>3, AsidThere DEF MapInv
<1>5. Good(M, none) /\ TlbType /\ PagesOk /\ M.pte = pte /\ UVPT \in Slot /\ none \in Perms
  BY <1>1, GoodNow, Addresses DEF MapInv, M, Mem, Perms
<1>6. env_vars[c] = 0 /\ \A s \in Slot : pte[c][s] = NoPte
  BY DEF MapInv, FreeEnvsEmpty
<1>7. M.free # {} /\ M.free \ {First(M)} # {}
  <2>1. IsFiniteSet(M.free)
    BY <1>5, Finite, FS_Subset DEF Good, IsMem
  <2> QED BY <2>1, TwoPages
<1>8. PICK d, r, held : d = PageAlloc(M) /\ r = First(M) /\ held = none \cup {r}
  OBVIOUS
<1>9. Good(d, held) /\ r \in Pages /\ d.pte = M.pte /\ d.free = M.free \ {r}
  BY <1>5, <1>7, <1>8, GoodAlloc
<1>10. m = Link(d, c, UVPT, r, none)
  BY <1>1, <1>8 DEF EnvSetupVm
<1>11. Good(m, none)
  <2>1. none = held \ {r} /\ r \in held
    BY <1>1, <1>8
  <2>2. d.pte[c][UVPT] = NoPte
    BY <1>5, <1>6, <1>9
  <2> QED BY <1>5, <1>9, <1>10, <2>1, <2>2, GoodLink
<1>12. /\ m.free = d.free
       /\ \A f \in Env : \A x \in Slot : f # c \/ x # UVPT => m.pte[f][x] = pte[f][x]
  <2>1. m.free = d.free /\ m.pte = [d.pte EXCEPT ![c][UVPT] = [page |-> r, perm |-> none]]
    BY <1>10 DEF Link, Mem
  <2>2. d.pte = pte /\ pte \in [Env -> [Slot -> Pte \cup {NoPte}]]
    BY <1>5, <1>9 DEF PagesOk, PageType
  <2> QED BY <2>1, <2>2
<1>13. m.free # {}
  BY <1>7, <1>8, <1>9, <1>12
<1>14. PICK taken : taken = none \cup {q}
  OBVIOUS
<1>15. Good(a, taken) /\ q \in Pages /\ a.pte = m.pte /\ a.ref = m.ref /\ m.ref[q] = 0 /\ taken = {q}
  BY <1>1, <1>11, <1>13, <1>14, GoodAlloc
<1>16. /\ page_free_list' = a.free /\ pp_ref' = [a.ref EXCEPT ![q] = 1] /\ mem' = a.mem
       /\ lost' = a.lost /\ pte' = a.pte /\ tlb' = a.tlb
  BY <1>2 DEF Commit, SetRef, Mem
<1>17. PageType'
  <2>1. a.ref \in [Pages -> Nat] /\ env_vars \in [Env -> Pages \cup {0}]
    BY <1>5, <1>15 DEF Good, IsMem, PagesOk, PageType
  <2>2. pp_ref' \in [Pages -> Nat] /\ env_vars' \in [Env -> Pages \cup {0}]
    BY <1>2, <1>15, <1>16, <2>1
  <2> QED BY <1>15, <1>16, <2>2 DEF PageType, Good, IsMem
<1>18. RefCounts'
  <2> SUFFICES ASSUME NEW p \in Pages
               PROVE  pp_ref'[p] = Cardinality(Holders(pte', p)) + Cardinality(VarHolders(p)')
    BY DEF RefCounts, VarHolders
  <2>1. a.ref[p] = Cardinality(Holders(a.pte, p)) + Cardinality(VarHolders(p))
        /\ a.ref \in [Pages -> Nat]
    BY <1>15 DEF Good, Counted, IsMem
  <2>2. /\ Cardinality(Holders(a.pte, p)) \in Nat /\ Cardinality(VarHolders(p)) \in Nat
    BY HoldersFinite
  <2>3. /\ p = q => Cardinality(VarHolders(p)') = Cardinality(VarHolders(p)) + 1
        /\ p # q => Cardinality(VarHolders(p)') = Cardinality(VarHolders(p))
    BY <1>2, <1>5, <1>6, <1>15, VarsCount DEF PagesOk, PageType
  <2>4. CASE p = q
    <3>1. a.ref[p] = 0 /\ pp_ref'[p] = 1
      BY <1>15, <1>16, <2>1, <2>4
    <3>2. Cardinality(Holders(a.pte, p)) = 0 /\ Cardinality(VarHolders(p)) = 0
      BY <2>1, <2>2, <3>1
    <3> QED BY <1>16, <2>3, <2>4, <3>1, <3>2
  <2>5. CASE p # q
    <3>1. pp_ref'[p] = a.ref[p]
      BY <1>16, <2>1, <2>5
    <3> QED BY <1>16, <2>1, <2>3, <2>5, <3>1
  <2> QED BY <2>4, <2>5
<1>19. PagesAccounted' /\ (page_free_list \cap lost = {})'
  <2>1. Accounted(a, {q}) /\ a.ref \in [Pages -> Nat]
    BY <1>15 DEF Good, IsMem
  <2> QED BY <1>15, <1>16, <2>1 DEF Accounted, PagesAccounted
<1>20. TlbType'
  <2>1. a.tlb \subseteq tlb /\ IsFiniteSet(tlb) /\ Cardinality(tlb) <= NTLB /\ NTLB \in Nat
    BY <1>5, <1>15, MapAssumption DEF Good, TlbType
  <2>2. IsFiniteSet(a.tlb) /\ Cardinality(a.tlb) <= Cardinality(tlb)
        /\ Cardinality(a.tlb) \in Nat /\ Cardinality(tlb) \in Nat
    BY <2>1, FS_Subset, FS_CardinalityType
  <2>3. Cardinality(a.tlb) <= NTLB
    BY <2>1, <2>2
  <2> QED BY <1>5, <1>16, <2>1, <2>2, <2>3 DEF TlbType
<1>21. /\ env_status \in [Env -> {"FREE", "NOT_RUNNABLE", "RUNNABLE", "ZOMBIE"}]
       /\ env_asid \in [Env -> Env]
  BY DEF MapInv, EnvType
<1>22. /\ \A f \in Env : f # c => env_status'[f] = env_status[f] /\ env_asid'[f] = env_asid[f]
       /\ env_asid'[c] = b /\ env_status'[c] # "FREE" /\ env_asid' \in [Env -> Env]
  BY <1>2, <1>3, <1>4, <1>21
<1>23. TlbCoherent'
  <2> SUFFICES ASSUME NEW t \in tlb', NEW x \in DOMAIN t.lo, t.lo[x] # NoPte
               PROVE  \E f \in Env : env_status'[f] # "FREE" /\ env_asid'[f] = t.asid
                                     /\ pte'[f][x] = t.lo[x]
    BY DEF TlbCoherent
  <2>1. t \in a.tlb
    BY <1>16
  <2>2. PICK f \in Env : env_status[f] # "FREE" /\ env_asid[f] = t.asid /\ a.pte[f][x] = t.lo[x]
    BY <1>15, <2>1 DEF Good, Coherent
  <2>3. f # c
    BY <2>2
  <2> QED BY <1>16, <1>22, <2>2, <2>3
<1>24. AsidsDistinct'
  <2>1. \A f \in Env : f # c /\ env_status'[f] # "FREE" => env_asid'[f] # b
    BY <1>4, <1>22 DEF FreeAsids
  <2> QED BY <1>22, <2>1 DEF MapInv, AsidsDistinct
<1>25. FreeEnvsEmpty'
  <2> SUFFICES ASSUME NEW f \in Env, env_status'[f] = "FREE"
               PROVE  env_vars'[f] = 0 /\ \A s \in Slot : pte'[f][s] = NoPte
    BY DEF FreeEnvsEmpty
  <2>1. f # c /\ env_status[f] = "FREE"
    BY <1>22
  <2>2. env_vars[f] = 0 /\ \A s \in Slot : pte[f][s] = NoPte
    BY <2>1 DEF MapInv, FreeEnvsEmpty
  <2>3. env_vars'[f] = env_vars[f]
    BY <1>2, <1>5, <2>1 DEF PagesOk, PageType
  <2> QED BY <1>12, <1>15, <1>16, <2>1, <2>2, <2>3
<1>26. \A f \in Env : \A v \in Va : pte'[f][v] = pte[f][v]
  BY <1>12, <1>15, <1>16, Addresses
<1> QED BY <1>2, <1>17, <1>18, <1>19, <1>20, <1>22, <1>23, <1>24, <1>25, <1>26 DEF PagesOk

(* The child of fork or spawn is new.                                      *)
LEMMA NewChild ==
  ASSUME MapInv, NEW e \in Env, InProgram(e), NEW c \in Env, env_status[c] = "FREE",
         Cardinality(M.free) >= 2, FreeEnvs # {}, EnvAlloc(M, c, e),
         NEW at, OpGoes(e, at, c, 0, {}), UNCHANGED <<panic, cow>>,
         \/ /\ at = "fork"
            /\ env_user_tlb_mod_entry' = [env_user_tlb_mod_entry EXCEPT ![e] = TRUE, ![c] = FALSE]
         \/ /\ at = "args"
            /\ env_user_tlb_mod_entry' = [env_user_tlb_mod_entry EXCEPT ![c] = FALSE]
  PROVE  MapInv'
<1>1. /\ PagesOk' /\ AsidsDistinct' /\ FreeEnvsEmpty'
      /\ \A f \in Env : \A v \in Va : pte'[f][v] = pte[f][v]
      /\ env_status' = [env_status EXCEPT ![c] = "NOT_RUNNABLE"]
      /\ env_parent' = [env_parent EXCEPT ![c] = e]
      /\ env_asid' \in [Env -> Env]
  BY EnvAllocStep
<1>2. env_status[e] = "RUNNABLE" /\ op[e].at = "user" /\ e # c /\ op[c].at = "user"
  BY DEF InProgram, InUser, Runs, Idle, MapInv, BuildsChild
<1>3. EnvType /\ RoutineType
  BY DEF MapInv
<1>4. EnvType'
  BY <1>1, <1>3 DEF EnvType
<1>5. /\ env_status'[c] = "NOT_RUNNABLE" /\ env_parent'[c] = e
      /\ \A f \in Env : f # c => env_status'[f] = env_status[f] /\ env_parent'[f] = env_parent[f]
  BY <1>1, <1>3 DEF EnvType
<1>6. RoutineType' /\ op'[e].at = at /\ op'[e].child = c
      /\ \A f \in Env : f # e => op'[f] = op[f]
  <2>1. at \in {"fork", "args"} /\ 0 \in 0 .. UTOP /\ {} \in Perms
    BY MapAssumption DEF Perms
  <2>2. op' = [op EXCEPT ![e] = [at |-> at, child |-> c, va |-> 0, perm |-> {}]]
    BY DEF OpGoes
  <2> QED BY <1>3, <2>1, <2>2 DEF RoutineType
<1>7. /\ \A f \in Env : f # c /\ env_user_tlb_mod_entry[f] => env_user_tlb_mod_entry'[f]
      /\ at = "fork" => env_user_tlb_mod_entry'[e]
  BY <1>2, <1>3 DEF EnvType
<1>8. BuildsChild'
  <2> SUFFICES ASSUME NEW f \in Env, op'[f].at # "user"
               PROVE  /\ env_status'[f] = "RUNNABLE" /\ op'[f].child \in Env
                      /\ env_status'[op'[f].child] = "NOT_RUNNABLE"
                      /\ env_parent'[op'[f].child] = f
    BY DEF BuildsChild
  <2>1. CASE f = e
    BY <1>2, <1>5, <1>6, <2>1
  <2>2. CASE f # e
    <3>1. /\ op'[f] = op[f] /\ env_status[f] = "RUNNABLE" /\ op[f].child \in Env
          /\ env_status[op[f].child] = "NOT_RUNNABLE" /\ env_parent[op[f].child] = f
      BY <1>6, <2>2 DEF MapInv, BuildsChild
    <3>2. f # c /\ op[f].child # c
      BY <3>1
    <3> QED BY <1>5, <3>1, <3>2
  <2> QED BY <2>1, <2>2
<1>9. ForkOk'
  <2> SUFFICES ASSUME NEW f \in Env
               PROVE  /\ op'[f].at \in {"fork", "dup"} => env_user_tlb_mod_entry'[f]
                      /\ op'[f].at = "dup" => /\ op'[f].va \in Va /\ "COW" \in op'[f].perm
                                              /\ "LIBRARY" \notin op'[f].perm
    BY DEF ForkOk
  <2>1. CASE f = e
    BY <1>6, <1>7, <2>1
  <2>2. CASE f # e
    BY <1>2, <1>6, <1>7, <2>2 DEF MapInv, ForkOk
  <2> QED BY <2>1, <2>2
<1>10. RoutinesOk'
  BY <1>4, <1>6, <1>8, <1>9 DEF RoutinesOk, MapInv
<1>11. HandlerOk'
  <2>1. \A f \in Env : cow[f] # NoCow => env_status[f] = "RUNNABLE"
    BY DEF MapInv, HandlerOk
  <2>2. \A f \in Env : cow[f] # NoCow => env_status'[f] = "RUNNABLE"
    BY <1>5, <2>1
  <2> QED BY <1>1, <2>2, HandlersKeep
<1>12. EntryPerms'
  BY <1>1 DEF MapInv, EntryPerms
<1>13. FaultsHandled'
  <2> SUFFICES ASSUME NEW f \in Env, Starts(f)', ~ env_user_tlb_mod_entry'[f],
                      NEW v \in Va, "COW" \in pte'[f][v].perm
               PROVE  FALSE
    BY DEF FaultsHandled
  <2>1. f # c
    <3>1. \A s \in Slot : pte[c][s] = NoPte
      BY DEF MapInv, FreeEnvsEmpty
    <3> QED BY <1>1, <3>1, Addresses DEF NoPte
  <2>2. Starts(f) /\ ~ env_user_tlb_mod_entry[f]
    BY <1>5, <1>6, <1>7, <2>1 DEF Starts
  <2> QED BY <1>1, <2>2 DEF MapInv, FaultsHandled
<1> QED BY <1>1, <1>10, <1>11, <1>12, <1>13, Together

(* fork's call of exofork.                                                 *)
LEMMA ForkCallKeeps ==
  ASSUME MapInv, NEW e \in Env, ForkCall(e)
  PROVE  MapInv'
<1>1. PICK c : c = CHOOSE f \in FreeEnvs : \A g \in FreeEnvs : f <= g
  OBVIOUS
<1>2. InProgram(e) /\ env_status[e] = "RUNNABLE"
  BY DEF ForkCall, InProgram, InUser, Runs
<1>3. CASE ExoforkHalts(M) /\ Halts("page_free: pp_ref is not 0")
  BY <1>3, HaltsKeeps
<1>4. CASE UserPanics(e) /\ UNCHANGED pageVars
  BY <1>2, <1>4, ExitKeeps DEF Exit
<1>5. CASE /\ ExoforkOk(M) /\ EnvAlloc(M, c, e)
           /\ env_user_tlb_mod_entry' = [env_user_tlb_mod_entry EXCEPT ![e] = TRUE, ![c] = FALSE]
           /\ OpGoes(e, "fork", c, 0, {}) /\ UNCHANGED <<panic, cow>>
  <2>1. FreeEnvs # {} /\ Cardinality(M.free) >= 2
    BY <1>5 DEF ExoforkOk
  <2>2. c \in Env /\ env_status[c] = "FREE"
    BY <1>1, <2>1, EnvThere
  <2> QED BY <1>2, <1>5, <2>1, <2>2, NewChild
<1> QED BY <1>1, <1>3, <1>4, <1>5 DEF ForkCall

(* spawn's call of exofork; when it fails, spawn unmaps what init_stack    *)
(* had at UTEMP.                                                           *)
LEMMA SpawnCallKeeps ==
  ASSUME MapInv, NEW e \in Env, SpawnCall(e)
  PROVE  MapInv'
<1>1. PICK c, perm : c = (CHOOSE f \in FreeEnvs : \A g \in FreeEnvs : f <= g) /\ perm = {"D"}
  OBVIOUS
<1>2. InProgram(e) /\ env_status[e] = "RUNNABLE" /\ cow[e] = NoCow
  BY DEF SpawnCall, InProgram, InUser, Runs
<1>3. CASE ExoforkHalts(M) /\ Halts("page_free: pp_ref is not 0")
  BY <1>3, HaltsKeeps
<1>5. CASE /\ ExoforkOk(M) /\ EnvAlloc(M, c, e)
           /\ env_user_tlb_mod_entry' = [env_user_tlb_mod_entry EXCEPT ![c] = FALSE]
           /\ OpGoes(e, "args", c, 0, {}) /\ UNCHANGED <<panic, cow>>
  <2>1. FreeEnvs # {} /\ Cardinality(M.free) >= 2
    BY <1>5 DEF ExoforkOk
  <2>2. c \in Env /\ env_status[c] = "FREE"
    BY <1>1, <2>1, EnvThere
  <2> QED BY <1>2, <1>5, <2>1, <2>2, NewChild
<1>4. CASE Commit(PageRemove(SysMemAlloc(M, e, UTEMP, perm), e, UTEMP)) /\ Abandon(e)
  <2>1. PICK m, n : m = SysMemAlloc(M, e, UTEMP, perm) /\ n = PageRemove(m, e, UTEMP)
    OBVIOUS
  <2>2. Commit(n) /\ UNCHANGED <<env_vars, envVars, panic, cow>>
    BY <1>4, <2>1 DEF Abandon
  <2>3. RoutinesOk' /\ NoneStarts
    BY <1>4, RoutineEnds
  <2>4. SameEnvs /\ UNCHANGED <<cow, env_status>>
    BY <2>2 DEF SameEnvs, envVars
  <2>5. Good(M, {}) /\ TlbType /\ PagesOk /\ M.pte = pte
    BY GoodNow DEF MapInv, M, Mem
  <2>6. /\ UTEMP \in Va /\ UTEMP \in Slot /\ UTEMP \in Slot \ {UVPT} /\ perm \in Perms
    BY <1>1, Addresses DEF Perms
  <2>7. Good(m, {})
    BY <2>1, <2>5, <2>6, GoodMemAlloc
  <2>8. Frame(M, m, e, UTEMP)
    BY <2>1, <2>5, <2>6, <2>7, GoodMemAlloc
  <2>9. Good(n, {}) /\ n.pte = [m.pte EXCEPT ![e][UTEMP] = NoPte]
    <3>2. UTEMP \in Slot /\ TlbType /\ Good(m, {})
      BY <2>5, <2>6, <2>7
    <3>1. /\ Good(PageRemove(m, e, UTEMP), {})
          /\ PageRemove(m, e, UTEMP).pte = [m.pte EXCEPT ![e][UTEMP] = NoPte]
      BY <3>2, GoodRemove
    <3> QED BY <2>1, <3>1
  <2>10. PagesOk'
    BY <2>2, <2>4, <2>5, <2>9, GoodCommit
  <2>11. m.pte \in [Env -> [Slot -> Pte \cup {NoPte}]] /\ pte' = n.pte
    BY <2>2, <2>7 DEF Commit, Good, IsMem
  <2>12. Frame(M, n, e, UTEMP) /\ pte'[e][UTEMP] = NoPte
    BY <2>6, <2>8, <2>9, <2>11 DEF Frame
  <2>13. OnlyVa(e, UTEMP)
    BY <2>2, <2>5, <2>6, <2>9, <2>12, FrameOnlyVa
  <2>14. FreeEnvsEmpty' /\ AsidsDistinct' /\ EntryPerms' /\ FaultsHandled'
    <3>1. EntryAllowed(e, UTEMP)
      BY <2>12 DEF EntryAllowed
    <3> QED BY <1>2, <2>3, <2>4, <2>6, <2>13, <3>1, EntryStep
  <2>15. HandlerOk'
    BY <1>2, <2>4, <2>6, <2>13, UserEntryStep
  <2> QED BY <2>3, <2>10, <2>14, <2>15, Together
<1> QED BY <1>1, <1>3, <1>4, <1>5 DEF SpawnCall

-----------------------------------------------------------------------------
(* env_free.                                                               *)

(* The references of env z are among those that are counted.               *)
LEMMA RefsCounted ==
  ASSUME PagesOk, NEW z \in Env, NEW p \in Pages,
         pte' = [pte EXCEPT ![z] = [s \in Slot |-> NoPte]], env_vars' = [env_vars EXCEPT ![z] = 0]
  PROVE  /\ RefsOf(z, p) \in Nat
         /\ pp_ref[p] - RefsOf(z, p) = Cardinality(Holders(pte', p)) + Cardinality(VarHolders(p)')
         /\ pp_ref[p] - RefsOf(z, p) \in Nat
<1>1. PICK H, R, V : H = Holders(pte, p) /\ R = {z} \X Refs(z, p) /\ V = VarHolders(p)
  OBVIOUS
<1>2. 0 \notin Pages /\ NoPte.page = 0
  BY DEF Pages, NoPte
<1>3. /\ pte \in [Env -> [Slot -> Pte \cup {NoPte}]] /\ env_vars \in [Env -> Pages \cup {0}]
  BY DEF PagesOk, PageType
<1>4. IsFiniteSet(H) /\ IsFiniteSet(V) /\ IsFiniteSet(Refs(z, p))
  BY <1>1, HoldersFinite, Finite, FS_Subset DEF Refs
<1>5. R \subseteq H
  BY <1>1 DEF Refs, Holders
<1>6. Holders(pte', p) = H \ R
  <2>1. \A x \in Env \X Slot : x \in Holders(pte', p) <=> x \in H /\ x[1] # z
    BY <1>1, <1>2, <1>3 DEF Holders
  <2>2. \A x \in H : x \in R <=> x[1] = z
    BY <1>1 DEF Holders, Refs
  <2>3. Holders(pte', p) \subseteq Env \X Slot /\ H \subseteq Env \X Slot
    BY <1>1 DEF Holders
  <2> QED BY <2>1, <2>2, <2>3
<1>7. VarHolders(p)' = V \ {z}
  BY <1>1, <1>2, <1>3 DEF VarHolders
<1>8. Cardinality(R) = Cardinality(Refs(z, p)) /\ Cardinality(R) \in Nat /\ IsFiniteSet(R)
  <2>1. IsFiniteSet({z}) /\ Cardinality({z}) = 1
    BY FS_Singleton
  <2>2. IsFiniteSet(R) /\ Cardinality(R) = Cardinality({z}) * Cardinality(Refs(z, p))
    BY <1>1, <1>4, <2>1, FS_Product
  <2>3. Cardinality(Refs(z, p)) \in Nat
    BY <1>4, FS_CardinalityType
  <2> QED BY <2>1, <2>2, <2>3
<1>9. Cardinality(H \ R) = Cardinality(H) - Cardinality(R)
  <2>1. H \cap R = R
    BY <1>5
  <2> QED BY <1>4, <2>1, FS_Difference
<1>10. Cardinality(V \ {z}) = Cardinality(V) - (IF env_vars[z] = p THEN 1 ELSE 0)
  <2>1. z \in V <=> env_vars[z] = p
    BY <1>1 DEF VarHolders
  <2>2. Cardinality(V) \in Nat
    BY <1>4, FS_CardinalityType
  <2>3. Cardinality(V \ {z}) = IF z \in V THEN Cardinality(V) - 1 ELSE Cardinality(V)
    BY <1>4, FS_RemoveElement
  <2> QED BY <2>1, <2>2, <2>3
<1>11. pp_ref[p] = Cardinality(H) + Cardinality(V)
  BY <1>1 DEF PagesOk, RefCounts, VarHolders
<1>12. Cardinality(H \ R) \in Nat /\ Cardinality(V \ {z}) \in Nat
  <2>1. IsFiniteSet(H \ R) /\ IsFiniteSet(V \ {z})
    BY <1>4, FS_Difference, FS_RemoveElement
  <2> QED BY <2>1, FS_CardinalityType
<1>13. PICK h, r, v, k : /\ h = Cardinality(H) /\ r = Cardinality(R) /\ v = Cardinality(V)
                         /\ k = IF env_vars[z] = p THEN 1 ELSE 0
  OBVIOUS
<1>14. h \in Nat /\ v \in Nat /\ r \in Nat /\ k \in Nat
  BY <1>4, <1>8, <1>13, FS_CardinalityType
<1>15. RefsOf(z, p) = r + k
  BY <1>8, <1>13 DEF RefsOf
<1>16. Cardinality(Holders(pte', p)) = h - r /\ Cardinality(VarHolders(p)') = v - k
       /\ h - r \in Nat /\ v - k \in Nat
  BY <1>6, <1>7, <1>9, <1>10, <1>12, <1>13
<1>17. pp_ref[p] = h + v
  BY <1>11, <1>13
<1>18. (h + v) - (r + k) = (h - r) + (v - k) /\ (h - r) + (v - k) \in Nat /\ r + k \in Nat
  BY <1>14, <1>16
<1> QED BY <1>15, <1>16, <1>17, <1>18

(* env_free: the pages of z that nobody else holds are free.               *)
LEMMA EnvFreedStep ==
  ASSUME MapInv, NEW z \in Env, env_status[z] = "ZOMBIE", Commit(EnvFreed(z)),
         env_vars' = [env_vars EXCEPT ![z] = 0], env_status' = [env_status EXCEPT ![z] = "FREE"],
         UNCHANGED env_asid
  PROVE  /\ PagesOk' /\ AsidsDistinct' /\ FreeEnvsEmpty'
         /\ \A f \in Env : f # z => pte'[f] = pte[f]
         /\ \A s \in Slot : pte'[z][s] = NoPte
<1>1. /\ page_free_list' = page_free_list \cup Unreferenced(z)
      /\ pp_ref' = [p \in Pages |-> pp_ref[p] - RefsOf(z, p)]
      /\ mem' = [p \in Pages |-> IF p \in Unreferenced(z) THEN Junk ELSE mem[p]]
      /\ lost' = lost
      /\ pte' = [pte EXCEPT ![z] = [s \in Slot |-> NoPte]]
      /\ tlb' = {t \in tlb : ~ FreesTlbOf(z, t)}
  BY DEF Commit, EnvFreed, Mem
<1>2. /\ pte \in [Env -> [Slot -> Pte \cup {NoPte}]] /\ env_vars \in [Env -> Pages \cup {0}]
      /\ PagesOk /\ pp_ref \in [Pages -> Nat] /\ mem \in [Pages -> Words]
      /\ page_free_list \subseteq Pages /\ lost \subseteq Pages
  BY DEF MapInv, PagesOk, PageType
<1>3. \A f \in Env : f # z => pte'[f] = pte[f]
  BY <1>1, <1>2
<1>4. \A s \in Slot : pte'[z][s] = NoPte
  BY <1>1, <1>2
<1>5. ASSUME NEW p \in Pages
      PROVE  /\ RefsOf(z, p) \in Nat /\ pp_ref'[p] = pp_ref[p] - RefsOf(z, p)
             /\ pp_ref'[p] = Cardinality(Holders(pte', p)) + Cardinality(VarHolders(p)')
             /\ pp_ref'[p] \in Nat
  BY <1>1, <1>2, RefsCounted
<1>6. PageType'
  <2>1. pp_ref' \in [Pages -> Nat]
    BY <1>1, <1>5
  <2>2. mem' \in [Pages -> Words]
    BY <1>1, <1>2, MapAssumption
  <2>3. pte' \in [Env -> [Slot -> Pte \cup {NoPte}]] /\ env_vars' \in [Env -> Pages \cup {0}]
    BY <1>1, <1>2
  <2>4. page_free_list' \subseteq Pages /\ lost' \subseteq Pages
    BY <1>1, <1>2 DEF Unreferenced
  <2> QED BY <2>1, <2>2, <2>3, <2>4 DEF PageType
<1>7. RefCounts'
  BY <1>5 DEF RefCounts, VarHolders
<1>8. PagesAccounted' /\ (page_free_list \cap lost = {})'
  <2>1. \A p \in Pages : pp_ref[p] = 0 <=> (p \in page_free_list \/ p \in lost)
    BY <1>2 DEF PagesOk, PagesAccounted
  <2>2. \A p \in Pages : p \in Unreferenced(z) <=> RefsOf(z, p) > 0 /\ pp_ref[p] = RefsOf(z, p)
    BY DEF Unreferenced
  <2>3. ASSUME NEW p \in Pages PROVE pp_ref'[p] = 0 <=> (p \in page_free_list' \/ p \in lost')
    <3>1. PICK r, k : r = RefsOf(z, p) /\ k = pp_ref[p] /\ r \in Nat /\ k \in Nat
      BY <1>2, <1>5
    <3>2. pp_ref'[p] = k - r /\ k - r \in Nat
      BY <1>5, <3>1
    <3>3. k - r = 0 <=> (k = 0 \/ (r > 0 /\ k = r))
      BY <3>1, <3>2
    <3> QED BY <1>1, <2>1, <2>2, <3>1, <3>2, <3>3
  <2>4. Unreferenced(z) \cap lost = {}
    <3> SUFFICES ASSUME NEW p \in Unreferenced(z), p \in lost PROVE FALSE
      OBVIOUS
    <3>1. p \in Pages /\ pp_ref[p] = 0
      BY <1>2, <2>1
    <3> QED BY <2>2, <3>1
  <2> QED BY <1>1, <1>2, <2>3, <2>4 DEF PagesAccounted, PagesOk
<1>9. TlbType'
  <2>1. tlb' \subseteq tlb /\ IsFiniteSet(tlb) /\ Cardinality(tlb) <= NTLB /\ NTLB \in Nat
    BY <1>1, <1>2, MapAssumption DEF PagesOk, TlbType
  <2>2. IsFiniteSet(tlb') /\ Cardinality(tlb') <= Cardinality(tlb)
        /\ Cardinality(tlb') \in Nat /\ Cardinality(tlb) \in Nat
    BY <2>1, FS_Subset, FS_CardinalityType
  <2>3. Cardinality(tlb') <= NTLB
    BY <2>1, <2>2
  <2> QED BY <1>2, <2>1, <2>2, <2>3 DEF TlbType, PagesOk
<1>10. \A f \in Env : f # z => env_status'[f] = env_status[f]
  BY DEF MapInv, EnvType
<1>11. TlbCoherent'
  <2> SUFFICES ASSUME NEW t \in tlb', NEW x \in DOMAIN t.lo, t.lo[x] # NoPte
               PROVE  \E f \in Env : env_status'[f] # "FREE" /\ env_asid'[f] = t.asid
                                     /\ pte'[f][x] = t.lo[x]
    BY DEF TlbCoherent
  <2>1. t \in tlb /\ ~ FreesTlbOf(z, t)
    BY <1>1
  <2>2. x \in Slot /\ Pair(x) = t.pair
    BY <1>2, <2>1 DEF PagesOk, TlbType
  <2>3. PICK f \in Env : env_status[f] # "FREE" /\ env_asid[f] = t.asid /\ pte[f][x] = t.lo[x]
    BY <1>2, <2>1 DEF PagesOk, TlbCoherent
  <2>4. f # z
    BY <2>1, <2>2, <2>3 DEF FreesTlbOf
  <2> QED BY <1>3, <1>10, <2>3, <2>4
<1>12. env_status'[z] = "FREE" /\ env_vars'[z] = 0
       /\ \A f \in Env : f # z => env_vars'[f] = env_vars[f]
  BY <1>2 DEF MapInv, EnvType
<1>13. AsidsDistinct'
  <2>1. \A f \in Env : env_status'[f] # "FREE" => env_status[f] # "FREE"
    BY <1>10, <1>12
  <2> QED BY <2>1 DEF MapInv, AsidsDistinct
<1>14. FreeEnvsEmpty'
  BY <1>3, <1>4, <1>10, <1>12 DEF MapInv, FreeEnvsEmpty
<1> QED BY <1>3, <1>4, <1>6, <1>7, <1>8, <1>9, <1>11, <1>13, <1>14 DEF PagesOk

(* wait's reaping of a zombie.                                             *)
LEMMA ReapKeeps ==
  ASSUME MapInv, NEW e \in Env, NEW z \in Env, Reap(e, z)
  PROVE  MapInv'
<1>1. /\ env_status[z] = "ZOMBIE" /\ Commit(EnvFreed(z))
      /\ env_vars' = [env_vars EXCEPT ![z] = 0] /\ env_status' = [env_status EXCEPT ![z] = "FREE"]
      /\ env_parent' = [x \in Env |-> IF x = z \/ env_parent[x] = z THEN NoEnv ELSE env_parent[x]]
      /\ UNCHANGED <<env_asid, env_user_tlb_mod_entry, panic, op, cow>>
  BY DEF Reap
<1>2. /\ PagesOk' /\ AsidsDistinct' /\ FreeEnvsEmpty'
      /\ \A f \in Env : f # z => pte'[f] = pte[f]
      /\ \A s \in Slot : pte'[z][s] = NoPte
  BY <1>1, EnvFreedStep
<1>3. EnvType /\ RoutineType
  BY DEF MapInv
<1>4. /\ env_status'[z] = "FREE" /\ \A f \in Env : f # z => env_status'[f] = env_status[f]
      /\ \A f \in Env : f # z /\ env_parent[f] # z => env_parent'[f] = env_parent[f]
  BY <1>1, <1>3 DEF EnvType
<1>5. RoutinesOk'
  <2>1. EnvType' /\ RoutineType'
    BY <1>1, <1>3 DEF EnvType, RoutineType, MapInv
  <2>2. BuildsChild'
    <3> SUFFICES ASSUME NEW f \in Env, op[f].at # "user"
                 PROVE  /\ env_status'[f] = "RUNNABLE" /\ op[f].child \in Env
                        /\ env_status'[op[f].child] = "NOT_RUNNABLE"
                        /\ env_parent'[op[f].child] = f
      BY <1>1 DEF BuildsChild
    <3>1. /\ env_status[f] = "RUNNABLE" /\ op[f].child \in Env
          /\ env_status[op[f].child] = "NOT_RUNNABLE" /\ env_parent[op[f].child] = f
      BY DEF MapInv, BuildsChild
    <3>2. f # z /\ op[f].child # z
      BY <1>1, <3>1
    <3> QED BY <1>4, <3>1, <3>2
  <2>3. ForkOk'
    BY <1>1 DEF MapInv, ForkOk
  <2> QED BY <2>1, <2>2, <2>3 DEF RoutinesOk
<1>6. HandlerOk'
  <2>1. \A f \in Env : cow[f] # NoCow => f # z /\ env_status[f] = "RUNNABLE"
    BY <1>1 DEF MapInv, HandlerOk
  <2>2. \A f \in Env : cow[f] # NoCow => env_status'[f] = "RUNNABLE" /\ pte'[f] = pte[f]
    BY <1>2, <1>4, <2>1
  <2> QED BY <1>1, <2>2, HandlersKeep
<1>7. \A f \in Env : \A v \in Va : pte'[f][v] = NoPte \/ pte'[f][v] = pte[f][v]
  BY <1>2, Addresses
<1>8. EntryPerms'
  BY <1>7 DEF NoPte, MapInv, EntryPerms
<1>9. FaultsHandled'
  <2>1. \A f \in Env : Starts(f)' => Starts(f)
    BY <1>1, <1>4 DEF Starts
  <2> QED BY <1>1, <1>7, <2>1 DEF NoPte, MapInv, FaultsHandled
<1> QED BY <1>2, <1>5, <1>6, <1>8, <1>9, Together

-----------------------------------------------------------------------------
(* The initial state.                                                      *)

(* What the first env starts with: a directory, a page table and a stack.  *)
LEMMA BootEntries ==
  ASSUME NEW s \in Slot
  PROVE  /\ PDX[USTACK] \in Slot /\ USTACK \in Slot /\ UVPT \in Slot
         /\ UVPT # PDX[USTACK] /\ UVPT # USTACK /\ USTACK # PDX[USTACK]
         /\ s = UVPT => BootPte(s) = [page |-> 1, perm |-> {}]
         /\ s = PDX[USTACK] => BootPte(s) = [page |-> 3, perm |-> {}]
         /\ s = USTACK => BootPte(s) = [page |-> 4, perm |-> {"D"}]
         /\ s # UVPT /\ s # PDX[USTACK] /\ s # USTACK => BootPte(s) = NoPte
         /\ s \in Va => BootPte(s) = NoPte \/ BootPte(s).perm = {"D"}
<1>1. USTACK \in Va /\ PDX[USTACK] \in Tables
  BY MapAssumption
<1>2. UVPT \notin Tables /\ UVPT \notin Va /\ Va \cap Tables = {} /\ Va \subseteq Slot /\ Tables \subseteq Slot
      /\ UVPT \in Slot
  BY Addresses
<1>3. UVPT # PDX[USTACK] /\ UVPT # USTACK /\ USTACK # PDX[USTACK]
  BY <1>1, <1>2
<1>4. /\ s = UVPT => BootPte(s) = [page |-> 1, perm |-> {}]
      /\ s = PDX[USTACK] => BootPte(s) = [page |-> 3, perm |-> {}]
      /\ s = USTACK => BootPte(s) = [page |-> 4, perm |-> {"D"}]
      /\ s # UVPT /\ s # PDX[USTACK] /\ s # USTACK => BootPte(s) = NoPte
  BY <1>3 DEF BootPte, NoPte
<1>5. s \in Va => BootPte(s) = NoPte \/ BootPte(s).perm = {"D"}
  BY <1>1, <1>2, <1>4
<1> QED BY <1>1, <1>2, <1>3, <1>4, <1>5

(* MapInv holds initially.                                                 *)
LEMMA InitMapInv == Init => MapInv
<1> SUFFICES ASSUME Init PROVE MapInv
  OBVIOUS
<1>1. PICK n \in Sizes : page_free_list = 5 .. n /\ lost = n + 1 .. NPAGE
  BY DEF Init
<1>2. n \in 4 .. NPAGE /\ NPAGE \in Nat /\ NENV \in Nat \ {0} /\ NTLB \in Nat /\ 0 \in Env
      /\ 0 \in Words /\ Junk \in Words
  BY MapAssumption DEF Env
<1>3. {1, 2, 3, 4} \subseteq Pages /\ 0 \notin Pages
  BY <1>2 DEF Pages
<1>4. /\ pp_ref = [p \in Pages |-> IF p <= 4 THEN 1 ELSE 0]
      /\ mem = [p \in Pages |-> IF p <= 4 THEN 0 ELSE Junk]
      /\ tlb = {}
      /\ pte = [e \in Env |-> [s \in Slot |-> IF e = 0 THEN BootPte(s) ELSE NoPte]]
      /\ env_vars = [e \in Env |-> IF e = 0 THEN 2 ELSE 0]
      /\ env_status = [e \in Env |-> IF e = 0 THEN "RUNNABLE" ELSE "FREE"]
      /\ env_parent = [e \in Env |-> NoEnv]
      /\ env_asid = [e \in Env |-> 0]
      /\ env_user_tlb_mod_entry = [e \in Env |-> FALSE]
      /\ panic = "none"
      /\ op = [e \in Env |-> Idle] /\ cow = [e \in Env |-> NoCow]
  BY DEF Init
<1>5. ASSUME NEW s \in Slot PROVE BootPte(s) \in Pte \cup {NoPte}
  BY <1>3, BootEntries DEF Pte, Perms
<1>6. PageType
  <2>1. page_free_list \subseteq Pages /\ lost \subseteq Pages
    BY <1>1, <1>2 DEF Pages
  <2>2. pp_ref \in [Pages -> Nat] /\ mem \in [Pages -> Words]
    BY <1>2, <1>4
  <2>3. pte \in [Env -> [Slot -> Pte \cup {NoPte}]] /\ env_vars \in [Env -> Pages \cup {0}]
    BY <1>3, <1>4, <1>5
  <2> QED BY <2>1, <2>2, <2>3 DEF PageType
<1>7. TlbType /\ TlbCoherent
  <2>1. IsFiniteSet({}) /\ Cardinality({}) = 0
    BY FS_EmptySet
  <2> QED BY <1>2, <1>4, <2>1 DEF TlbType, TlbCoherent
<1>8. RefCounts
  <2> SUFFICES ASSUME NEW p \in Pages
               PROVE  pp_ref[p] = Cardinality(Holders(pte, p)) + Cardinality(VarHolders(p))
    BY DEF RefCounts, VarHolders
  <2>1. \A x : IsFiniteSet({x}) /\ Cardinality({x}) = 1
    BY FS_Singleton
  <2>2. Cardinality({}) = 0
    BY FS_EmptySet
  <2>3. p \in Nat /\ p # 0
    BY DEF Pages
  <2>4. IF p = 2 THEN VarHolders(p) = {0} ELSE VarHolders(p) = {}
    BY <1>2, <1>4, <2>3 DEF VarHolders
  <2>5. ASSUME NEW x \in Env \X Slot
        PROVE  x \in Holders(pte, p) <=> x[1] = 0 /\ BootPte(x[2]).page = p
    BY <1>4, <2>3 DEF Holders, NoPte
  <2>6. ASSUME NEW s \in Slot
        PROVE  BootPte(s).page = p <=> \/ p = 1 /\ s = UVPT
                                       \/ p = 3 /\ s = PDX[USTACK]
                                       \/ p = 4 /\ s = USTACK
    BY <2>3, BootEntries DEF NoPte
  <2>7. \A x \in Env \X Slot : x = <<x[1], x[2]>> /\ x[1] \in Env /\ x[2] \in Slot
    OBVIOUS
  <2>8. Holders(pte, p) \subseteq Env \X Slot
    BY DEF Holders
  <2>9. UVPT \in Slot /\ PDX[USTACK] \in Slot /\ USTACK \in Slot
    BY BootEntries, Addresses
  <2>10. p = 1 => Holders(pte, p) = {<<0, UVPT>>}
    BY <1>2, <2>5, <2>6, <2>7, <2>8, <2>9
  <2>11. p = 3 => Holders(pte, p) = {<<0, PDX[USTACK]>>}
    BY <1>2, <2>5, <2>6, <2>7, <2>8, <2>9
  <2>12. p = 4 => Holders(pte, p) = {<<0, USTACK>>}
    BY <1>2, <2>5, <2>6, <2>7, <2>8, <2>9
  <2>13. p # 1 /\ p # 3 /\ p # 4 => Holders(pte, p) = {}
    BY <2>5, <2>6, <2>7, <2>8
  <2>14. pp_ref[p] = IF p \in {1, 2, 3, 4} THEN 1 ELSE 0
    BY <1>4, <2>3
  <2>15. CASE p \in {1, 3, 4}
    <3>1. PICK x : Holders(pte, p) = {x}
      BY <2>10, <2>11, <2>12, <2>15
    <3>2. Cardinality(Holders(pte, p)) = 1
      BY <2>1, <3>1
    <3>3. Cardinality(VarHolders(p)) = 0 /\ pp_ref[p] = 1
      BY <2>2, <2>4, <2>14, <2>15
    <3> QED BY <3>2, <3>3
  <2>16. CASE p \notin {1, 3, 4}
    BY <2>1, <2>2, <2>4, <2>13, <2>14, <2>16
  <2> QED BY <2>15, <2>16
<1>9. PagesAccounted /\ page_free_list \cap lost = {}
  <2>1. ASSUME NEW p \in Pages PROVE pp_ref[p] = 0 <=> (p \in page_free_list \/ p \in lost)
    BY <1>1, <1>2, <1>4 DEF Pages
  <2>2. page_free_list \cap lost = {}
    BY <1>1, <1>2
  <2> QED BY <2>1, <2>2 DEF PagesAccounted
<1>10. EnvType /\ RoutineType
  <2>1. Idle \in [at : RoutineSteps,
                     child : Env \cup {NoEnv}, va : 0 .. UTOP, perm : Perms]
        /\ NoCow \in [at : {"no", "alloc", "copy", "map", "unmap"}, va : Va, perm : Perms]
    BY MapAssumption DEF Idle, RoutineSteps, NoCow, Perms, Va
  <2> QED BY <1>2, <1>4, <2>1 DEF EnvType, RoutineType, RoutineSteps
<1>11. FreeEnvsEmpty /\ AsidsDistinct /\ BuildsChild /\ HandlerOk /\ ForkOk
  BY <1>4 DEF FreeEnvsEmpty, AsidsDistinct, BuildsChild, HandlerOk, ForkOk, Idle
<1>12. ASSUME NEW e \in Env, NEW v \in Va PROVE pte[e][v] = NoPte \/ pte[e][v].perm = {"D"}
  BY <1>4, BootEntries, Addresses
<1>13. EntryPerms /\ FaultsHandled
  BY <1>12 DEF EntryPerms, FaultsHandled, NoPte
<1> QED BY <1>6, <1>7, <1>8, <1>9, <1>10, <1>11, <1>13 DEF MapInv, PagesOk

-----------------------------------------------------------------------------
(* The theorems.                                                           *)

(* Every step of the kernel, the library and the programs keeps MapInv.    *)
LEMMA NextMapInv == MapInv /\ [Next]_vars => MapInv'
<1> SUFFICES ASSUME MapInv, [Next]_vars PROVE MapInv'
  OBVIOUS
<1>1. CASE UNCHANGED vars
  <2>1. /\ UNCHANGED <<page_free_list, pp_ref, mem, lost, pte, env_vars, tlb, op, cow, panic>>
        /\ UNCHANGED <<envVars, panic, op, cow>> /\ UNCHANGED <<env_status, env_asid>>
    BY <1>1 DEF vars, pageVars, envVars
  <2>2. RoutinesOk' /\ NoneStarts
    BY <2>1, RoutinesSame
  <2>3. SameEnvs /\ Commit(M) /\ Good(M, {}) /\ PagesOk
    BY <2>1, GoodNow DEF SameEnvs, Commit, M, Mem, MapInv
  <2>4. PagesOk'
    BY <2>3, GoodCommit
  <2>5. FreeEnvsEmpty' /\ AsidsDistinct' /\ EntryPerms' /\ FaultsHandled'
    BY <2>1, <2>2, <2>3, NoEntryStep
  <2>6. HandlerOk'
    <3>1. \A f \in Env : cow[f] # NoCow => env_status'[f] = "RUNNABLE" /\ pte'[f] = pte[f]
      BY <2>1 DEF MapInv, HandlerOk
    <3> QED BY <2>1, <3>1, HandlersKeep
  <2> QED BY <2>2, <2>4, <2>5, <2>6, Together
<1>2. ASSUME NEW e \in Env, NEW s \in Slot, DoTlbRefill(e, s) PROVE MapInv'
  BY <1>2, DoTlbRefillKeeps
<1>3. ASSUME NEW e \in Env, NEW s \in UserVa, NEW w \in Words, Store(e, s, w) PROVE MapInv'
  BY <1>3, StoreKeeps
<1>4. ASSUME NEW e \in Env, (\E s \in UserVa : DoTlbMod(e, s)) \/ WriteWindow(e) PROVE MapInv'
  BY <1>4, DoTlbModKeeps
<1>5. ASSUME NEW e \in Env, NEW s \in UserVa, NEW perm \in UserPerms, MemAlloc(e, s, perm) PROVE MapInv'
  BY <1>5, MemAllocKeeps
<1>6. ASSUME NEW e \in Env, NEW s \in UserVa, MemUnmap(e, s) PROVE MapInv'
  BY <1>6, MemUnmapKeeps
<1>7. ASSUME NEW e \in Env, CowAlloc(e) \/ CowCopy(e) \/ CowMap(e) \/ CowUnmap(e) PROVE MapInv'
  BY <1>7, CowAllocKeeps, CowCopyKeeps, CowMapKeeps, CowUnmapKeeps
<1>8. ASSUME NEW e \in Env, ForkCall(e) \/ DupChild(e) \/ DupParent(e) \/ ForkDone(e) PROVE MapInv'
  BY <1>8, ForkCallKeeps, DupChildKeeps, DupParentKeeps, StartKeeps
<1>9. ASSUME NEW e \in Env, SpawnCall(e) \/ InitStackAlloc(e, Argv) \/ InitStackMap(e) \/ InitStackUnmap(e)
      PROVE MapInv'
  BY <1>9, SpawnCallKeeps, InitStackAllocKeeps, InitStackMapKeeps, InitStackUnmapKeeps
<1>10. ASSUME NEW e \in Env, ShareLibrary(e) \/ SpawnDone(e) PROVE MapInv'
  BY <1>10, ShareLibraryKeeps, StartKeeps
<1>11. ASSUME NEW e \in Env, Exit(e) PROVE MapInv'
  BY <1>11, ExitKeeps
<1>12. ASSUME NEW e \in Env, NEW z \in Env, Reap(e, z) PROVE MapInv'
  BY <1>12, ReapKeeps
<1>13. ASSUME NEW e \in Env, BadAccess(e) PROVE MapInv'
  BY <1>13, HaltsKeeps DEF BadAccess
<1>14. ASSUME NEW e \in Env, LoadFails(e) PROVE MapInv'
  BY <1>14, LoadFailsKeeps
<1>15. ASSUME NEW e \in Env, NEW perm \in SegmentPerms, LoadAlloc(e, perm) PROVE MapInv'
  BY <1>15, LoadAllocKeeps
<1>16. ASSUME NEW e \in Env, LoadFill(e, Argv) \/ LoadUnmap(e) PROVE MapInv'
  BY <1>16, LoadFillKeeps, LoadUnmapKeeps
<1> QED BY <1>1, <1>2, <1>3, <1>4, <1>5, <1>6, <1>7, <1>8, <1>9, <1>10, <1>11, <1>12,
           <1>13, <1>14, <1>15, <1>16 DEF Next

(* The inductive invariant of memory: counters, free list, page tables and *)
(* TLB agree, whatever system calls, faults, forks, spawns and exits the   *)
(* envs make.                                                              *)
THEOREM MapInvariant == Spec => []MapInv
<1>1. Init => MapInv
  BY InitMapInv
<1>2. MapInv /\ [Next]_vars => MapInv'
  BY NextMapInv
<1> QED BY <1>1, <1>2, PTL DEF Spec

(* page_insert, page_remove, fork, cow_entry, spawn and env_free count     *)
(* every reference to a page, for any number of pages and envs.            *)
THEOREM CountersAreExact == Spec => []RefCounts
<1>1. MapInv => RefCounts
  BY DEF MapInv, PagesOk
<1> QED BY <1>1, MapInvariant, PTL

(* A page is free exactly when nobody refers to it and sys_mem_alloc has   *)
(* not lost it.                                                            *)
THEOREM NoPageIsFreeInUse == Spec => []PagesAccounted
<1>1. MapInv => PagesAccounted
  BY DEF MapInv, PagesOk
<1> QED BY <1>1, MapInvariant, PTL

(* Whatever an entry of the TLB says is what the page table of the env     *)
(* with its ASID says.                                                     *)
THEOREM TlbIsCoherent == Spec => []TlbCoherent
<1>1. MapInv => TlbCoherent
  BY DEF MapInv, PagesOk
<1> QED BY <1>1, MapInvariant, PTL

(* An env that runs without the handler of fork has no copy-on-write page, *)
(* whoever built its address space: the kernel's panic for want of a       *)
(* handler is for pages that the program had no right to write.            *)
THEOREM CowIsHandled == Spec => []CowHasHandler
<1>1. MapInv => CowHasHandler
  BY DEF MapInv, FaultsHandled, CowHasHandler, Starts
<1> QED BY <1>1, MapInvariant, PTL
=============================================================================
