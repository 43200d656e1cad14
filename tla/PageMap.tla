------------------------------ MODULE PageMap -------------------------------
(***************************************************************************)
(* Physical pages, two-level page tables and the TLB (kern/pmap.c,         *)
(* kern/tlbex.c, kern/tlb_asm.S), the memory system calls, and the user    *)
(* routines that build address spaces out of them: fork with duppage, the  *)
(* copy-on-write handler cow_entry, and spawn.                             *)
(*                                                                         *)
(* A system call or an exception runs with interrupts disabled and is one  *)
(* action; user code is interrupted between any two of them.  An address   *)
(* is the number of a page in address order.  The page directory maps      *)
(* itself at UVPT, so the page tables are pages of the address space too:  *)
(* the pte of address d, UTOP <= d < UVPT, is the directory entry of page  *)
(* table d, and the pte of UVPT is the directory.  PDX[s] is the page      *)
(* table that holds the pte of s.                                          *)
(***************************************************************************)
EXTENDS Integers, FiniteSets

CONSTANTS
  NENV,      \* number of env slots and of ASIDs
  NPAGE,     \* physical pages that are free after boot, at most
  Sizes,     \* how many of them there are
  NTLB,      \* number of TLB entries
  Words,     \* what a page may contain; 0 is a page of zeros
  Argv,      \* the word spawn puts into the pages of its child
  Junk,      \* the word a page is left with when it is freed
  UTEMP, UCOW, USTACK, UXSTACK,   \* the pages with these names
  UTEXT,     \* the page of a program's segments
  UTOP, UVPT,
  PDX

Env == 0 .. NENV - 1
Pages == 1 .. NPAGE
Va == 0 .. UTOP - 1                \* user addresses
Tables == UTOP .. UVPT - 1         \* page tables, seen through UVPT
Slot == 0 .. UVPT

ASSUME MapAssumption ==
  /\ NENV \in Nat \ {0} /\ NPAGE \in Nat /\ Sizes \subseteq 4 .. NPAGE /\ NTLB \in Nat \ {0}
  /\ {0, Junk, Argv} \subseteq Words
  /\ UTOP \in Nat /\ UVPT \in Nat /\ UTOP < UVPT
  /\ {UTEMP, UCOW, USTACK, UXSTACK} \subseteq Va
  /\ UTEMP < USTACK /\ UCOW < USTACK /\ USTACK < UXSTACK /\ UTEMP # UCOW
  /\ UTEXT \in 0 .. USTACK - 1 /\ UTEXT \notin {UTEMP, UCOW}
  /\ PDX \in [Slot -> Tables \cup {UVPT}]
  /\ \A v \in Va : PDX[v] \in Tables
  /\ \A d \in Tables \cup {UVPT} : PDX[d] = UVPT

(* The addresses programs use themselves: not the two of the library, nor  *)
(* those from USTACKTOP on.                                                *)
UserVa == (0 .. USTACK) \ {UTEMP, UCOW}

Perms == SUBSET {"D", "COW", "LIBRARY"}
NoPte == [page |-> 0, perm |-> {}]        \* PTE_V is clear
Pte == [page : Pages, perm : Perms]

VARIABLES
  page_free_list,  \* the pages on the free list
  pp_ref,          \* the reference counts
  mem,             \* contents of the physical pages
  lost,            \* pages that no counter, table or list holds any more
  pte,             \* the page tables of each env
  env_vars,        \* the page of its variables, or 0
  tlb,             \* the entries of the TLB
  env_status, env_parent, env_asid,
  env_user_tlb_mod_entry,
  panic,           \* why the kernel halted, or "none"
  op,              \* the library routine an env is in
  cow              \* its copy-on-write handler

pageVars == <<page_free_list, pp_ref, mem, lost, pte, env_vars, tlb>>
envVars == <<env_status, env_parent, env_asid, env_user_tlb_mod_entry>>
vars == <<pageVars, envVars, panic, op, cow>>

NoEnv == NENV
Idle == [at |-> "user", child |-> NoEnv, va |-> 0, perm |-> {}]
NoCow == [at |-> "no", va |-> 0, perm |-> {}]

-----------------------------------------------------------------------------
(* The memory functions work on a record m of the kernel's memory state, so *)
(* that a system call can be written as the composition of its calls.      *)

Mem(free, ref, words, gone, tables, entries) ==
  [free |-> free, ref |-> ref, mem |-> words, lost |-> gone, pte |-> tables, tlb |-> entries]

M == Mem(page_free_list, pp_ref, mem, lost, pte, tlb)

Commit(m) ==
  /\ page_free_list' = m.free /\ pp_ref' = m.ref /\ mem' = m.mem
  /\ lost' = m.lost /\ pte' = m.pte /\ tlb' = m.tlb

(* An entry of the TLB holds the ptes of an even page and of the odd page  *)
(* after it, for one ASID.                                                 *)
Pair(s) == s \div 2
Entry(asid, s, lo) == [asid |-> asid, pair |-> Pair(s), lo |-> lo]

TlbInvalidate(m, asid, s) ==
  Mem(m.free, m.ref, m.mem, m.lost, m.pte,
      {t \in m.tlb : ~ (t.asid = asid /\ t.pair = Pair(s))})

(* Pages are taken from and put at the head of the free list.  Free pages  *)
(* are alike, so the list is a set and its head the least of them.         *)
First(m) == CHOOSE p \in m.free : \A q \in m.free : p <= q

PageAlloc(m) ==
  Mem(m.free \ {First(m)}, m.ref, [m.mem EXCEPT ![First(m)] = 0], m.lost, m.pte, m.tlb)

PageDecrefBug(m, p) ==
  Mem(m.free, [m.ref EXCEPT ![p] = @ - 1], m.mem, m.lost, m.pte, m.tlb)

PageDecref(m, p) ==
  Mem(IF m.ref[p] = 1 THEN m.free \cup {p} ELSE m.free,
      [m.ref EXCEPT ![p] = @ - 1],
      [m.mem EXCEPT ![p] = IF m.ref[p] = 1 THEN Junk ELSE @],
      m.lost, m.pte, m.tlb)

SetPte(m, e, s, h) ==
  Mem(m.free, m.ref, m.mem, m.lost, [m.pte EXCEPT ![e][s] = h], m.tlb)

PageRemove(m, e, s) ==
  IF m.pte[e][s] = NoPte THEN m
  ELSE TlbInvalidate(SetPte(PageDecref(m, m.pte[e][s].page), e, s, NoPte), env_asid[e], s)

(* pgdir_walk with create set: the page table of s is there, or there is a *)
(* page for it.                                                            *)
WalkOk(m, e, s) == m.pte[e][PDX[s]] # NoPte \/ m.free # {}

Link(m, e, s, p, perm) ==
  Mem(m.free, [m.ref EXCEPT ![p] = @ + 1], m.mem, m.lost,
      [m.pte EXCEPT ![e][s] = [page |-> p, perm |-> perm]], m.tlb)

PgdirWalk(m, e, s) ==
  IF m.pte[e][PDX[s]] # NoPte THEN m
  ELSE Link(PageAlloc(m), e, PDX[s], First(m), {})

(* page_insert.  Cleared is the state before pgdir_walk is called again.   *)
SamePage(m, e, s, p) == m.pte[e][s].page = p
Cleared(m, e, s) == TlbInvalidate(PageRemove(m, e, s), env_asid[e], s)

InsertOk(m, e, s, p) == SamePage(m, e, s, p) \/ WalkOk(Cleared(m, e, s), e, s)

PageInsertCountsBug(m, e, s, p, perm) ==
  IF SamePage(m, e, s, p) THEN Link(TlbInvalidate(m, env_asid[e], s), e, s, p, perm)
  ELSE IF WalkOk(Cleared(m, e, s), e, s)
  THEN Link(PgdirWalk(Cleared(m, e, s), e, s), e, s, p, perm)
  ELSE Cleared(m, e, s)

PageInsertStaleBug(m, e, s, p, perm) ==
  IF SamePage(m, e, s, p) THEN SetPte(m, e, s, [page |-> p, perm |-> perm])
  ELSE IF WalkOk(Cleared(m, e, s), e, s)
  THEN Link(PgdirWalk(Cleared(m, e, s), e, s), e, s, p, perm)
  ELSE Cleared(m, e, s)

PageInsert(m, e, s, p, perm) ==
  IF SamePage(m, e, s, p)
  THEN SetPte(TlbInvalidate(m, env_asid[e], s), e, s, [page |-> p, perm |-> perm])
  ELSE IF WalkOk(Cleared(m, e, s), e, s)
  THEN Link(PgdirWalk(Cleared(m, e, s), e, s), e, s, p, perm)
  ELSE Cleared(m, e, s)

(* sys_mem_alloc: the page is not given back when page_insert fails.       *)
AllocOk(m, e, s) == m.free # {} /\ InsertOk(PageAlloc(m), e, s, First(m))

Loses(m, p) == Mem(m.free, m.ref, m.mem, m.lost \cup {p}, m.pte, m.tlb)

SysMemAlloc(m, e, s, perm) ==
  IF m.free = {} THEN m
  ELSE IF AllocOk(m, e, s) THEN PageInsert(PageAlloc(m), e, s, First(m), perm)
  ELSE Loses(PageInsert(PageAlloc(m), e, s, First(m), perm), First(m))

(* sys_mem_map, from s of env e to t of env f.                             *)
MapOk(m, e, s, f, t) == m.pte[e][s] # NoPte /\ InsertOk(m, f, t, m.pte[e][s].page)

SysMemMap(m, e, s, f, t, perm) ==
  IF m.pte[e][s] = NoPte THEN m ELSE PageInsert(m, f, t, m.pte[e][s].page, perm)

(* passive_alloc is sys_mem_alloc without an error return: the kernel      *)
(* panics instead.  A page table is mapped read-only.  The addresses it    *)
(* refuses are not among the slots; BadAccess is a program's use of one.   *)
PassiveOk(m, e, s) == m.pte[e][s] # NoPte \/ AllocOk(m, e, s)

PassiveAlloc(m, e, s) ==
  IF m.pte[e][s] # NoPte THEN m
  ELSE SysMemAlloc(m, e, s, IF s \in Va THEN {"D"} ELSE {})

-----------------------------------------------------------------------------
(* env_alloc and env_free, as far as memory and ASIDs go; EnvSched has the *)
(* rest.                                                                   *)

FreeEnvs == {e \in Env : env_status[e] = "FREE"}
FreeAsids == {a \in Env : \A e \in Env : env_status[e] # "FREE" => env_asid[e] # a}

(* The directory is the first page, the table of variables the second; if  *)
(* that one is missing, page_free's assertion fails on the directory.      *)
ExoforkOk(m) == FreeEnvs # {} /\ Cardinality(m.free) >= 2
ExoforkHalts(m) == FreeEnvs # {} /\ Cardinality(m.free) = 1

EnvSetupVm(m, c) == Link(PageAlloc(m), c, UVPT, First(m), {})

SetRef(m, p, n) == Mem(m.free, [m.ref EXCEPT ![p] = n], m.mem, m.lost, m.pte, m.tlb)

AllocVars(m, c) ==
  /\ Commit(SetRef(PageAlloc(m), First(m), 1))
  /\ env_vars' = [env_vars EXCEPT ![c] = First(m)]

EnvAlloc(m, c, parent) ==
  /\ AllocVars(EnvSetupVm(m, c), c)
  /\ env_asid' = [env_asid EXCEPT ![c] = CHOOSE a \in FreeAsids : \A b \in FreeAsids : a <= b]
  /\ env_parent' = [env_parent EXCEPT ![c] = parent]
  /\ env_status' = [env_status EXCEPT ![c] = "NOT_RUNNABLE"]

(* env_free unmaps every user page, every page table and the directory,    *)
(* and invalidates what the TLB has of each.                               *)
Refs(e, p) == {s \in Slot : pte[e][s].page = p}
RefsOf(e, p) == Cardinality(Refs(e, p)) + IF env_vars[e] = p THEN 1 ELSE 0

FreesTlbOfBug(e, t) ==
  /\ t.asid = env_asid[e]
  /\ \E s \in Va : pte[e][s] # NoPte /\ t.pair = Pair(s)

FreesTlbOf(e, t) ==
  /\ t.asid = env_asid[e]
  /\ \E s \in Slot : pte[e][s] # NoPte /\ t.pair = Pair(s)

Unreferenced(e) == {p \in Pages : RefsOf(e, p) > 0 /\ pp_ref[p] = RefsOf(e, p)}

EnvFreed(e) ==
  Mem(page_free_list \cup Unreferenced(e),
      [p \in Pages |-> pp_ref[p] - RefsOf(e, p)],
      [p \in Pages |-> IF p \in Unreferenced(e) THEN Junk ELSE mem[p]],
      lost,
      [pte EXCEPT ![e] = [s \in Slot |-> NoPte]],
      {t \in tlb : ~ FreesTlbOf(e, t)})

-----------------------------------------------------------------------------
(* Exceptions.                                                             *)

Runs(e) == panic = "none" /\ env_status[e] = "RUNNABLE"
InUser(e) == Runs(e) /\ cow[e] = NoCow
InProgram(e) == InUser(e) /\ op[e] = Idle

Halts(why) ==
  /\ panic' = why
  /\ UNCHANGED <<pageVars, envVars, op, cow>>

(* _user_panic: exit(1) makes the env a zombie, which keeps its memory     *)
(* until it is reaped.                                                     *)
UserPanics(e) ==
  /\ env_status' = [env_status EXCEPT ![e] = "ZOMBIE"]
  /\ op' = [op EXCEPT ![e] = Idle]
  /\ cow' = [cow EXCEPT ![e] = NoCow]
  /\ UNCHANGED <<env_parent, env_asid, env_user_tlb_mod_entry, panic>>

(* What the TLB says about address s of env e.                             *)
Hits(e, s) ==
  {t.lo[s] : t \in {u \in tlb : u.asid = env_asid[e] /\ s \in DOMAIN u.lo /\ u.lo[s] # NoPte}}

(* _do_tlb_refill and tlbwr: both halves of the pair are loaded, over any  *)
(* entry of the TLB.                                                       *)
Halves(m, e, s) == [h \in {x \in Slot : Pair(x) = Pair(s)} |-> m.pte[e][h]]

Refill(m, e, s) ==
  \E victim \in m.tlb \cup {NoPte} :
    /\ Cardinality(m.tlb \ {victim}) < NTLB
    /\ Commit(Mem(m.free, m.ref, m.mem, m.lost, m.pte,
                  (m.tlb \ {victim}) \cup {Entry(env_asid[e], s, Halves(m, e, s))}))

(* A program uses its pages; fork and spawn write their stack and, as      *)
(* cow_entry does at its beginning, read vpt, that is the page tables.     *)
WritesTo(e) == IF op[e] = Idle THEN UserVa ELSE {USTACK}
ReadsVpt(e) ==
  cow[e].at = "alloc" \/ (cow[e] = NoCow /\ op[e].at \in {"fork", "share"})
Touches(e) ==
  {v \in WritesTo(e) : cow[e] = NoCow} \cup {d \in Tables : ReadsVpt(e) /\ pte[e][d] # NoPte}

DoTlbRefill(e, s) ==
  /\ Runs(e) /\ s \in Touches(e)
  /\ Hits(e, s) = {}
  /\ IF PassiveOk(M, e, s)
     THEN /\ Refill(PassiveAlloc(TlbInvalidate(M, env_asid[e], s), e, s), e, s)
          /\ UNCHANGED <<env_vars, envVars, panic, op, cow>>
     ELSE Halts("passive_alloc: out of memory")

Store(e, s, w) ==
  /\ InUser(e) /\ s \in WritesTo(e)
  /\ \E h \in Hits(e, s) : "D" \in h.perm /\ mem' = [mem EXCEPT ![h.page] = w]
  /\ UNCHANGED <<page_free_list, pp_ref, lost, pte, env_vars, tlb, envVars, panic, op, cow>>

(* do_tlb_mod, on a write to page s with the permissions perm: it saves    *)
(* the registers on the exception stack, which the kernel may have to      *)
(* allocate, and enters cow_entry, if fork has registered it.  cow_entry   *)
(* reads the permissions from vpt.                                         *)
TlbMod(e, s, perm) ==
  IF ~ PassiveOk(M, e, UXSTACK) THEN Halts("passive_alloc: out of memory")
  ELSE IF ~ env_user_tlb_mod_entry[e] THEN Halts("TLB Mod but no user handler registered")
  ELSE /\ Commit(PassiveAlloc(M, e, UXSTACK))
       /\ UNCHANGED env_vars
       /\ IF "COW" \in perm
          THEN /\ cow' = [cow EXCEPT ![e] = [at |-> "alloc", va |-> s,
                            perm |-> (perm \ {"COW"}) \cup {"D"}]]
               /\ UNCHANGED <<envVars, panic, op>>
          ELSE UserPanics(e)

DoTlbMod(e, s) ==
  /\ InUser(e) /\ s \in WritesTo(e)
  /\ \E h \in Hits(e, s) : "D" \notin h.perm
  /\ TlbMod(e, s, pte[e][s].perm)

(* A program writes to what every env has mapped read-only: the page       *)
(* tables, its directory, and the windows UENVS and UPAGES.                *)
WriteWindow(e) == InProgram(e) /\ TlbMod(e, UVPT, {})

(* A program uses an address that passive_alloc refuses.                   *)
Refused == {"address too low", "invalid memory", "envs zone", "pages zone", "kernel address"}

BadAccess(e) == InProgram(e) /\ \E zone \in Refused : Halts(zone)

-----------------------------------------------------------------------------
(* cow_entry: allocate a page at UCOW, copy, map it over the page, unmap   *)
(* UCOW.  It ignores errors: when the allocation failed, the copy faults   *)
(* and the kernel allocates the page, or panics.                           *)

CowGoes(e, at) ==
  cow' = [cow EXCEPT ![e] = [at |-> at, va |-> cow[e].va, perm |-> cow[e].perm]]
CowLeaves == UNCHANGED <<env_vars, envVars, panic, op>>

CowAlloc(e) ==
  /\ Runs(e) /\ cow[e].at = "alloc"
  /\ Commit(SysMemAlloc(M, e, UCOW, cow[e].perm))
  /\ CowGoes(e, "copy") /\ CowLeaves

Writes(m, p, w) == Mem(m.free, m.ref, [m.mem EXCEPT ![p] = w], m.lost, m.pte, m.tlb)

Copied(m, e) == Writes(m, m.pte[e][UCOW].page, m.mem[m.pte[e][cow[e].va].page])

CowCopy(e) ==
  /\ Runs(e) /\ cow[e].at = "copy"
  /\ IF PassiveOk(M, e, UCOW)
     THEN Commit(Copied(PassiveAlloc(M, e, UCOW), e)) /\ CowGoes(e, "map") /\ CowLeaves
     ELSE Halts("passive_alloc: out of memory")

CowMap(e) ==
  /\ Runs(e) /\ cow[e].at = "map"
  /\ Commit(SysMemMap(M, e, UCOW, e, cow[e].va, cow[e].perm))
  /\ CowGoes(e, "unmap") /\ CowLeaves

CowUnmap(e) ==
  /\ Runs(e) /\ cow[e].at = "unmap"
  /\ Commit(PageRemove(M, e, UCOW))
  /\ cow' = [cow EXCEPT ![e] = NoCow] /\ CowLeaves

-----------------------------------------------------------------------------
(* The memory system calls of programs: the library maps shared pages with *)
(* PTE_LIBRARY, programs private ones without.                             *)

UserPerms == {{"D"}, {"D", "LIBRARY"}}
UserLeaves == UNCHANGED <<env_vars, envVars, panic, op, cow>>

MemAlloc(e, s, perm) ==
  /\ InProgram(e)
  /\ Commit(SysMemAlloc(M, e, s, perm))
  /\ UserLeaves

MemUnmap(e, s) ==
  /\ InProgram(e) /\ pte[e][s] # NoPte
  /\ Commit(PageRemove(M, e, s))
  /\ UserLeaves

-----------------------------------------------------------------------------
(* fork.  Its own frame has just been written, so the stack is writable;   *)
(* it stays so until duppage comes to it.  exofork's error is taken for a  *)
(* child, and the first duppage panics on it.                              *)

OpGoes(e, at, child, v, perm) ==
  op' = [op EXCEPT ![e] = [at |-> at, child |-> child, va |-> v, perm |-> perm]]

ForkCall(e) ==
  /\ InProgram(e) /\ "D" \in pte[e][USTACK].perm
  /\ LET c == CHOOSE f \in FreeEnvs : \A g \in FreeEnvs : f <= g
     IN  \/ /\ ExoforkOk(M)
            /\ EnvAlloc(M, c, e)
            /\ env_user_tlb_mod_entry' = [env_user_tlb_mod_entry EXCEPT ![e] = TRUE, ![c] = FALSE]
            /\ OpGoes(e, "fork", c, 0, {})
            /\ UNCHANGED <<panic, cow>>
         \/ ExoforkHalts(M) /\ Halts("page_free: pp_ref is not 0")
         \/ /\ ~ ExoforkOk(M) /\ ~ ExoforkHalts(M)
            /\ UserPanics(e) /\ UNCHANGED pageVars

(* The scan of vpd and vpt, up to USTACKTOP.                               *)
ToVisit(e, limit) == {v \in op[e].va .. limit : pte[e][v] # NoPte}
NextVisit(e, limit) == CHOOSE v \in ToVisit(e, limit) : \A x \in ToVisit(e, limit) : v <= x

(* duppage: a private writable page becomes copy-on-write, in the child    *)
(* and then, by a second system call, in the parent.                       *)
IsPrivate(perm) == "D" \in perm /\ "LIBRARY" \notin perm /\ "COW" \notin perm
ChildPermBug(perm) == IF IsPrivate(perm) THEN perm \cup {"COW"} ELSE perm
ChildPerm(perm) == IF IsPrivate(perm) THEN (perm \ {"D"}) \cup {"COW"} ELSE perm

DupChild(e) ==
  /\ InUser(e) /\ op[e].at = "fork" /\ ToVisit(e, USTACK) # {}
  /\ LET v == NextVisit(e, USTACK)
         c == op[e].child
         perm == pte[e][v].perm
     IN  /\ Commit(SysMemMap(M, e, v, c, v, ChildPerm(perm)))
         /\ UNCHANGED env_vars
         /\ IF MapOk(M, e, v, c, v)
            THEN /\ IF IsPrivate(perm) THEN OpGoes(e, "dup", c, v, ChildPerm(perm))
                                       ELSE OpGoes(e, "fork", c, v + 1, {})
                 /\ UNCHANGED <<envVars, panic, cow>>
            ELSE UserPanics(e)

DupParentBug(e) ==
  /\ InUser(e) /\ op[e].at = "dup"
  /\ OpGoes(e, "fork", op[e].child, op[e].va + 1, {})
  /\ UNCHANGED <<pageVars, envVars, panic, cow>>

DupParent(e) ==
  /\ InUser(e) /\ op[e].at = "dup"
  /\ Commit(SysMemMap(M, e, op[e].va, e, op[e].va, op[e].perm))
  /\ OpGoes(e, "fork", op[e].child, op[e].va + 1, {})
  /\ UNCHANGED <<env_vars, envVars, panic, cow>>

StartChild(e) ==
  /\ env_status' = [env_status EXCEPT ![op[e].child] = "RUNNABLE"]
  /\ op' = [op EXCEPT ![e] = Idle]
  /\ UNCHANGED <<pageVars, env_parent, env_asid, panic, cow>>

ForkDoneBug(e) ==
  /\ InUser(e) /\ op[e].at = "fork" /\ ToVisit(e, USTACK) = {}
  /\ UNCHANGED env_user_tlb_mod_entry
  /\ StartChild(e)

ForkDone(e) ==
  /\ InUser(e) /\ op[e].at = "fork" /\ ToVisit(e, USTACK) = {}
  /\ env_user_tlb_mod_entry' = [env_user_tlb_mod_entry EXCEPT ![op[e].child] = TRUE]
  /\ StartChild(e)

-----------------------------------------------------------------------------
(* spawn: init_stack fills a page at UTEMP and hands it to the child; the  *)
(* segments of the program are loaded, of which there is one page here;    *)
(* then the pages with PTE_LIBRARY are shared.  When a call fails the      *)
(* child is abandoned: sys_env_destroy refuses it, as it is no zombie.     *)

Abandon(e) == op' = [op EXCEPT ![e] = Idle] /\ UNCHANGED <<env_vars, envVars, panic, cow>>

SpawnCall(e) ==
  /\ InProgram(e)
  /\ LET c == CHOOSE f \in FreeEnvs : \A g \in FreeEnvs : f <= g
     IN  \/ /\ ExoforkOk(M)
            /\ EnvAlloc(M, c, e)
            /\ env_user_tlb_mod_entry' = [env_user_tlb_mod_entry EXCEPT ![c] = FALSE]
            /\ OpGoes(e, "args", c, 0, {})
            /\ UNCHANGED <<panic, cow>>
         \/ ExoforkHalts(M) /\ Halts("page_free: pp_ref is not 0")
         \/ /\ ~ ExoforkOk(M) /\ ~ ExoforkHalts(M)
            /\ Commit(PageRemove(SysMemAlloc(M, e, UTEMP, {"D"}), e, UTEMP))
            /\ Abandon(e)

Written(m, e, w) == Writes(m, m.pte[e][UTEMP].page, w)

InitStackAlloc(e, w) ==
  /\ InUser(e) /\ op[e].at = "args"
  /\ IF AllocOk(M, e, UTEMP)
     THEN /\ Commit(Written(SysMemAlloc(M, e, UTEMP, {"D"}), e, w))
          /\ OpGoes(e, "give", op[e].child, 0, {})
          /\ UNCHANGED <<env_vars, envVars, panic, cow>>
     ELSE Commit(SysMemAlloc(M, e, UTEMP, {"D"})) /\ Abandon(e)

InitStackMap(e) ==
  /\ InUser(e) /\ op[e].at = "give"
  /\ LET c == op[e].child
     IN  IF MapOk(M, e, UTEMP, c, USTACK)
         THEN /\ Commit(SysMemMap(M, e, UTEMP, c, USTACK, {"D"}))
              /\ OpGoes(e, "given", c, 0, {})
              /\ UNCHANGED <<env_vars, envVars, panic, cow>>
         ELSE /\ Commit(PageRemove(SysMemMap(M, e, UTEMP, c, USTACK, {"D"}), e, UTEMP))
              /\ Abandon(e)

InitStackUnmap(e) ==
  /\ InUser(e) /\ op[e].at = "given"
  /\ Commit(PageRemove(M, e, UTEMP))
  /\ OpGoes(e, "load", op[e].child, 0, {})
  /\ UNCHANGED <<env_vars, envVars, panic, cow>>

(* spawn_mapper: the page is allocated in the child, with PTE_D if its     *)
(* segment is writable, mapped writable at UTEMP, filled and unmapped; a   *)
(* page beyond the file's part of the segment is only allocated.           *)
SegmentPerms == {{}, {"D"}}

(* A seek or a read of the program's file fails.                           *)
LoadFails(e) ==
  /\ InUser(e) /\ op[e].at = "load"
  /\ Abandon(e) /\ UNCHANGED <<page_free_list, pp_ref, mem, lost, pte, tlb>>

LoadAlloc(e, perm) ==
  /\ InUser(e) /\ op[e].at = "load"
  /\ LET c == op[e].child
     IN  /\ Commit(SysMemAlloc(M, c, UTEXT, perm))
         /\ IF AllocOk(M, c, UTEXT)
            THEN /\ \E at \in {"fill", "share"} : OpGoes(e, at, c, 0, {})
                 /\ UNCHANGED <<env_vars, envVars, panic, cow>>
            ELSE Abandon(e)

LoadFill(e, w) ==
  /\ InUser(e) /\ op[e].at = "fill"
  /\ LET c == op[e].child
     IN  IF MapOk(M, c, UTEXT, e, UTEMP)
         THEN /\ Commit(Written(SysMemMap(M, c, UTEXT, e, UTEMP, {"D"}), e, w))
              /\ OpGoes(e, "filled", c, 0, {})
              /\ UNCHANGED <<env_vars, envVars, panic, cow>>
         ELSE /\ Commit(PageRemove(SysMemMap(M, c, UTEXT, e, UTEMP, {"D"}), c, UTEXT))
              /\ Abandon(e)

LoadUnmap(e) ==
  /\ InUser(e) /\ op[e].at = "filled"
  /\ Commit(PageRemove(M, e, UTEMP))
  /\ OpGoes(e, "share", op[e].child, 0, {})
  /\ UNCHANGED <<env_vars, envVars, panic, cow>>

ToShare(e) == {v \in op[e].va .. UXSTACK : "LIBRARY" \in pte[e][v].perm}

ShareLibrary(e) ==
  /\ InUser(e) /\ op[e].at = "share" /\ ToShare(e) # {}
  /\ LET v == CHOOSE x \in ToShare(e) : \A y \in ToShare(e) : x <= y
         c == op[e].child
     IN  /\ Commit(SysMemMap(M, e, v, c, v, pte[e][v].perm))
         /\ IF MapOk(M, e, v, c, v)
            THEN OpGoes(e, "share", c, v + 1, {}) /\ UNCHANGED <<env_vars, envVars, panic, cow>>
            ELSE Abandon(e)

SpawnDone(e) ==
  /\ InUser(e) /\ op[e].at = "share" /\ ToShare(e) = {}
  /\ UNCHANGED env_user_tlb_mod_entry
  /\ StartChild(e)

-----------------------------------------------------------------------------
(* exit, and wait's reaping of a zombie.                                   *)

Exit(e) == InProgram(e) /\ UserPanics(e) /\ UNCHANGED pageVars

Reap(e, z) ==
  /\ InProgram(e) /\ env_status[z] = "ZOMBIE" /\ env_parent[z] = e
  /\ Commit(EnvFreed(z))
  /\ env_vars' = [env_vars EXCEPT ![z] = 0]
  /\ env_status' = [env_status EXCEPT ![z] = "FREE"]
  /\ env_parent' = [x \in Env |-> IF x = z \/ env_parent[x] = z THEN NoEnv ELSE env_parent[x]]
  /\ UNCHANGED <<env_asid, env_user_tlb_mod_entry, panic, op, cow>>

-----------------------------------------------------------------------------
(* The first env, with a stack.  Pages the machine does not have count as  *)
(* lost.                                                                   *)
BootPte(s) ==
  [page |-> CASE s = UVPT -> 1 [] s = PDX[USTACK] -> 3 [] s = USTACK -> 4 [] OTHER -> 0,
   perm |-> IF s = USTACK THEN {"D"} ELSE {}]

Init ==
  /\ \E n \in Sizes : page_free_list = 5 .. n /\ lost = n + 1 .. NPAGE
  /\ pp_ref = [p \in Pages |-> IF p <= 4 THEN 1 ELSE 0]
  /\ mem = [p \in Pages |-> IF p <= 4 THEN 0 ELSE Junk]
  /\ tlb = {}
  /\ pte = [e \in Env |-> [s \in Slot |-> IF e = 0 THEN BootPte(s) ELSE NoPte]]
  /\ env_vars = [e \in Env |-> IF e = 0 THEN 2 ELSE 0]
  /\ env_status = [e \in Env |-> IF e = 0 THEN "RUNNABLE" ELSE "FREE"]
  /\ env_parent = [e \in Env |-> NoEnv]
  /\ env_asid = [e \in Env |-> 0]
  /\ env_user_tlb_mod_entry = [e \in Env |-> FALSE]
  /\ panic = "none"
  /\ op = [e \in Env |-> Idle] /\ cow = [e \in Env |-> NoCow]

Next ==
  \E e \in Env :
    \/ \E s \in Slot : DoTlbRefill(e, s)
    \/ WriteWindow(e) \/ BadAccess(e)
    \/ \E s \in UserVa :
         \/ \E w \in Words : Store(e, s, w)
         \/ DoTlbMod(e, s)
         \/ \E perm \in UserPerms : s # USTACK /\ MemAlloc(e, s, perm)
         \/ s # USTACK /\ MemUnmap(e, s)
    \/ CowAlloc(e) \/ CowCopy(e) \/ CowMap(e) \/ CowUnmap(e)
    \/ ForkCall(e) \/ DupChild(e) \/ DupParent(e) \/ ForkDone(e)
    \/ SpawnCall(e) \/ InitStackAlloc(e, Argv)
    \/ InitStackMap(e) \/ InitStackUnmap(e)
    \/ LoadFails(e) \/ (\E perm \in SegmentPerms : LoadAlloc(e, perm))
    \/ LoadFill(e, Argv) \/ LoadUnmap(e)
    \/ ShareLibrary(e) \/ SpawnDone(e)
    \/ Exit(e) \/ \E z \in Env : Reap(e, z)

Spec == Init /\ [][Next]_vars

-----------------------------------------------------------------------------
(* TypeOK: every variable holds a value of its C type; an entry of the TLB *)
(* has the halves of its pair.                                             *)
TlbType ==
  /\ IsFiniteSet(tlb) /\ Cardinality(tlb) <= NTLB
  /\ \A t \in tlb : /\ t.asid \in Env
                    /\ \A s \in DOMAIN t.lo : /\ s \in Slot /\ Pair(s) = t.pair
                                              /\ t.lo[s] \in Pte \cup {NoPte}

RoutineType ==
  /\ op \in [Env -> [at : {"user", "fork", "dup", "args", "give", "given", "load", "fill",
                             "filled", "share"},
                     child : Env \cup {NoEnv}, va : 0 .. UTOP, perm : Perms]]
  /\ cow \in [Env -> [at : {"no", "alloc", "copy", "map", "unmap"}, va : Va, perm : Perms]]

PageType ==
  /\ page_free_list \subseteq Pages /\ lost \subseteq Pages
  /\ pp_ref \in [Pages -> Nat]
  /\ mem \in [Pages -> Words]
  /\ pte \in [Env -> [Slot -> Pte \cup {NoPte}]]
  /\ env_vars \in [Env -> Pages \cup {0}]

EnvType ==
  /\ env_status \in [Env -> {"FREE", "NOT_RUNNABLE", "RUNNABLE", "ZOMBIE"}]
  /\ env_parent \in [Env -> Env \cup {NoEnv}] /\ env_asid \in [Env -> Env]
  /\ env_user_tlb_mod_entry \in [Env -> BOOLEAN]

TypeOK == PageType /\ TlbType /\ EnvType /\ RoutineType

(* RefCounts: pp_ref counts exactly the page table entries, directory      *)
(* entries, directories and variable tables that hold the page, through    *)
(* every path of page_insert, page_remove, fork, cow_entry, spawn and      *)
(* env_free.                                                               *)
Holders(tables, p) == {x \in Env \X Slot : tables[x[1]][x[2]].page = p}

RefCounts ==
  \A p \in Pages :
    pp_ref[p] = Cardinality(Holders(pte, p)) + Cardinality({e \in Env : env_vars[e] = p})

(* PagesAccounted: a page is on the free list exactly when nothing refers  *)
(* to it, except for those sys_mem_alloc lost when it found no page table  *)
(* (and those the machine does not have).                                  *)
PagesAccounted ==
  \A p \in Pages : pp_ref[p] = 0 <=> (p \in page_free_list \/ p \in lost)

(* TlbCoherent: whatever the TLB holds as valid for an ASID is what the    *)
(* page table of the env with that ASID says now, permissions included; in *)
(* particular nothing is left of an env that was freed.                    *)
TlbCoherent ==
  \A t \in tlb : \A s \in DOMAIN t.lo :
    t.lo[s] # NoPte =>
      \E e \in Env : env_status[e] # "FREE" /\ env_asid[e] = t.asid /\ pte[e][s] = t.lo[s]

(* WritableOnce: a page some started env may write, and that is not shared *)
(* by PTE_LIBRARY, is seen by no other started env and, but for the page   *)
(* the copy-on-write handler or fork is working on, by no other entry.     *)
WritableOnce ==
  \A e, f \in {x \in Env : env_status[x] = "RUNNABLE"} : \A v, u \in Va :
    /\ "D" \in pte[e][v].perm /\ "LIBRARY" \notin pte[e][v].perm
    /\ pte[f][u].page = pte[e][v].page
    => e = f /\ (v = u \/ UCOW \in {u, v})

(* CowHasHandler: an env that has started and has not registered fork's    *)
(* handler has no copy-on-write page, whoever mapped its pages, so that    *)
(* the kernel's panic on a write fault without a handler is never for a    *)
(* write that the program was promised.                                    *)
CowHasHandler ==
  \A e \in Env : env_status[e] = "RUNNABLE" /\ ~ env_user_tlb_mod_entry[e] =>
    \A v \in Va : "COW" \notin pte[e][v].perm

(* MapInv: the invariant behind all of these.  A free env holds no page;   *)
(* envs that are not free have ASIDs of their own, so that what the TLB    *)
(* holds for an env is its own; the child that fork or spawn is building   *)
(* is NOT_RUNNABLE and has no other parent; the handler is at a page that  *)
(* is there; and an env without a handler has no copy-on-write page,       *)
(* unless it is the child of a fork that is not done.                      *)
FreeEnvsEmpty ==
  \A e \in Env : env_status[e] = "FREE" => env_vars[e] = 0 /\ \A s \in Slot : pte[e][s] = NoPte

AsidsDistinct ==
  \A e, f \in Env : env_status[e] # "FREE" /\ env_status[f] # "FREE" /\ e # f
                    => env_asid[e] # env_asid[f]

BuildsChild ==
  \A e \in Env : op[e].at # "user" =>
    /\ env_status[e] = "RUNNABLE" /\ op[e].child \in Env
    /\ env_status[op[e].child] = "NOT_RUNNABLE" /\ env_parent[op[e].child] = e

HandlerOk ==
  \A e \in Env : cow[e] # NoCow =>
    /\ env_status[e] = "RUNNABLE" /\ "D" \in cow[e].perm /\ "COW" \notin cow[e].perm
    /\ cow[e].at # "no" /\ cow[e].va \in UserVa
    /\ cow[e].at \in {"alloc", "copy"} => pte[e][cow[e].va] # NoPte
    /\ cow[e].at = "map" => pte[e][UCOW] # NoPte

(* The envs that run without fork's handler, or will.                      *)
Spawning == {"args", "give", "given", "load", "fill", "filled", "share"}

Starts(f) ==
  \/ env_status[f] = "RUNNABLE"
  \/ \E e \in Env : op[e].child = f /\ op[e].at \in Spawning

EntryPerms ==
  \A e \in Env : \A v \in Va : "COW" \in pte[e][v].perm => "LIBRARY" \notin pte[e][v].perm

FaultsHandled ==
  \A e \in Env : Starts(e) /\ ~ env_user_tlb_mod_entry[e] =>
    \A v \in Va : "COW" \notin pte[e][v].perm

ForkOk ==
  \A e \in Env :
    /\ op[e].at \in {"fork", "dup"} => env_user_tlb_mod_entry[e]
    /\ op[e].at = "dup" =>
         op[e].va \in Va /\ "COW" \in op[e].perm /\ "LIBRARY" \notin op[e].perm

PagesOk ==
  /\ PageType /\ TlbType /\ RefCounts /\ PagesAccounted /\ page_free_list \cap lost = {}
  /\ TlbCoherent

MapInv ==
  /\ PagesOk /\ EnvType /\ RoutineType
  /\ FreeEnvsEmpty /\ AsidsDistinct /\ BuildsChild /\ HandlerOk
  /\ EntryPerms /\ FaultsHandled /\ ForkOk

(* ShareInv: two entries hold one page, and one of them may write it       *)
(* privately, only while the handler is about to unmap its copy, fork has  *)
(* yet to protect the parent's entry, or spawn has yet to unmap the page   *)
(* that it gave to the child.  A page that spawn is about to fill is the   *)
(* child's only, even if the child may not write it.                       *)
Private(h) == h # NoPte /\ "D" \in h.perm /\ "LIBRARY" \notin h.perm

Remapped(e, v, u) == cow[e].at = "unmap" /\ {v, u} = {UCOW, cow[e].va}
Protecting(e, v, f, u) == op[e].at = "dup" /\ v = op[e].va /\ u = v /\ f = op[e].child
Giving(e, v, f, u) ==
  /\ v = UTEMP /\ f = op[e].child
  /\ \/ op[e].at = "given" /\ u = USTACK
     \/ op[e].at = "filled" /\ u = UTEXT

MayShare(e, v, f, u) ==
  \/ e = f /\ (v = u \/ Remapped(e, v, u))
  \/ Protecting(e, v, f, u)
  \/ Giving(e, v, f, u) \/ Giving(f, u, e, v)

SharingOk ==
  \A e, f \in Env : \A v, u \in Va :
    Private(pte[e][v]) /\ pte[f][u].page = pte[e][v].page => MayShare(e, v, f, u)

(* What the routines rely on between their system calls.                   *)
HandlerScratch(e) ==
  /\ cow[e].at \in {"no", "alloc"} => pte[e][UCOW] = NoPte
  /\ cow[e].at = "copy" => pte[e][UCOW] = NoPte \/ Private(pte[e][UCOW])
  /\ cow[e].at \in {"map", "unmap"} => Private(pte[e][UCOW])
  /\ cow[e] # NoCow => "LIBRARY" \notin cow[e].perm /\ "COW" \notin cow[e].perm

RoutineScratch(e) ==
  /\ op[e].at \notin {"give", "given", "filled"} => pte[e][UTEMP] = NoPte
  /\ op[e].at \in {"give", "given", "filled"} => Private(pte[e][UTEMP])
  /\ op[e].at = "dup" =>
       /\ op[e].va <= USTACK /\ op[e].va # UCOW
       /\ Private(pte[e][op[e].va]) /\ "D" \notin op[e].perm
       /\ cow[e] # NoCow => cow[e].va # op[e].va

ScratchOk == \A e \in Env : HandlerScratch(e) /\ RoutineScratch(e)

(* No entry is writable and copy-on-write; that of the stack is one of the *)
(* two.                                                                    *)
EntryOk(v, perm) ==
  /\ ~ ({"D", "COW"} \subseteq perm)
  /\ v = USTACK => "D" \in perm \/ "COW" \in perm

PermsOk ==
  \A e \in Env : \A v \in Va : pte[e][v] # NoPte => EntryOk(v, pte[e][v].perm)

Unshared(c, t) ==
  /\ pte[c][t] # NoPte /\ {"LIBRARY", "COW"} \cap pte[c][t].perm = {}
  /\ \A f \in Env : \A u \in Va : pte[f][u].page = pte[c][t].page => f = c /\ u = t

FillOk == \A e \in Env : op[e].at = "fill" => Unshared(op[e].child, UTEXT)

ShareInv == MapInv /\ SharingOk /\ ScratchOk /\ PermsOk /\ FillOk

(* SpaceInv: what the refinement needs besides.  A page is in all entries  *)
(* with PTE_LIBRARY or in none; the handler maps a copy over the page that *)
(* it copied; fork has given its child nothing beyond the address it has   *)
(* come to, and spawn nothing before the stack.                            *)
LibraryOk ==
  \A e, f \in Env : \A v, u \in Va :
    pte[e][v].page = pte[f][u].page =>
      ("LIBRARY" \in pte[e][v].perm <=> "LIBRARY" \in pte[f][u].perm)

Copies(e) ==
  /\ pte[e][cow[e].va] # NoPte /\ "LIBRARY" \notin pte[e][cow[e].va].perm
  /\ cow[e].at = "map" => mem[pte[e][UCOW].page] = mem[pte[e][cow[e].va].page]

CopyOk == \A e \in Env : cow[e].at \in {"alloc", "copy", "map"} => Copies(e)

Forked(e) ==
  /\ \A v \in Va :
       /\ op[e].at \in {"fork", "dup"} => v >= op[e].va
       /\ op[e].at = "dup" => v # op[e].va
       => pte[op[e].child][v] = NoPte
  /\ op[e].at = "dup" => pte[op[e].child][op[e].va].page = pte[e][op[e].va].page

ForkedOk == \A e \in Env : op[e].at \in {"fork", "dup", "args", "give"} => Forked(e)

SpaceInv == ShareInv /\ LibraryOk /\ CopyOk /\ ForkedOk

(* ImplementsSpaces: as programs see it, every env has private memory that *)
(* only its own stores change and that a child starts with a copy of, and  *)
(* shares the pages with PTE_LIBRARY.  A page duppage is working on is not *)
(* the child's yet.                                                        *)
BeingDuped(f, v) ==
  env_status[f] = "NOT_RUNNABLE"
  /\ \E e \in Env : op[e].at = "dup" /\ op[e].child = f /\ op[e].va = v

Sees(f, v) ==
  IF pte[f][v] = NoPte \/ BeingDuped(f, v) THEN [kind |-> "none", word |-> 0]
  ELSE IF "LIBRARY" \in pte[f][v].perm THEN [kind |-> "shared", obj |-> pte[f][v].page]
  ELSE [kind |-> "private", word |-> mem[pte[f][v].page]]

SharedPages == 
  {pte[x[1]][x[2]].page : x \in {y \in Env \X UserVa : "LIBRARY" \in pte[y[1]][y[2]].perm}}

UserSpaces == [f \in Env |-> [v \in UserVa |-> Sees(f, v)]]
SharedHeap == [p \in SharedPages |-> mem[p]]
StartedEnvs == {f \in Env : env_status[f] = "RUNNABLE"}

Spaces == INSTANCE MemSpaces WITH
  Envs <- Env, Addr <- UserVa, Zero <- 0,
  space <- UserSpaces, heap <- SharedHeap, live <- StartedEnvs

ImplementsSpaces == Spaces!SpaceSpec
=============================================================================
