------------------------------ MODULE EnvSched ------------------------------
(***************************************************************************)
(* Environments and the scheduler of the kernel (kern/env.c, kern/sched.c  *)
(* and the environment and IPC system calls of kern/syscall_all.c), driven *)
(* by the user library routines that call them: fork, spawn, wait, exit,   *)
(* ipc_send and ipc_recv.                                                  *)
(*                                                                         *)
(* The kernel runs with interrupts disabled on one processor, so a system  *)
(* call or a timer interrupt is one action.  User code is interrupted      *)
(* between any two of its accesses to kernel state; only curenv acts.      *)
(***************************************************************************)
EXTENDS Integers, Sequences, FiniteSets

CONSTANTS
  NENV,        \* number of slots of the array envs
  NASID,       \* number of address space identifiers
  NPAGE,       \* physical pages for page directories and variable tables
  BootPri,     \* the priorities of the ENV_CREATEs of init.c, in order
  MaxAlloc,    \* bound on the calls of mkenvid
  Statuses,    \* exit statuses used by the programs
  Vals,        \* values sent over IPC
  NULL, HEAD   \* pointer values, see Tailq

ASSUME EnvAssumption ==
  /\ NENV \in Nat \ {0} /\ NASID \in Nat \ {0} /\ NPAGE \in Nat
  /\ MaxAlloc \in Nat
  /\ BootPri \in Seq(Nat \ {0}) /\ Len(BootPri) > 0

Env == 0 .. NENV - 1

ASSUME PtrAssumption == NULL \notin Env /\ HEAD \notin Env /\ NULL # HEAD

INSTANCE Tailq WITH Elem <- Env

VARIABLES
  \* the fields of struct Env
  env_status, env_id, env_parent_id, env_pri, env_asid, env_exit_status,
  env_ipc_recving, env_ipc_from, env_ipc_value,
  \* kernel globals
  env_free_list,  \* LIST of free slots, as a sequence
  env_sched_list, \* TAILQ of schedulable slots
  curenv,         \* the running slot, or NULL before the first schedule
  count,          \* schedule's static: slices left
  asid_bitmap,    \* set of allocated ASIDs
  idcount,        \* mkenvid's static counter
  freePages,      \* length of the page free list
  panic,          \* why the kernel halted, or "none"
  \* user library state of each env
  upc,            \* which library routine it is in
  uarg,           \* the envid that routine works on
  uval,           \* the value it carries (exit status, IPC value)
  kids,           \* envids returned by fork and spawn, not waited for yet
  \* history
  inbox           \* first message delivered since the last ipc_recv

envVars == <<env_status, env_id, env_parent_id, env_pri, env_asid,
             env_exit_status>>
ipcVars == <<env_ipc_recving, env_ipc_from, env_ipc_value, inbox>>
allocVars == <<env_free_list, asid_bitmap, idcount, freePages>>
schedVars == <<env_sched_list, curenv, count>>
userVars == <<upc, uarg, uval, kids>>
vars == <<envVars, ipcVars, allocVars, schedVars, panic, userVars>>

-----------------------------------------------------------------------------
(* Environment identifiers.  mkenvid packs a counter and the slot index;   *)
(* ENVX recovers the index.  The counter starts at 1, so no id is 0.       *)

EnvId == [n : 1 .. MaxAlloc, slot : Env]
NoId == [n |-> 0, slot |-> 0]      \* envid 0, the parent of a boot env
ENVX(id) == id.slot
mkenvid(e) == [n |-> idcount + 1, slot |-> e]

Status == {"FREE", "NOT_RUNNABLE", "RUNNABLE", "ZOMBIE"}
NoMsg == [from |-> NoId, value |-> 0]

(* envid2env succeeds for an id of a slot that is not free, and with       *)
(* checkperm only for curenv itself or an immediate child of it.           *)
Envid2envOk(id, checkperm) ==
  LET e == ENVX(id)
  IN  /\ env_status[e] # "FREE" /\ env_id[e] = id
      /\ checkperm => e = curenv \/ env_parent_id[e] = env_id[curenv]

FreeAsids == {i \in 0 .. NASID - 1 : i \notin asid_bitmap}

(* asid_alloc takes the lowest clear bit.                                  *)
AsidAlloc(e) ==
  \E a \in FreeAsids :
    /\ \A b \in FreeAsids : a <= b
    /\ asid_bitmap' = asid_bitmap \cup {a}
    /\ env_asid' = [env_asid EXCEPT ![e] = a]

-----------------------------------------------------------------------------
(* env_run and schedule.  They are the tail of several handlers, so they   *)
(* take the run queue q and the statuses st which the handler has computed *)
(* and set env_sched_list, curenv, count and panic.                        *)

EnvRun(e, st) ==
  IF st[e] = "RUNNABLE"
  THEN curenv' = e /\ UNCHANGED panic
  ELSE panic' = "env_run: not runnable" /\ UNCHANGED curenv

RotateBug(q, st) == q

(* curenv goes to the tail of the queue if it is still runnable.           *)
Rotate(q, st) ==
  IF curenv # NULL /\ st[curenv] = "RUNNABLE"
  THEN TAILQ_INSERT_TAIL(TAILQ_REMOVE(q, curenv), curenv)
  ELSE q

SwitchesBug(yield, st) ==
  yield \/ curenv = NULL \/ st[curenv] # "RUNNABLE"

Switches(yield, st) ==
  yield \/ count = 0 \/ curenv = NULL \/ st[curenv] # "RUNNABLE"

Schedule(yield, q, st) ==
  IF Switches(yield, st)
  THEN LET r == Rotate(q, st)
           e == r.first
       IN  /\ env_sched_list' = r
           /\ IF e = NULL
              THEN panic' = "schedule: no runnable envs" /\ UNCHANGED <<curenv, count>>
              ELSE EnvRun(e, st) /\ count' = env_pri[e] - 1
  ELSE /\ env_sched_list' = q
       /\ EnvRun(curenv, st)
       /\ count' = count - 1

-----------------------------------------------------------------------------
(* env_alloc, in the order of its calls: the free list, env_setup_vm's     *)
(* page for the page directory, the page for the variable table, the ASID. *)
(* EnvAllocResult is the outcome; EnvAlloc sets what the outcome changes   *)
(* (the id, parent and links of slot e), leaving status and priority to    *)
(* the caller.                                                             *)

EnvAllocResult ==
  IF env_free_list = <<>> THEN "no free env"
  ELSE IF freePages = 0 THEN "no page"
  ELSE IF freePages = 1 THEN "page_free: pp_ref is not 0"
  ELSE IF FreeAsids = {} THEN "no asid"
  ELSE "ok"

(* The error paths change nothing but the pages: a missing ASID keeps the  *)
(* two pages allocated, and a missing second page calls page_free on the   *)
(* referenced page directory, whose assertion stops the kernel.            *)
EnvAllocFails ==
  /\ EnvAllocResult # "ok"
  /\ freePages' = IF EnvAllocResult = "no asid" THEN freePages - 2
                  ELSE IF EnvAllocResult = "page_free: pp_ref is not 0" THEN 0
                  ELSE freePages
  /\ UNCHANGED <<env_free_list, asid_bitmap, idcount>>

EnvAlloc(e, parent) ==
  /\ EnvAllocResult = "ok"
  /\ idcount < MaxAlloc
  /\ e = Head(env_free_list)
  /\ freePages' = freePages - 2
  /\ AsidAlloc(e)
  /\ idcount' = idcount + 1
  /\ env_id' = [env_id EXCEPT ![e] = mkenvid(e)]
  /\ env_parent_id' = [env_parent_id EXCEPT ![e] = parent]
  /\ env_free_list' = Tail(env_free_list)

EnvFreeBug(e) ==
  /\ freePages' = freePages + 2
  /\ asid_bitmap' = asid_bitmap
  /\ env_status' = [env_status EXCEPT ![e] = "FREE"]
  /\ env_free_list' = <<e>> \o env_free_list
  /\ env_sched_list' = TAILQ_REMOVE(env_sched_list, e)

(* env_free, called on a zombie.  Its last statement removes the slot from *)
(* env_sched_list a second time.                                           *)
EnvFree(e) ==
  /\ freePages' = freePages + 2
  /\ asid_bitmap' = asid_bitmap \ {env_asid[e]}
  /\ env_status' = [env_status EXCEPT ![e] = "FREE"]
  /\ env_free_list' = <<e>> \o env_free_list
  /\ env_sched_list' = TAILQ_REMOVE(env_sched_list, e)

-----------------------------------------------------------------------------
(* Boot and the timer.                                                     *)

Init ==
  /\ env_status = [e \in Env |-> "FREE"]
  /\ env_id = [e \in Env |-> NoId] /\ env_parent_id = [e \in Env |-> NoId]
  /\ env_pri = [e \in Env |-> 0] /\ env_asid = [e \in Env |-> 0]
  /\ env_exit_status = [e \in Env |-> 0]
  /\ env_ipc_recving = [e \in Env |-> 0]
  /\ env_ipc_from = [e \in Env |-> NoId] /\ env_ipc_value = [e \in Env |-> 0]
  /\ env_free_list = [i \in 1 .. NENV |-> i - 1]
  /\ env_sched_list = TAILQ_INIT
  /\ curenv = NULL /\ count = 0
  /\ asid_bitmap = {} /\ idcount = 0 /\ freePages = NPAGE
  /\ panic = "none"
  /\ upc = [e \in Env |-> "run"] /\ uarg = [e \in Env |-> NoId]
  /\ uval = [e \in Env |-> 0] /\ kids = [e \in Env |-> {}]
  /\ inbox = [e \in Env |-> NoMsg]

(* The envs of init.c are created before the first timer interrupt; a      *)
(* failing env_alloc there is a panic.                                     *)
Booting == panic = "none" /\ curenv = NULL /\ idcount < Len(BootPri)

EnvCreate ==
  /\ Booting
  /\ IF EnvAllocResult # "ok"
     THEN /\ EnvAllocFails
          /\ panic' = EnvAllocResult
          /\ UNCHANGED <<envVars, schedVars>>
     ELSE \E e \in Env :
            /\ EnvAlloc(e, NoId)
            /\ env_pri' = [env_pri EXCEPT ![e] = BootPri[idcount + 1]]
            /\ env_status' = [env_status EXCEPT ![e] = "RUNNABLE"]
            /\ env_sched_list' = TAILQ_INSERT_HEAD(env_sched_list, e)
            /\ UNCHANGED <<curenv, count, panic, env_exit_status>>
  /\ UNCHANGED <<ipcVars, userVars>>

Tick ==
  /\ panic = "none" /\ idcount >= Len(BootPri)
  /\ Schedule(FALSE, env_sched_list, env_status)
  /\ UNCHANGED <<envVars, ipcVars, allocVars, userVars>>

-----------------------------------------------------------------------------
(* System calls of the running env p = curenv, and the library code around *)
(* them.                                                                   *)

Runs(p) == panic = "none" /\ curenv = p
In(p, where) == Runs(p) /\ upc[p] = where
Goto(p, where) == upc' = [upc EXCEPT ![p] = where]

(* A library routine returns: its local variables are gone.                *)
Return(p, where) ==
  /\ Goto(p, where)
  /\ uarg' = [uarg EXCEPT ![p] = NoId]
  /\ uval' = [uval EXCEPT ![p] = 0]

SysYield(p) ==
  /\ In(p, "run")
  /\ Schedule(TRUE, env_sched_list, env_status)
  /\ UNCHANGED <<envVars, ipcVars, allocVars, userVars>>

(* fork and spawn keep the result of syscall_exofork in an unsigned        *)
(* variable, so a failure is only noticed by the next call on the child's  *)
(* id: fork's duppage panics (the program exits), spawn returns an error.  *)
SysExofork(p) ==
  /\ In(p, "run")
  /\ \/ /\ EnvAllocFails
        /\ panic' = IF EnvAllocResult = "page_free: pp_ref is not 0"
                    THEN EnvAllocResult ELSE panic
        /\ \E where \in {"run", "dying"} : Goto(p, where)
        /\ UNCHANGED <<envVars, uarg, uval, kids>>
     \/ \E e \in Env :
          /\ EnvAlloc(e, env_id[p])
          /\ env_status' = [env_status EXCEPT ![e] = "NOT_RUNNABLE"]
          /\ env_pri' = [env_pri EXCEPT ![e] = env_pri[p]]
          /\ upc' = [upc EXCEPT ![p] = "setup", ![e] = "run"]
          /\ uarg' = [uarg EXCEPT ![p] = mkenvid(e)]
          /\ kids' = [kids EXCEPT ![e] = {}]
          /\ UNCHANGED <<uval, panic, env_exit_status>>
  /\ UNCHANGED <<schedVars, ipcVars>>

(* sys_set_env_status(id, status), for a target other than curenv.         *)
SysSetEnvStatus(id, status) ==
  LET e == ENVX(id)
  IN  /\ Envid2envOk(id, TRUE)
      /\ env_sched_list' =
           IF status = "RUNNABLE" /\ env_status[e] # "RUNNABLE"
           THEN TAILQ_INSERT_TAIL(env_sched_list, e)
           ELSE IF status = "NOT_RUNNABLE" /\ env_status[e] # "NOT_RUNNABLE"
                THEN TAILQ_REMOVE(env_sched_list, e)
                ELSE env_sched_list
      /\ env_status' = [env_status EXCEPT ![e] = status]

(* The end of fork or spawn: the child is made runnable and its id is      *)
(* returned.                                                               *)
StartChild(p) ==
  /\ In(p, "setup")
  /\ SysSetEnvStatus(uarg[p], "RUNNABLE")
  /\ kids' = [kids EXCEPT ![p] = @ \cup {uarg[p]}]
  /\ Return(p, "run")
  /\ UNCHANGED <<env_id, env_parent_id, env_pri, env_asid, env_exit_status,
                 ipcVars, allocVars, curenv, count, panic>>

(* An error after syscall_exofork.  spawn calls syscall_env_destroy on the *)
(* child, which sys_env_destroy refuses because the child is no zombie;    *)
(* fork panics.  Either way the child stays NOT_RUNNABLE.                  *)
AbandonChild(p) ==
  /\ In(p, "setup")
  /\ env_status[ENVX(uarg[p])] # "ZOMBIE"
  /\ \E where \in {"run", "dying"} : Return(p, where)
  /\ UNCHANGED <<envVars, ipcVars, allocVars, schedVars, panic, kids>>

SysExitStaysQueuedBug(p, status) ==
  /\ In(p, "run") \/ (In(p, "dying") /\ status = 1)
  /\ env_exit_status' = [env_exit_status EXCEPT ![p] = status]
  /\ env_status' = [env_status EXCEPT ![p] = "ZOMBIE"]
  /\ Schedule(TRUE, env_sched_list, env_status')
  /\ UNCHANGED <<env_id, env_parent_id, env_pri, env_asid, ipcVars, allocVars,
                 userVars>>

SysExitFreesBug(p, status) ==
  /\ In(p, "run") \/ (In(p, "dying") /\ status = 1)
  /\ env_exit_status' = [env_exit_status EXCEPT ![p] = status]
  /\ env_status' = [env_status EXCEPT ![p] = "FREE"]
  /\ Schedule(TRUE, TAILQ_REMOVE(env_sched_list, p), env_status')
  /\ UNCHANGED <<env_id, env_parent_id, env_pri, env_asid, ipcVars, allocVars,
                 userVars>>

(* exit(status), also reached through user_panic with status 1.            *)
SysExit(p, status) ==
  /\ In(p, "run") \/ (In(p, "dying") /\ status = 1)
  /\ env_exit_status' = [env_exit_status EXCEPT ![p] = status]
  /\ env_status' = [env_status EXCEPT ![p] = "ZOMBIE"]
  /\ Schedule(TRUE, TAILQ_REMOVE(env_sched_list, p), env_status')
  /\ UNCHANGED <<env_id, env_parent_id, env_pri, env_asid, ipcVars, allocVars,
                 userVars>>

-----------------------------------------------------------------------------
(* wait(id): poll envs[ENVX(id)] and yield until the child is a zombie,    *)
(* remember its exit status, then reap it.                                 *)

WaitCall(p) ==
  /\ In(p, "run")
  /\ \E id \in kids[p] :
       /\ uarg' = [uarg EXCEPT ![p] = id]
       /\ kids' = [kids EXCEPT ![p] = @ \ {id}]
  /\ Goto(p, "wait")
  /\ UNCHANGED <<envVars, ipcVars, allocVars, schedVars, panic, uval>>

WaitPollsBug(p) == LET e == ENVX(uarg[p])
                   IN  env_id[e] = uarg[p] /\ env_status[e] # "FREE"

WaitPolls(p) == LET e == ENVX(uarg[p])
                IN  env_id[e] = uarg[p] /\ env_status[e] \in {"RUNNABLE", "NOT_RUNNABLE"}

(* The loop's test and, when it holds, syscall_yield.                      *)
WaitYield(p) ==
  /\ In(p, "wait") /\ WaitPolls(p)
  /\ Schedule(TRUE, env_sched_list, env_status)
  /\ UNCHANGED <<envVars, ipcVars, allocVars, userVars>>

(* The loop ends: read env_exit_status of a zombie, or return -1.          *)
WaitDone(p) ==
  LET e == ENVX(uarg[p])
  IN  /\ In(p, "wait") /\ ~WaitPolls(p)
      /\ IF env_id[e] = uarg[p] /\ env_status[e] = "ZOMBIE"
         THEN /\ Goto(p, "reap")
              /\ uval' = [uval EXCEPT ![p] = env_exit_status[e]]
              /\ UNCHANGED uarg
         ELSE Return(p, "run")
      /\ UNCHANGED <<envVars, ipcVars, allocVars, schedVars, panic, kids>>

(* syscall_env_destroy(id, 0) on another env: only a zombie child is       *)
(* freed, anything else is refused.  wait ignores the result.              *)
MayReap(id) == Envid2envOk(id, TRUE) /\ env_status[ENVX(id)] = "ZOMBIE"

WaitReap(p) ==
  /\ In(p, "reap")
  /\ IF MayReap(uarg[p])
     THEN EnvFree(ENVX(uarg[p]))
     ELSE UNCHANGED <<env_status, env_sched_list, env_free_list, asid_bitmap, freePages>>
  /\ Return(p, "run")
  /\ UNCHANGED <<env_id, env_parent_id, env_pri, env_asid, env_exit_status, ipcVars,
                 idcount, curenv, count, panic, kids>>

-----------------------------------------------------------------------------
(* IPC.  Page transfer is reduced to its result.                           *)

(* sys_ipc_recv: block until a message is sent.                            *)
SysIpcRecv(p) ==
  /\ In(p, "run")
  /\ env_ipc_recving' = [env_ipc_recving EXCEPT ![p] = 1]
  /\ env_status' = [env_status EXCEPT ![p] = "NOT_RUNNABLE"]
  /\ Schedule(TRUE, TAILQ_REMOVE(env_sched_list, p), env_status')
  /\ Goto(p, "recv")
  /\ inbox' = [inbox EXCEPT ![p] = NoMsg]
  /\ UNCHANGED <<env_id, env_parent_id, env_pri, env_asid, env_exit_status,
                 env_ipc_from, env_ipc_value, allocVars, uarg, uval, kids>>

(* The rest of ipc_recv, once scheduled again: env_ipc_from and            *)
(* env_ipc_value are read from the env's own slot, at any time until then. *)
IpcRecvReturn(p) ==
  /\ In(p, "recv")
  /\ Return(p, "run")
  /\ UNCHANGED <<envVars, ipcVars, allocVars, schedVars, panic, kids>>

(* ipc_send(to, value).                                                    *)
IpcSendCall(p) ==
  /\ In(p, "run")
  /\ \E e \in Env \ {p}, v \in Vals :
       /\ env_status[e] # "FREE"
       /\ uarg' = [uarg EXCEPT ![p] = env_id[e]]
       /\ uval' = [uval EXCEPT ![p] = v]
  /\ Goto(p, "send")
  /\ UNCHANGED <<envVars, ipcVars, allocVars, schedVars, panic, kids>>

IpcReady(id) == env_ipc_recving[ENVX(id)] = 1

(* sys_ipc_try_send finds no receiver: ipc_send yields and tries again.    *)
IpcSendRetry(p) ==
  /\ In(p, "send")
  /\ Envid2envOk(uarg[p], FALSE) /\ ~IpcReady(uarg[p])
  /\ Schedule(TRUE, env_sched_list, env_status)
  /\ UNCHANGED <<envVars, ipcVars, allocVars, userVars>>

(* The target is gone: user_assert fails in ipc_send.                      *)
IpcSendBadEnv(p) ==
  /\ In(p, "send")
  /\ ~Envid2envOk(uarg[p], FALSE)
  /\ Return(p, "dying")
  /\ UNCHANGED <<envVars, ipcVars, allocVars, schedVars, panic, kids>>

DeliverBug(e, p) ==
  /\ env_ipc_value' = [env_ipc_value EXCEPT ![e] = uval[p]]
  /\ env_ipc_from' = [env_ipc_from EXCEPT ![e] = env_id[p]]
  /\ UNCHANGED env_ipc_recving

(* The receiver's fields after a successful sys_ipc_try_send.              *)
Deliver(e, p) ==
  /\ env_ipc_value' = [env_ipc_value EXCEPT ![e] = uval[p]]
  /\ env_ipc_from' = [env_ipc_from EXCEPT ![e] = env_id[p]]
  /\ env_ipc_recving' = [env_ipc_recving EXCEPT ![e] = 0]

(* The target is waiting.  It is woken before the page, if there is one,   *)
(* is looked up and mapped, which may fail; the sender then exits.         *)
IpcTrySend(p) ==
  LET e == ENVX(uarg[p])
  IN  /\ In(p, "send")
      /\ Envid2envOk(uarg[p], FALSE) /\ IpcReady(uarg[p])
      /\ Deliver(e, p)
      /\ inbox' = [inbox EXCEPT ![e] = IF @ = NoMsg
                                       THEN [from |-> env_id[p], value |-> uval[p]]
                                       ELSE @]
      /\ env_status' = [env_status EXCEPT ![e] = "RUNNABLE"]
      /\ env_sched_list' = TAILQ_INSERT_TAIL(env_sched_list, e)
      /\ \E where \in {"run", "dying"} : Return(p, where)
      /\ UNCHANGED <<env_id, env_parent_id, env_pri, env_asid, env_exit_status,
                     allocVars, curenv, count, panic, kids>>

-----------------------------------------------------------------------------
(* The kernel halts on a panic.                                            *)
Halted == panic # "none" /\ UNCHANGED vars

UserStep(p) ==
  \/ SysYield(p) \/ SysExofork(p) \/ StartChild(p) \/ AbandonChild(p)
  \/ \E status \in Statuses \cup {1} : SysExit(p, status)
  \/ WaitCall(p) \/ WaitYield(p) \/ WaitDone(p) \/ WaitReap(p)
  \/ SysIpcRecv(p) \/ IpcRecvReturn(p)
  \/ IpcSendCall(p) \/ IpcSendRetry(p) \/ IpcSendBadEnv(p) \/ IpcTrySend(p)

Next == EnvCreate \/ Tick \/ (\E p \in Env : UserStep(p)) \/ Halted

(* The timer interrupt keeps coming, whatever the running env does.        *)
TimerFairness == WF_vars(EnvCreate) /\ WF_vars(Tick)

(* A slice is half a million cycles, so an env that is scheduled again and *)
(* again also gets to execute its next instructions: the end of wait's     *)
(* loop and its reap are strongly fair.                                    *)
WaitFairness == \A p \in Env : SF_vars(WaitDone(p)) /\ SF_vars(WaitReap(p))

TimerSpec == Init /\ [][Next]_vars /\ TimerFairness

Spec == TimerSpec /\ WaitFairness

-----------------------------------------------------------------------------
PanicReason == {"none", "no free env", "no page", "no asid", "page_free: pp_ref is not 0",
                "schedule: no runnable envs", "env_run: not runnable"}

Word == Vals \cup Statuses \cup {0, 1}

(* The fields of struct Env, the links of the queue and the counters; the  *)
(* slices left, count, never go below 0.                                   *)
TypeOK ==
  /\ env_status \in [Env -> Status]
  /\ env_id \in [Env -> EnvId \cup {NoId}]
  /\ env_parent_id \in [Env -> EnvId \cup {NoId}]
  /\ env_pri \in [Env -> Nat] /\ env_asid \in [Env -> 0 .. NASID - 1]
  /\ env_exit_status \in [Env -> Statuses \cup {0, 1}]
  /\ env_ipc_recving \in [Env -> {0, 1}]
  /\ env_ipc_from \in [Env -> EnvId \cup {NoId}]
  /\ env_ipc_value \in [Env -> Word]
  /\ env_free_list \in Seq(Env)
  /\ env_sched_list \in TailqType
  /\ curenv \in Env \cup {NULL} /\ count \in Nat
  /\ asid_bitmap \subseteq 0 .. NASID - 1
  /\ idcount \in 0 .. MaxAlloc /\ freePages \in Nat
  /\ panic \in PanicReason
  /\ upc \in [Env -> {"run", "setup", "dying", "wait", "reap", "recv", "send"}]
  /\ uarg \in [Env -> EnvId \cup {NoId}]
  /\ uval \in [Env -> Word]
  /\ kids \in [Env -> SUBSET EnvId]
  /\ inbox \in [Env -> [from : EnvId \cup {NoId}, value : Word]]

(* The n slots of s, linked in this order in q, are the RUNNABLE ones.     *)
IsRunQueue(q, st, s, n) ==
  /\ Chain(q, s, n)
  /\ \A e \in Env : st[e] = "RUNNABLE" <=> \E i \in 1 .. n : s[i] = e

(* They are so from slot e on.                                             *)
RunQueueFrom(q, st, e) ==
  \E n \in 1 .. NENV : \E s \in [1 .. n -> Env] : s[1] = e /\ IsRunQueue(q, st, s, n)

(* The second TAILQ_REMOVE of a reaped zombie (env.c:467) leaves its stale *)
(* links in the queue, yet no RUNNABLE env is lost: as long as the kernel  *)
(* has not panicked, the chain that starts at curenv holds each of them    *)
(* once, so the next rotation of curenv restores env_sched_list.           *)
RunQueueComplete ==
  panic = "none" /\ curenv # NULL =>
    RunQueueFrom(env_sched_list, env_status, curenv)

(* env_run's assertion (env.c:503) never fails: schedule only picks an env *)
(* that is RUNNABLE, whatever was reaped, forked or woken before.          *)
EnvRunAssertHolds == panic # "env_run: not runnable"

(* Two envs that are not free never share an ASID, and asid_bitmap holds   *)
(* exactly theirs: a reap frees the zombie's and no other one.             *)
AsidsExclusive ==
  LET live == {e \in Env : env_status[e] # "FREE"}
  IN  /\ \A d, e \in live : env_asid[d] = env_asid[e] => d = e
      /\ asid_bitmap = {env_asid[e] : e \in live}

(* Only an env blocked in sys_ipc_recv has env_ipc_recving set: so         *)
(* sys_ipc_try_send never queues an env twice, nor wakes one that fork is  *)
(* still setting up or a slot that has been reused.                        *)
RecvingMeansBlocked ==
  \A e \in Env : env_ipc_recving[e] = 1 =>
     env_status[e] = "NOT_RUNNABLE" /\ upc[e] = "recv"

(* What ipc_recv reads after it is woken is the message that woke it, even *)
(* when other senders have been trying since.                              *)
DeliveredIntact ==
  \A e \in Env : env_status[e] = "RUNNABLE" /\ upc[e] = "recv" =>
     inbox[e] = [from |-> env_ipc_from[e], value |-> env_ipc_value[e]]

(* While an env is inside wait, the child keeps its slot and its id: wait  *)
(* never returns -1, and the status it remembered is still the child's     *)
(* when it reaps it.                                                       *)
WaitFindsChild ==
  \A p \in Env : env_status[p] = "RUNNABLE" /\ upc[p] \in {"wait", "reap"} =>
    LET c == ENVX(uarg[p])
    IN  /\ env_id[c] = uarg[p] /\ env_parent_id[c] = env_id[p]
        /\ env_status[c] # "FREE"
        /\ upc[p] = "reap" => env_status[c] = "ZOMBIE" /\ env_exit_status[c] = uval[p]

(* sched.c:8-10: an env that yields, in a program, in wait or in ipc_send, *)
(* is not scheduled again at once unless it is the only RUNNABLE one, even *)
(* after it has reaped a zombie and left its stale links in the queue.     *)
YieldGivesWay ==
  [][\A p \in Env :
       /\ SysYield(p) \/ WaitYield(p) \/ IpcSendRetry(p)
       /\ \E e \in Env \ {p} : env_status[e] = "RUNNABLE"
       => curenv' # p]_vars

(* Round robin: a RUNNABLE env gets the CPU, unless the kernel panics.     *)
EveryRunnableRuns ==
  \A e \in Env : env_status[e] = "RUNNABLE" ~> curenv = e \/ panic # "none"

(* A zombie whose parent waits for it is reaped.                           *)
WaitedZombieIsReaped ==
  \A p \in Env :
    (env_status[p] = "RUNNABLE" /\ upc[p] = "wait"
       /\ env_status[ENVX(uarg[p])] = "ZOMBIE")
      ~> (upc[p] = "run" \/ panic # "none")

-----------------------------------------------------------------------------
(* The inductive invariant behind EnvRunAssertHolds and RunQueueComplete.  *)

(* Nothing is required of the back links but that curenv's is HEAD, so     *)
(* that removing curenv writes tqh_first, and that the stale links of a    *)
(* zombie are those of a head with a successor, so that reaping it writes  *)
(* tqh_first and one back link to HEAD and nothing else.                   *)
QueueInv(q, st, cur) ==
  /\ RunQueueFrom(q, st, cur)
  /\ q.prev[cur] = HEAD
  /\ \A e \in Env : st[e] = "ZOMBIE" => q.prev[e] = HEAD /\ q.next[e] \in Env

(* Before the first schedule the queue is sound from tqh_first on.         *)
BootInv(q, st) ==
  /\ \A e \in Env : st[e] \in {"FREE", "RUNNABLE"}
  /\ q.first = NULL => q.last = HEAD /\ \A e \in Env : st[e] # "RUNNABLE"
  /\ q.first # NULL => QueueInv(q, st, q.first)

QueueOk ==
  panic = "none" =>
    IF curenv = NULL
    THEN BootInv(env_sched_list, env_status) /\ \A e \in Env : upc[e] = "run"
    ELSE QueueInv(env_sched_list, env_status, curenv)

IdsOk == \A e \in Env : env_status[e] # "FREE" =>
            env_id[e] \in EnvId /\ ENVX(env_id[e]) = e /\ env_pri[e] >= 1

FreeListOk ==
  /\ \A i \in 1 .. Len(env_free_list) : env_status[env_free_list[i]] = "FREE"
  /\ \A i, j \in 1 .. Len(env_free_list) : env_free_list[i] = env_free_list[j] => i = j

(* The child a parent is setting up has not run yet.                       *)
SetupOk ==
  \A p \in Env : env_status[p] = "RUNNABLE" /\ upc[p] = "setup" =>
    LET c == ENVX(uarg[p])
    IN  /\ env_id[c] = uarg[p] /\ env_parent_id[c] = env_id[p]
        /\ env_status[c] = "NOT_RUNNABLE" /\ upc[c] = "run"

(* What every system call and every timer interrupt preserves: enough for  *)
(* the queue to survive the second TAILQ_REMOVE of a zombie.               *)
SchedInv ==
  /\ TypeOK /\ IdsOk /\ FreeListOk /\ SetupOk /\ RecvingMeansBlocked
  /\ QueueOk /\ EnvRunAssertHolds

(* id names a child of p that has not been reaped.                         *)
ChildOf(p, id) ==
  LET c == ENVX(id)
  IN  env_status[c] # "FREE" /\ env_id[c] = id /\ env_parent_id[c] = env_id[p]

(* Each id fork or spawn returned, and the one wait works on, names a      *)
(* child still there; no id is both.  Nobody but p may reap it, and p      *)
(* reaps only the one it waits for.                                        *)
KidsOk ==
  \A p \in Env : env_status[p] # "FREE" =>
    /\ \A id \in kids[p] : ChildOf(p, id)
    /\ upc[p] \in {"setup", "wait", "reap"} =>
         ChildOf(p, uarg[p]) /\ uarg[p] \notin kids[p]
    /\ upc[p] = "reap" =>
         LET c == ENVX(uarg[p])
         IN  env_status[c] = "ZOMBIE" /\ env_exit_status[c] = uval[p]

(* The envs of init.c start without children.                              *)
BootKidsOk == curenv = NULL => \A e \in Env : kids[e] = {}

(* No message has reached an env that is still receiving.                  *)
InboxOk == \A e \in Env : env_ipc_recving[e] = 1 => inbox[e] = NoMsg

(* What the life of an env, from env_alloc to its reap, preserves.         *)
LifeInv == KidsOk /\ BootKidsOk /\ InboxOk /\ DeliveredIntact /\ AsidsExclusive

(* The inductive invariant of the whole module.                            *)
KernelInv == SchedInv /\ LifeInv
=============================================================================
