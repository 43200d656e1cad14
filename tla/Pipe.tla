-------------------------------- MODULE Pipe --------------------------------
(***************************************************************************)
(* One pipe (user/lib/pipe.c) and the file descriptor routines that share, *)
(* move and drop its ends (user/lib/fd.c, fork.c, spawn.c, libos.c).       *)
(*                                                                         *)
(* A file descriptor n of an env is two pages of its address space: the fd *)
(* page, which the read end and the write end have one of each, and the    *)
(* data page, which holds the struct Pipe and is the same for both ends.   *)
(* The ends live in user space: nobody counts them but pageref, which      *)
(* reads the kernel's reference counts of the two pages.  Each system call *)
(* that maps or unmaps a page is a step, and so is each access of a        *)
(* routine to the shared struct; a timer interrupt may come between any    *)
(* two of them.                                                            *)
(*                                                                         *)
(* At most one env reads and one env writes at a time, as the shell        *)
(* arranges; any number of them may hold, dup, close and poll the ends.    *)
(***************************************************************************)
EXTENDS Integers, Sequences, FiniteSets

CONSTANTS
  Envs,       \* the environments
  First,      \* the one that calls pipe()
  NULL,       \* no environment
  MAXFD,      \* file descriptors of an env
  PIPE_SIZE,  \* bytes in the ring buffer
  WORD,       \* 2^32: the positions are u_int and wrap
  MaxBytes,   \* bound on the bytes written
  MaxReq,     \* bound on the size of one read or write
  Calls,      \* the library routines that the programs call
  MemFails    \* may syscall_mem_map run out of pages?

ASSUME PipeAssumption ==
  /\ IsFiniteSet(Envs) /\ First \in Envs /\ NULL \notin Envs
  /\ MAXFD \in Nat \ {0}
  /\ PIPE_SIZE \in Nat \ {0} /\ WORD \in Nat \ {0}
  /\ WORD % PIPE_SIZE = 0 /\ PIPE_SIZE < WORD
  /\ MaxBytes \in Nat /\ MaxReq \in Nat
  /\ Calls \subseteq {"read", "write", "poll", "close", "dup", "exit", "fork"}
  /\ MemFails \in BOOLEAN

FdNum == 0 .. MAXFD - 1
Slot == Envs \X FdNum

VARIABLES
  env,        \* env_status of each env; an embryo is being set up by fork
  fdmap,      \* which end's fd page is mapped in each slot
  datamap,    \* is the pipe's page mapped at the slot's data address?
  p_rpos, p_wpos, p_buf,     \* struct Pipe
  \* the library routine each env is in, and its local variables
  pc, op,
  fdnum,      \* the descriptor it works on
  newfd,      \* the descriptor it closes, or the target of dup
  child,      \* the env it forks
  n, i,       \* size of the transfer and bytes done
  fd_ref, pipe_ref,
  quiet,      \* the env whose env_runs has not changed since it read it
  \* history
  nwritten,   \* bytes written; the k-th one has value k
  got         \* bytes read

maps == <<env, fdmap, datamap>>
ring == <<p_rpos, p_wpos, p_buf, nwritten, got>>
locals == <<op, fdnum, newfd, child, n, i, fd_ref, pipe_ref>>
vars == <<maps, ring, locals, pc, quiet>>

End == {"none", "r", "w"}
Other(e) == IF e = "r" THEN "w" ELSE "r"

Holders(e) == {s \in Slot : fdmap[s] = e}
Mapped == {s \in Slot : datamap[s]}

Least(S, x) == x \in S /\ \A y \in S : x <= y

Init ==
  /\ env = [p \in Envs |-> IF p = First THEN "live" ELSE "unused"]
  /\ fdmap = [s \in Slot |-> "none"] /\ datamap = [s \in Slot |-> FALSE]
  /\ p_rpos = 0 /\ p_wpos = 0 /\ p_buf = [k \in 0 .. PIPE_SIZE - 1 |-> 0]
  /\ pc = [p \in Envs |-> IF p = First THEN "pipe" ELSE "run"]
  /\ op = [p \in Envs |-> "none"]
  /\ fdnum = [p \in Envs |-> 0] /\ newfd = [p \in Envs |-> 0]
  /\ child = [p \in Envs |-> NULL]
  /\ n = [p \in Envs |-> 0] /\ i = [p \in Envs |-> 0]
  /\ fd_ref = [p \in Envs |-> 0] /\ pipe_ref = [p \in Envs |-> 0]
  /\ quiet = NULL
  /\ nwritten = 0 /\ got = <<>>

-----------------------------------------------------------------------------
At(p, where) == env[p] = "live" /\ pc[p] = where

(* env_runs grows whenever an env is scheduled: a step of p is no          *)
(* interruption of p, but one of everybody else.                           *)
Goto(p, where) == /\ pc' = [pc EXCEPT ![p] = where]
                  /\ quiet' = IF quiet = p THEN p ELSE NULL

(* A routine returns: its local variables are gone.                        *)
Return(p, where) ==
  /\ pc' = [pc EXCEPT ![p] = where] /\ quiet' = NULL
  /\ op' = [op EXCEPT ![p] = "none"]
  /\ fdnum' = [fdnum EXCEPT ![p] = 0] /\ newfd' = [newfd EXCEPT ![p] = 0]
  /\ child' = [child EXCEPT ![p] = NULL]
  /\ n' = [n EXCEPT ![p] = 0] /\ i' = [i EXCEPT ![p] = 0]
  /\ fd_ref' = [fd_ref EXCEPT ![p] = 0] /\ pipe_ref' = [pipe_ref EXCEPT ![p] = 0]

(* A timer interrupt that lets the same env go on.                         *)
Tick == quiet # NULL /\ quiet' = NULL /\ UNCHANGED <<maps, ring, locals, pc>>

(* pipe(): the two lowest free descriptors below MAXFD - 1.  Nobody else   *)
(* can see the pages before it returns, and a failing step unmaps whatever *)
(* was mapped before it.                                                   *)
FdFree(p) == {k \in 0 .. MAXFD - 2 : fdmap[<<p, k>>] = "none"}

PipeCreate(p) ==
  /\ At(p, "pipe")
  /\ \E a \in FdFree(p) :
       /\ Least(FdFree(p), a)
       /\ \E b \in FdFree(p) :
            /\ Least(FdFree(p) \ {a}, b)
            /\ fdmap' = [fdmap EXCEPT ![<<p, a>>] = "r", ![<<p, b>>] = "w"]
            /\ datamap' = [datamap EXCEPT ![<<p, a>>] = TRUE, ![<<p, b>>] = TRUE]
  /\ Goto(p, "run")
  /\ UNCHANGED <<env, ring, locals>>

PipeFails(p) ==
  /\ At(p, "pipe")
  /\ MemFails \/ Cardinality(FdFree(p)) < 2
  /\ Goto(p, "run")
  /\ UNCHANGED <<maps, ring, locals>>

-----------------------------------------------------------------------------
(* read, write and pipe_is_closed.                                         *)

Call(p, what, k, size, where) ==
  /\ At(p, "run") /\ what \in Calls
  /\ op' = [op EXCEPT ![p] = what]
  /\ fdnum' = [fdnum EXCEPT ![p] = k]
  /\ n' = [n EXCEPT ![p] = size]
  /\ Goto(p, where)
  /\ UNCHANGED <<maps, ring, newfd, child, i, fd_ref, pipe_ref>>

ReadCall(p) ==
  \E k \in FdNum, size \in 1 .. MaxReq :
    /\ fdmap[<<p, k>>] = "r"
    /\ \A q \in Envs : op[q] # "read"
    /\ Call(p, "read", k, size, "test")

WriteCall(p) ==
  \E k \in FdNum, size \in 1 .. MaxReq :
    /\ fdmap[<<p, k>>] = "w"
    /\ \A q \in Envs : op[q] # "write"
    /\ nwritten + size <= MaxBytes
    /\ Call(p, "write", k, size, "test")

PollCall(p) ==
  \E k \in FdNum : fdmap[<<p, k>>] # "none" /\ Call(p, "poll", k, 0, "snap")

BlockedBug(p) == IF op[p] = "read" THEN p_rpos = p_wpos
                 ELSE p_wpos - p_rpos = PIPE_SIZE

(* The loop conditions of pipe_read and pipe_write.                        *)
Blocked(p) == IF op[p] = "read" THEN p_rpos = p_wpos
              ELSE (p_wpos - p_rpos) % WORD = PIPE_SIZE

Test(p) ==
  /\ At(p, "test")
  /\ Goto(p, IF Blocked(p) THEN "snap" ELSE "xfer")
  /\ UNCHANGED <<maps, ring, locals>>

(* _pipe_is_closed: read env_runs, the two reference counts, and env_runs  *)
(* again.                                                                  *)
Snap(p) ==
  /\ At(p, "snap")
  /\ pc' = [pc EXCEPT ![p] = "fdref"] /\ quiet' = p
  /\ UNCHANGED <<maps, ring, locals>>

FdRef(p) ==
  /\ At(p, "fdref")
  /\ fd_ref' = [fd_ref EXCEPT ![p] = Cardinality(Holders(fdmap[<<p, fdnum[p]>>]))]
  /\ Goto(p, "pipref")
  /\ UNCHANGED <<maps, ring, op, fdnum, newfd, child, n, i, pipe_ref>>

PipRef(p) ==
  /\ At(p, "pipref")
  /\ pipe_ref' = [pipe_ref EXCEPT ![p] = Cardinality(Mapped)]
  /\ Goto(p, "decide")
  /\ UNCHANGED <<maps, ring, op, fdnum, newfd, child, n, i, fd_ref>>

StableBug(p) == TRUE

Stable(p) == quiet = p

(* env_runs has changed: once more.                                        *)
Retry(p) ==
  /\ At(p, "decide") /\ ~Stable(p)
  /\ Goto(p, "snap")
  /\ fd_ref' = [fd_ref EXCEPT ![p] = 0] /\ pipe_ref' = [pipe_ref EXCEPT ![p] = 0]
  /\ UNCHANGED <<maps, ring, op, fdnum, newfd, child, n, i>>

SeesClosed(p) == At(p, "decide") /\ Stable(p) /\ fd_ref[p] = pipe_ref[p]

DecideBug(p) ==
  /\ At(p, "decide") /\ Stable(p)
  /\ IF SeesClosed(p) \/ (op[p] = "read" /\ i[p] > 0) \/ op[p] = "poll"
     THEN Return(p, "run")
     ELSE /\ pc' = [pc EXCEPT ![p] = "xfer"] /\ quiet' = NULL
          /\ fd_ref' = [fd_ref EXCEPT ![p] = 0] /\ pipe_ref' = [pipe_ref EXCEPT ![p] = 0]
          /\ UNCHANGED <<op, fdnum, newfd, child, n, i>>
  /\ UNCHANGED <<maps, ring>>

(* A reader that has something, and every poll, return on any answer.      *)
Decide(p) ==
  /\ At(p, "decide") /\ Stable(p)
  /\ IF SeesClosed(p) \/ (op[p] = "read" /\ i[p] > 0) \/ op[p] = "poll"
     THEN Return(p, "run")
     ELSE /\ pc' = [pc EXCEPT ![p] = "test"] /\ quiet' = NULL
          /\ fd_ref' = [fd_ref EXCEPT ![p] = 0] /\ pipe_ref' = [pipe_ref EXCEPT ![p] = 0]
          /\ UNCHANGED <<op, fdnum, newfd, child, n, i>>
  /\ UNCHANGED <<maps, ring>>

(* One byte is copied, then the position moves.                            *)
Xfer(p) ==
  /\ At(p, "xfer")
  /\ \/ /\ op[p] = "read"
        /\ got' = Append(got, p_buf[p_rpos % PIPE_SIZE])
        /\ UNCHANGED <<p_buf, nwritten>>
     \/ /\ op[p] = "write"
        /\ nwritten' = nwritten + 1
        /\ p_buf' = [p_buf EXCEPT ![p_wpos % PIPE_SIZE] = nwritten + 1]
        /\ UNCHANGED got
  /\ Goto(p, "bump")
  /\ UNCHANGED <<maps, locals, p_rpos, p_wpos>>

Bump(p) ==
  /\ At(p, "bump")
  /\ IF op[p] = "read"
     THEN p_rpos' = (p_rpos + 1) % WORD /\ UNCHANGED p_wpos
     ELSE p_wpos' = (p_wpos + 1) % WORD /\ UNCHANGED p_rpos
  /\ IF i[p] + 1 = n[p]
     THEN Return(p, "run")
     ELSE /\ i' = [i EXCEPT ![p] = @ + 1]
          /\ Goto(p, "test")
          /\ UNCHANGED <<op, fdnum, newfd, child, n, fd_ref, pipe_ref>>
  /\ UNCHANGED <<maps, p_buf, nwritten, got>>

-----------------------------------------------------------------------------
(* close, dup and exit.  pipe_close unmaps the fd page, then the data      *)
(* page; the unmap of fd_close after it finds nothing.                     *)

CloseCall(p) ==
  /\ At(p, "run") /\ "close" \in Calls
  /\ \E k \in FdNum : fdmap[<<p, k>>] # "none" /\ newfd' = [newfd EXCEPT ![p] = k]
  /\ op' = [op EXCEPT ![p] = "close"]
  /\ Goto(p, "unmapfd")
  /\ UNCHANGED <<maps, ring, fdnum, child, n, i, fd_ref, pipe_ref>>

UnmapFd(p) ==
  /\ At(p, "unmapfd")
  /\ fdmap' = [fdmap EXCEPT ![<<p, newfd[p]>>] = "none"]
  /\ Goto(p, "unmapdata")
  /\ UNCHANGED <<env, datamap, ring, locals>>

UnmapDataBug(p) ==
  /\ At(p, "unmapdata")
  /\ UNCHANGED datamap
  /\ \/ op[p] = "close" /\ Return(p, "run")
     \/ op[p] = "dup" /\ Goto(p, "dupdata") /\ UNCHANGED locals
     \/ op[p] = "exit" /\ Goto(p, "exit") /\ UNCHANGED locals
  /\ UNCHANGED <<env, fdmap, ring>>

UnmapData(p) ==
  /\ At(p, "unmapdata")
  /\ datamap' = [datamap EXCEPT ![<<p, newfd[p]>>] = FALSE]
  /\ \/ op[p] = "close" /\ Return(p, "run")
     \/ op[p] = "dup" /\ Goto(p, "dupdata") /\ UNCHANGED locals
     \/ op[p] = "exit" /\ Goto(p, "exit") /\ UNCHANGED locals
  /\ UNCHANGED <<env, fdmap, ring>>

(* dup(k, m): close m if it is open, map the data page, then the fd page.  *)
DupCall(p) ==
  /\ At(p, "run") /\ "dup" \in Calls
  /\ \E k, m \in FdNum :
       /\ fdmap[<<p, k>>] # "none"
       /\ fdnum' = [fdnum EXCEPT ![p] = k]
       /\ newfd' = [newfd EXCEPT ![p] = m]
       /\ Goto(p, IF fdmap[<<p, m>>] = "none" THEN "dupdata" ELSE "unmapfd")
  /\ op' = [op EXCEPT ![p] = "dup"]
  /\ UNCHANGED <<maps, ring, child, n, i, fd_ref, pipe_ref>>

DupDataBug(p) ==
  /\ At(p, "dupdata")
  /\ Goto(p, "dupfd")
  /\ UNCHANGED <<maps, ring, locals>>

DupData(p) ==
  /\ At(p, "dupdata")
  /\ datamap' = [datamap EXCEPT ![<<p, newfd[p]>>] = datamap[<<p, fdnum[p]>>]]
  /\ Goto(p, "dupfd")
  /\ UNCHANGED <<env, fdmap, ring, locals>>

(* dup(k, k) has closed k: mapping its fd page fails, and so dup has only  *)
(* closed a descriptor.                                                    *)
DupFd(p) ==
  /\ At(p, "dupfd")
  /\ fdmap' = [fdmap EXCEPT ![<<p, newfd[p]>>] = fdmap[<<p, fdnum[p]>>]]
  /\ Return(p, "run")
  /\ UNCHANGED <<env, datamap, ring>>

(* No page table for the data page: nothing is mapped yet.                 *)
DupFails(p) ==
  /\ At(p, "dupdata") /\ MemFails
  /\ Return(p, "run")
  /\ UNCHANGED <<maps, ring>>

ExitCall(p) ==
  /\ At(p, "run") /\ "exit" \in Calls
  /\ op' = [op EXCEPT ![p] = "exit"]
  /\ Goto(p, "exit")
  /\ UNCHANGED <<maps, ring, fdnum, newfd, child, n, i, fd_ref, pipe_ref>>

(* close_all, then sys_env_destroy.                                        *)
Open(p) == {k \in FdNum : fdmap[<<p, k>>] # "none"}

CloseNext(p) ==
  /\ At(p, "exit")
  /\ \E k \in Open(p) : Least(Open(p), k) /\ newfd' = [newfd EXCEPT ![p] = k]
  /\ Goto(p, "unmapfd")
  /\ UNCHANGED <<maps, ring, op, fdnum, child, n, i, fd_ref, pipe_ref>>

Destroy(p) ==
  /\ At(p, "exit") /\ Open(p) = {}
  /\ env' = [env EXCEPT ![p] = "zombie"]
  /\ Return(p, "run")
  /\ UNCHANGED <<fdmap, datamap, ring>>

-----------------------------------------------------------------------------
(* fork, and spawn, give the child the parent's PTE_LIBRARY pages in the   *)
(* order of their addresses: the table of fd pages lies below the data     *)
(* pages.                                                                  *)

ForkCall(p) ==
  /\ At(p, "run") /\ "fork" \in Calls
  /\ \E c \in Envs : /\ env[c] = "unused"
                     /\ env' = [env EXCEPT ![c] = "embryo"]
                     /\ child' = [child EXCEPT ![p] = c]
  /\ op' = [op EXCEPT ![p] = "fork"]
  /\ Goto(p, "fork")
  /\ UNCHANGED <<fdmap, datamap, ring, fdnum, newfd, n, i, fd_ref, pipe_ref>>

FdsToCopy(p) == {k \in FdNum : fdmap[<<p, k>>] # fdmap[<<child[p], k>>]}
DataToCopy(p) == {k \in FdNum : datamap[<<p, k>>] # datamap[<<child[p], k>>]}

ForkFd(p) ==
  /\ At(p, "fork")
  /\ \E k \in FdsToCopy(p) :
       /\ Least(FdsToCopy(p), k)
       /\ fdmap' = [fdmap EXCEPT ![<<child[p], k>>] = fdmap[<<p, k>>]]
  /\ Goto(p, "fork")
  /\ UNCHANGED <<env, datamap, ring, locals>>

ForkData(p) ==
  /\ At(p, "fork") /\ FdsToCopy(p) = {}
  /\ \E k \in DataToCopy(p) :
       /\ Least(DataToCopy(p), k)
       /\ datamap' = [datamap EXCEPT ![<<child[p], k>>] = TRUE]
  /\ Goto(p, "fork")
  /\ UNCHANGED <<env, fdmap, ring, locals>>

ForkStart(p) ==
  /\ At(p, "fork") /\ FdsToCopy(p) = {} /\ DataToCopy(p) = {}
  /\ env' = [env EXCEPT ![child[p]] = "live"]
  /\ Return(p, "run")
  /\ UNCHANGED <<fdmap, datamap, ring>>

(* syscall_mem_map fails: fork panics, spawn returns an error.  Nobody     *)
(* unmaps what the child has got so far.                                   *)
ForkFails(p) ==
  /\ At(p, "fork") /\ MemFails
  /\ FdsToCopy(p) # {} \/ DataToCopy(p) # {}
  /\ \/ Return(p, "run")
     \/ /\ op' = [op EXCEPT ![p] = "exit"]
        /\ child' = [child EXCEPT ![p] = NULL]
        /\ Goto(p, "exit")
        /\ UNCHANGED <<fdnum, newfd, n, i, fd_ref, pipe_ref>>
  /\ UNCHANGED <<maps, ring>>

-----------------------------------------------------------------------------
Finished == (\A p \in Envs : env[p] # "live") /\ UNCHANGED vars

(* The steps an env takes inside a routine it has called.                  *)
Inside(p) ==
  \/ PipeCreate(p) \/ PipeFails(p)
  \/ Test(p) \/ Snap(p) \/ FdRef(p) \/ PipRef(p) \/ Retry(p) \/ Decide(p)
  \/ Xfer(p) \/ Bump(p)
  \/ UnmapFd(p) \/ UnmapData(p) \/ DupData(p) \/ DupFd(p) \/ DupFails(p)
  \/ CloseNext(p) \/ Destroy(p)
  \/ ForkFd(p) \/ ForkData(p) \/ ForkStart(p) \/ ForkFails(p)

CallStep(p) ==
  \/ ReadCall(p) \/ WriteCall(p) \/ PollCall(p) \/ CloseCall(p) \/ DupCall(p)
  \/ ExitCall(p) \/ ForkCall(p)

Next == Tick \/ Finished \/ \E p \in Envs : Inside(p) \/ CallStep(p)

(* The scheduler runs every env, and a slice of half a million cycles is   *)
(* long enough for the three reads of _pipe_is_closed: an env that tries   *)
(* again and again completes them in one slice.  What programs call is     *)
(* up to them.                                                             *)
Fairness ==
  \A p \in Envs : /\ WF_vars(Inside(p))
                  /\ SF_vars(FdRef(p) /\ Stable(p))
                  /\ SF_vars(PipRef(p) /\ Stable(p))
                  /\ SF_vars(Decide(p))

Spec == Init /\ [][Next]_vars /\ Fairness

-----------------------------------------------------------------------------
MapsType ==
  /\ env \in [Envs -> {"unused", "embryo", "live", "zombie"}]
  /\ fdmap \in [Slot -> End] /\ datamap \in [Slot -> BOOLEAN]

RingType ==
  /\ p_rpos \in 0 .. WORD - 1 /\ p_wpos \in 0 .. WORD - 1
  /\ p_buf \in [0 .. PIPE_SIZE - 1 -> Nat]
  /\ nwritten \in Nat /\ got \in Seq(Nat)

Place == {"pipe", "run", "test", "snap", "fdref", "pipref", "decide", "xfer", "bump",
          "unmapfd", "unmapdata", "dupdata", "dupfd", "exit", "fork"}

PcType == pc \in [Envs -> Place] /\ quiet \in Envs \cup {NULL}

LocalsType ==
  /\ op \in [Envs -> {"none", "read", "write", "poll", "close", "dup", "exit", "fork"}]
  /\ fdnum \in [Envs -> FdNum] /\ newfd \in [Envs -> FdNum]
  /\ child \in [Envs -> Envs \cup {NULL}]
  /\ n \in [Envs -> Nat] /\ i \in [Envs -> Nat]
  /\ fd_ref \in [Envs -> Nat] /\ pipe_ref \in [Envs -> Nat]

(* The shared pages, the struct Pipe and the locals of every routine.      *)
TypeOK == MapsType /\ RingType /\ PcType /\ LocalsType

(* Bytes arrive in the order they were written, none lost and none twice,  *)
(* whatever the interleaving of pipe_read and pipe_write and however often *)
(* the positions have wrapped; the writer never runs over unread bytes.    *)
FifoOrder ==
  /\ \A k \in 1 .. Len(got) : got[k] = k
  /\ nwritten - Len(got) <= PIPE_SIZE

(* When _pipe_is_closed answers "closed", no env has the other end open,   *)
(* although the two reference counts are read in separate steps while      *)
(* others dup, close and exit; as long as no fork is copying the pages.    *)
ClosedVerdictSound ==
  \A p \in Envs : SeesClosed(p) /\ (\A q \in Envs : env[q] # "embryo") =>
    Holders(Other(fdmap[<<p, fdnum[p]>>])) = {}

(* pipe_read returns 0 only if nothing is left to read: pipe.c:124-125.    *)
EofMeansDrained ==
  \A p \in Envs : SeesClosed(p) /\ op[p] = "read" /\ i[p] = 0 => p_rpos = p_wpos

(* A reader or writer is not stuck when the last descriptor of the other   *)
(* end is gone: it returns.                                                *)
HangupReturns ==
  \A p \in Envs :
    (op[p] \in {"read", "write"} /\ Holders(Other(fdmap[<<p, fdnum[p]>>])) = {})
      ~> op[p] \notin {"read", "write"}

-----------------------------------------------------------------------------
(* The inductive invariant behind ClosedVerdictSound.                      *)

(* An fd page without its data page: only in a child that fork is filling. *)
DataBehindFd ==
  \A s \in Slot : fdmap[s] # "none" /\ ~datamap[s] => env[s[1]] = "embryo"

(* What the steps of close and dup rely on.                                *)
CloseOk ==
  \A p \in Envs : env[p] = "live" /\ pc[p] \in {"unmapdata", "dupdata", "dupfd"} =>
    /\ fdmap[<<p, newfd[p]>>] = "none"
    /\ pc[p] = "dupfd" /\ fdmap[<<p, fdnum[p]>>] # "none" => datamap[<<p, newfd[p]>>]

(* An env that has not started is where fork will start it, and a child    *)
(* has one parent.                                                         *)
ForkOk ==
  /\ \A p \in Envs : env[p] \in {"unused", "embryo"} => pc[p] = "run"
  /\ \A p \in Envs : env[p] = "live" /\ pc[p] = "fork" =>
       child[p] \in Envs /\ env[child[p]] = "embryo"
  /\ \A p, q \in Envs :
       env[p] = "live" /\ pc[p] = "fork" /\ env[q] = "live" /\ pc[q] = "fork"
         /\ child[p] = child[q] => p = q

(* A descriptor stays open while its env is in read, write or poll.        *)
FdOpen ==
  \A p \in Envs : env[p] = "live"
                   /\ pc[p] \in {"test", "snap", "fdref", "pipref", "decide", "xfer", "bump"} =>
    fdmap[<<p, fdnum[p]>>] # "none"

(* The counts _pipe_is_closed has read are current while env_runs is.      *)
RefsCurrent ==
  \A p \in Envs : quiet = p =>
    /\ pc[p] \in {"pipref", "decide"} =>
         fd_ref[p] = Cardinality(Holders(fdmap[<<p, fdnum[p]>>]))
    /\ pc[p] = "decide" => pipe_ref[p] = Cardinality(Mapped)

(* What every step of the routines of pipe.c and fd.c preserves: enough    *)
(* for the counts read by _pipe_is_closed to tell whether the other end is *)
(* open, whatever was closed, duplicated or forked before.                 *)
PipeInv == TypeOK /\ DataBehindFd /\ CloseOk /\ ForkOk /\ FdOpen /\ RefsCurrent

-----------------------------------------------------------------------------
(* The inductive invariant behind FifoOrder.                               *)

(* An env that copies bytes is in read or write, and one each at most.     *)
RoutineOk ==
  /\ \A p \in Envs :
       /\ pc[p] \in {"test", "xfer", "bump"} => op[p] \in {"read", "write"}
       /\ pc[p] \in {"snap", "fdref", "pipref", "decide"} => op[p] \in {"read", "write", "poll"}
  /\ \A p, q \in Envs : op[p] \in {"read", "write"} /\ op[q] = op[p] => p = q

(* Between the copy of a byte and the move of its position the history is  *)
(* one ahead of struct Pipe.                                               *)
Pending(what) == IF \E p \in Envs : pc[p] = "bump" /\ op[p] = what THEN 1 ELSE 0
Taken == Len(got) - Pending("read")
Stored == nwritten - Pending("write")

(* The positions are the counts of bytes modulo the word; the reader stays *)
(* behind what the writer has announced, the writer within PIPE_SIZE of    *)
(* what the reader has released, and each byte in between is in its cell.  *)
RingOk ==
  /\ p_rpos = Taken % WORD /\ p_wpos = Stored % WORD
  /\ Len(got) <= Stored /\ nwritten - Taken <= PIPE_SIZE
  /\ \A p \in Envs : pc[p] = "xfer" =>
       IF op[p] = "read" THEN Len(got) < Stored ELSE nwritten - Taken < PIPE_SIZE
  /\ \A k \in 1 .. nwritten : Taken < k => p_buf[(k - 1) % PIPE_SIZE] = k

(* What every step of pipe_read and pipe_write preserves, whatever the     *)
(* size of the buffer and of the word.                                     *)
FifoInv == TypeOK /\ RoutineOk /\ RingOk /\ FifoOrder
=============================================================================
