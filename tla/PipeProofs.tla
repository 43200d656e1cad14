----------------------------- MODULE PipeProofs -----------------------------
EXTENDS Pipe, FiniteSetTheorems, SequenceTheorems, TLAPS

(* The page reference counts of the pipe are numbers.                      *)
LEMMA FiniteSlots ==
  /\ IsFiniteSet(Slot)
  /\ \A e : Cardinality(Holders(e)) \in Nat
  /\ Cardinality(Mapped) \in Nat
<1>1. IsFiniteSet(FdNum)
  <2>1. MAXFD - 1 \in Int
    BY PipeAssumption
  <2>2. IsFiniteSet(0 .. MAXFD - 1)
    BY <2>1, FS_Interval
  <2> QED BY <2>2 DEF FdNum
<1>2. IsFiniteSet(Slot)
  BY <1>1, PipeAssumption, FS_Product DEF Slot
<1>3. \A S \in SUBSET Slot : Cardinality(S) \in Nat
  BY <1>2, FS_Subset, FS_CardinalityType
<1>4. Mapped \in SUBSET Slot /\ \A e : Holders(e) \in SUBSET Slot
  BY DEF Mapped, Holders
<1> QED BY <1>2, <1>3, <1>4

(* Moving on keeps the types of what it writes.                            *)
LEMMA GotoType ==
  ASSUME TypeOK, NEW p \in Envs, NEW where \in Place, Goto(p, where)
  PROVE  PcType'
BY DEF TypeOK, PcType, Goto

(* So does returning.                                                      *)
LEMMA ReturnType ==
  ASSUME TypeOK, NEW p \in Envs, NEW where \in Place, Return(p, where)
  PROVE  PcType' /\ LocalsType'
<1>1. 0 \in FdNum /\ 0 \in Nat
  BY PipeAssumption DEF FdNum
<1>2. PcType'
  BY DEF TypeOK, PcType, Return
<1>3. LocalsType'
  BY <1>1 DEF TypeOK, LocalsType, Return
<1> QED BY <1>2, <1>3

(* And entering read, write or pipe_is_closed.                             *)
LEMMA CallType ==
  ASSUME TypeOK, NEW p \in Envs, NEW what \in {"read", "write", "poll"}, NEW k \in FdNum,
         NEW size \in Nat, NEW where \in Place, Call(p, what, k, size, where)
  PROVE  TypeOK'
<1>1. MapsType' /\ RingType'
  BY DEF TypeOK, MapsType, RingType, Call, maps, ring
<1>2. PcType'
  BY GotoType DEF Call
<1>3. LocalsType'
  BY DEF TypeOK, LocalsType, Call
<1> QED BY <1>1, <1>2, <1>3 DEF TypeOK

(* Every step of a routine keeps the types of the variables.               *)
LEMMA TypeStep ==
  ASSUME TypeOK, [Next]_vars
  PROVE  TypeOK'
<1> USE DEF TypeOK, Place
<1>1. UNCHANGED maps => MapsType'
  BY DEF MapsType, maps
<1>2. UNCHANGED ring => RingType'
  BY DEF RingType, ring
<1>3. UNCHANGED locals => LocalsType'
  BY DEF LocalsType, locals
<1>4. CASE Tick
  BY <1>1, <1>2, <1>3, <1>4 DEF Tick, PcType
<1>5. CASE Finished \/ UNCHANGED vars
  BY <1>1, <1>2, <1>3, <1>5 DEF Finished, vars, PcType
<1>6. ASSUME NEW p \in Envs, Inside(p) \/ CallStep(p) PROVE TypeOK'
  <2>1. CASE PipeFails(p)
    BY <1>1, <1>2, <1>3, <2>1, GotoType DEF PipeFails
  <2>2. CASE Test(p)
    BY <1>1, <1>2, <1>3, <2>2, GotoType DEF Test
  <2>3. CASE Snap(p)
    BY <1>1, <1>2, <1>3, <2>3 DEF Snap, PcType
  <2>4. CASE FdRef(p)
    <3>1. LocalsType'
      BY <2>4, FiniteSlots DEF FdRef, LocalsType
    <3> QED BY <1>1, <1>2, <1>3, <2>4, <3>1, GotoType DEF FdRef
  <2>5. CASE PipRef(p)
    <3>1. LocalsType'
      BY <2>5, FiniteSlots DEF PipRef, LocalsType
    <3> QED BY <1>1, <1>2, <1>3, <2>5, <3>1, GotoType DEF PipRef
  <2>6. CASE Retry(p)
    <3>1. LocalsType'
      BY <2>6 DEF Retry, LocalsType
    <3> QED BY <1>1, <1>2, <1>3, <2>6, <3>1, GotoType DEF Retry
  <2>7. CASE CloseCall(p)
    <3>1. LocalsType'
      BY <2>7 DEF CloseCall, LocalsType
    <3> QED BY <1>1, <1>2, <1>3, <2>7, <3>1, GotoType DEF CloseCall
  <2>8. CASE DupCall(p)
    <3>1. LocalsType'
      BY <2>8 DEF DupCall, LocalsType
    <3> QED BY <1>1, <1>2, <1>3, <2>8, <3>1, GotoType DEF DupCall
  <2>9. CASE ExitCall(p)
    <3>1. LocalsType'
      BY <2>9 DEF ExitCall, LocalsType
    <3> QED BY <1>1, <1>2, <1>3, <2>9, <3>1, GotoType DEF ExitCall
  <2>10. CASE CloseNext(p)
    <3>1. LocalsType'
      BY <2>10 DEF CloseNext, LocalsType, Open
    <3> QED BY <1>1, <1>2, <1>3, <2>10, <3>1, GotoType DEF CloseNext
  <2>11. CASE PipeCreate(p)
    <3>1. MapsType'
      BY <2>11 DEF PipeCreate, MapsType, End, FdFree
    <3> QED BY <1>1, <1>2, <1>3, <2>11, <3>1, GotoType DEF PipeCreate
  <2>12. CASE UnmapFd(p)
    <3>1. MapsType'
      BY <2>12 DEF UnmapFd, MapsType, End
    <3> QED BY <1>1, <1>2, <1>3, <2>12, <3>1, GotoType DEF UnmapFd
  <2>13. CASE DupData(p)
    <3>1. MapsType'
      <4>1. <<p, fdnum[p]>> \in Slot
        BY DEF Slot, LocalsType
      <4>2. datamap[<<p, fdnum[p]>>] \in BOOLEAN
        BY <4>1 DEF MapsType
      <4> QED BY <2>13, <4>2 DEF DupData, MapsType
    <3> QED BY <1>1, <1>2, <1>3, <2>13, <3>1, GotoType DEF DupData
  <2>14. CASE ForkFd(p)
    <3>1. MapsType'
      <4>1. PICK k \in FdsToCopy(p) : fdmap' = [fdmap EXCEPT ![<<child[p], k>>] = fdmap[<<p, k>>]]
        BY <2>14 DEF ForkFd
      <4>2. <<p, k>> \in Slot
        BY DEF Slot, FdsToCopy
      <4>3. fdmap[<<p, k>>] \in End
        BY <4>2 DEF MapsType
      <4> QED BY <2>14, <4>1, <4>3 DEF ForkFd, MapsType
    <3> QED BY <1>1, <1>2, <1>3, <2>14, <3>1, GotoType DEF ForkFd
  <2>15. CASE ForkData(p)
    <3>1. MapsType'
      BY <2>15 DEF ForkData, MapsType
    <3> QED BY <1>1, <1>2, <1>3, <2>15, <3>1, GotoType DEF ForkData
  <2>16. CASE DupFd(p)
    <3>1. MapsType'
      <4>1. <<p, fdnum[p]>> \in Slot
        BY DEF Slot, LocalsType
      <4> QED BY <2>16, <4>1 DEF DupFd, MapsType
    <3> QED BY <1>1, <1>2, <1>3, <2>16, <3>1, ReturnType DEF DupFd
  <2>17. CASE Destroy(p)
    <3>1. MapsType'
      BY <2>17 DEF Destroy, MapsType
    <3> QED BY <1>1, <1>2, <1>3, <2>17, <3>1, ReturnType DEF Destroy
  <2>18. CASE ForkStart(p)
    <3>1. MapsType'
      BY <2>18 DEF ForkStart, MapsType
    <3> QED BY <1>1, <1>2, <1>3, <2>18, <3>1, ReturnType DEF ForkStart
  <2>19. CASE ForkCall(p)
    <3>1. MapsType'
      BY <2>19 DEF ForkCall, MapsType
    <3>2. LocalsType'
      BY <2>19 DEF ForkCall, LocalsType
    <3> QED BY <1>1, <1>2, <1>3, <2>19, <3>1, <3>2, GotoType DEF ForkCall
  <2>20. CASE DupFails(p)
    BY <1>1, <1>2, <1>3, <2>20, ReturnType DEF DupFails
  <2>21. CASE UnmapData(p)
    <3>1. MapsType'
      BY <2>21 DEF UnmapData, MapsType
    <3> QED BY <1>1, <1>2, <1>3, <2>21, <3>1, GotoType, ReturnType DEF UnmapData
  <2>22. CASE ForkFails(p)
    <3>1. CASE Return(p, "run")
      BY <1>1, <1>2, <1>3, <2>22, <3>1, ReturnType DEF ForkFails
    <3>2. CASE ~Return(p, "run")
      <4>1. LocalsType'
        BY <2>22, <3>2 DEF ForkFails, LocalsType
      <4> QED BY <1>1, <1>2, <1>3, <2>22, <3>2, <4>1, GotoType DEF ForkFails
    <3> QED BY <3>1, <3>2
  <2>23. CASE Decide(p)
    <3>1. CASE Return(p, "run")
      BY <1>1, <1>2, <1>3, <2>23, <3>1, ReturnType DEF Decide
    <3>2. CASE ~Return(p, "run")
      <4>1. LocalsType' /\ PcType'
        BY <2>23, <3>2 DEF Decide, LocalsType, PcType
      <4> QED BY <1>1, <1>2, <1>3, <2>23, <4>1 DEF Decide
    <3> QED BY <3>1, <3>2
  <2>24. CASE Xfer(p)
    <3>1. p_rpos % PIPE_SIZE \in 0 .. PIPE_SIZE - 1
      BY PipeAssumption DEF RingType
    <3>2. RingType'
      <4>1. p_buf[p_rpos % PIPE_SIZE] \in Nat
        BY <3>1 DEF RingType
      <4>2. Append(got, p_buf[p_rpos % PIPE_SIZE]) \in Seq(Nat)
        BY <4>1, AppendProperties DEF RingType
      <4>3. CASE op[p] = "read"
        BY <2>24, <4>2, <4>3 DEF Xfer, RingType
      <4>4. CASE op[p] # "read"
        <5>1. nwritten + 1 \in Nat
          BY DEF RingType
        <5>2. /\ p_buf' = [p_buf EXCEPT ![p_wpos % PIPE_SIZE] = nwritten + 1]
              /\ nwritten' = nwritten + 1 /\ UNCHANGED <<got, p_rpos, p_wpos>>
          BY <2>24, <4>4 DEF Xfer
        <5>3. p_buf' \in [0 .. PIPE_SIZE - 1 -> Nat]
          BY <5>1, <5>2 DEF RingType
        <5> QED BY <5>1, <5>2, <5>3 DEF RingType
      <4> QED BY <4>3, <4>4
    <3> QED BY <1>1, <1>2, <1>3, <2>24, <3>2, GotoType DEF Xfer
  <2>25. CASE Bump(p)
    <3>1. (p_rpos + 1) % WORD \in 0 .. WORD - 1 /\ (p_wpos + 1) % WORD \in 0 .. WORD - 1
      BY PipeAssumption DEF RingType
    <3>2. RingType'
      BY <2>25, <3>1 DEF Bump, RingType
    <3>3. CASE Return(p, "run")
      BY <1>1, <1>2, <1>3, <2>25, <3>2, <3>3, ReturnType DEF Bump
    <3>4. CASE ~Return(p, "run")
      <4>1. LocalsType'
        BY <2>25, <3>4 DEF Bump, LocalsType
      <4> QED BY <1>1, <1>2, <1>3, <2>25, <3>2, <3>4, <4>1, GotoType DEF Bump
    <3> QED BY <3>3, <3>4
  <2>26. CASE ReadCall(p) \/ WriteCall(p)
    <3>1. \A size \in 1 .. MaxReq : size \in Nat
      BY PipeAssumption
    <3> QED BY <2>26, <3>1, CallType DEF ReadCall, WriteCall
  <2>27. CASE PollCall(p)
    BY <2>27, CallType DEF PollCall
  <2> QED BY <1>6, <2>1, <2>2, <2>3, <2>4, <2>5, <2>6, <2>7, <2>8, <2>9, <2>10, <2>11, <2>12, <2>13, <2>14, <2>15, <2>16, <2>17, <2>18, <2>19, <2>20, <2>21, <2>22, <2>23, <2>24, <2>25, <2>26, <2>27 DEF Inside, CallStep
<1> QED BY <1>4, <1>5, <1>6 DEF Next

-----------------------------------------------------------------------------
(* Where an env reads or writes the pipe, or asks whether it is closed.    *)
InTransfer == {"test", "snap", "fdref", "pipref", "decide", "xfer", "bump"}

(* A step of p leaves the routines of the others alone.                    *)
OthersKept(p) ==
  /\ \A q \in Envs \ {p} : /\ pc'[q] = pc[q] /\ child'[q] = child[q]
                          /\ fdnum'[q] = fdnum[q] /\ newfd'[q] = newfd[q]
  /\ quiet' \in {p, NULL}

(* Writing one slot of an env leaves the slots of the others alone.        *)
LEMMA OtherSlots ==
  ASSUME NEW f, DOMAIN f = Slot, NEW q, NEW k, NEW v
  PROVE  \A s \in Slot : s[1] # q => [f EXCEPT ![<<q, k>>] = v][s] = f[s]
<1> SUFFICES ASSUME NEW s \in Slot, s[1] # q PROVE [f EXCEPT ![<<q, k>>] = v][s] = f[s]
  OBVIOUS
<1>1. s # <<q, k>>
  OBVIOUS
<1> QED BY <1>1

(* What Goto does to p and to the others.                                  *)
LEMMA GotoFacts ==
  ASSUME TypeOK, NEW p \in Envs, NEW where, Goto(p, where),
         \A q \in Envs \ {p} : child'[q] = child[q] /\ fdnum'[q] = fdnum[q] /\ newfd'[q] = newfd[q]
  PROVE  OthersKept(p) /\ pc'[p] = where
BY DEF TypeOK, PcType, Goto, OthersKept

(* What Return does to them.                                               *)
LEMMA ReturnFacts ==
  ASSUME TypeOK, NEW p \in Envs, NEW where, Return(p, where)
  PROVE  OthersKept(p) /\ pc'[p] = where /\ quiet' = NULL
BY DEF TypeOK, PcType, LocalsType, Return, OthersKept

(* Steps of p that map and unmap nothing.                                  *)
LEMMA LocalStep ==
  ASSUME PipeInv, TypeOK', NEW p \in Envs, env[p] = "live", UNCHANGED maps, OthersKept(p),
         pc'[p] # "fork",
         pc'[p] \notin {"unmapdata", "dupfd"},
         pc'[p] = "dupdata" => fdmap[<<p, newfd'[p]>>] = "none",
         pc'[p] \in InTransfer => fdmap[<<p, fdnum'[p]>>] # "none",
         quiet' = p => /\ pc'[p] \in {"pipref", "decide"} =>
                             fd_ref'[p] = Cardinality(Holders(fdmap[<<p, fdnum'[p]>>]))
                       /\ pc'[p] = "decide" => pipe_ref'[p] = Cardinality(Mapped)
  PROVE  PipeInv'
<1> USE DEF PipeInv, maps
<1>1. DataBehindFd'
  BY DEF DataBehindFd
<1>2. CloseOk'
  BY DEF CloseOk, OthersKept
<1>3. ForkOk'
  BY DEF ForkOk, OthersKept
<1>4. FdOpen'
  BY DEF FdOpen, OthersKept, InTransfer
<1>5. RefsCurrent'
  <2>1. \A e : Holders(e)' = Holders(e)
    BY DEF Holders
  <2>2. Mapped' = Mapped
    BY DEF Mapped
  <2>3. \A q \in Envs : quiet' = q => q = p
    BY PipeAssumption DEF OthersKept
  <2> QED BY <2>1, <2>2, <2>3 DEF RefsCurrent
<1> QED BY <1>1, <1>2, <1>3, <1>4, <1>5

(* Steps of p that map or unmap pages of its own.                          *)
LEMMA OwnSlotsStep ==
  ASSUME PipeInv, TypeOK', NEW p \in Envs, env[p] = "live", UNCHANGED env, OthersKept(p),
         pc'[p] \notin InTransfer \cup {"fork"},
         \A s \in Slot : s[1] # p => fdmap'[s] = fdmap[s] /\ datamap'[s] = datamap[s],
         \A s \in Slot : s[1] = p /\ fdmap'[s] # "none" => datamap'[s],
         pc'[p] \in {"unmapdata", "dupdata", "dupfd"} =>
           /\ fdmap'[<<p, newfd'[p]>>] = "none"
           /\ pc'[p] = "dupfd" /\ fdmap'[<<p, fdnum'[p]>>] # "none" => datamap'[<<p, newfd'[p]>>]
  PROVE  PipeInv'
<1> USE DEF PipeInv
<1>0. \A q \in Envs \ {p} : \A k \in FdNum :
        fdmap'[<<q, k>>] = fdmap[<<q, k>>] /\ datamap'[<<q, k>>] = datamap[<<q, k>>]
  BY DEF Slot
<1>1. DataBehindFd'
  BY DEF DataBehindFd
<1>2. CloseOk'
  <2> SUFFICES ASSUME NEW q \in Envs, env'[q] = "live",
                      pc'[q] \in {"unmapdata", "dupdata", "dupfd"}
               PROVE  /\ fdmap'[<<q, newfd'[q]>>] = "none"
                      /\ pc'[q] = "dupfd" /\ fdmap'[<<q, fdnum'[q]>>] # "none" =>
                           datamap'[<<q, newfd'[q]>>]
    BY DEF CloseOk
  <2>1. CASE q = p
    BY <2>1
  <2>2. CASE q # p
    <3>1. /\ pc[q] = pc'[q] /\ newfd'[q] = newfd[q] /\ fdnum'[q] = fdnum[q]
          /\ newfd[q] \in FdNum /\ fdnum[q] \in FdNum /\ env[q] = "live"
      BY <2>2 DEF OthersKept, TypeOK, LocalsType
    <3>2. /\ fdmap'[<<q, newfd[q]>>] = fdmap[<<q, newfd[q]>>]
          /\ fdmap'[<<q, fdnum[q]>>] = fdmap[<<q, fdnum[q]>>]
          /\ datamap'[<<q, newfd[q]>>] = datamap[<<q, newfd[q]>>]
      BY <1>0, <2>2, <3>1
    <3> QED BY <3>1, <3>2 DEF CloseOk
  <2> QED BY <2>1, <2>2
<1>3. ForkOk'
  BY DEF ForkOk, OthersKept
<1>4. FdOpen'
  BY <1>0 DEF FdOpen, OthersKept, InTransfer, TypeOK, LocalsType
<1>5. RefsCurrent'
  BY PipeAssumption DEF RefsCurrent, OthersKept, InTransfer
<1> QED BY <1>1, <1>2, <1>3, <1>4, <1>5

(* Steps of fork that fill the child's address space.                      *)
LEMMA ChildSlotsStep ==
  ASSUME PipeInv, TypeOK', NEW p \in Envs, At(p, "fork"), UNCHANGED <<env, locals>>,
         Goto(p, "fork"),
         \A s \in Slot : s[1] # child[p] => fdmap'[s] = fdmap[s] /\ datamap'[s] = datamap[s]
  PROVE  PipeInv'
<1> USE DEF PipeInv, locals
<1>1. env[p] = "live" /\ pc[p] = "fork" /\ env[child[p]] = "embryo" /\ child[p] \in Envs
  BY DEF At, ForkOk
<1>2. pc' = pc
  BY <1>1 DEF Goto, TypeOK, PcType
<1>3. \A q \in Envs : env[q] = "live" => \A k \in FdNum :
        fdmap'[<<q, k>>] = fdmap[<<q, k>>] /\ datamap'[<<q, k>>] = datamap[<<q, k>>]
  BY <1>1 DEF Slot
<1>4. DataBehindFd'
  BY <1>1 DEF DataBehindFd
<1>5. CloseOk'
  BY <1>2, <1>3 DEF CloseOk, TypeOK, LocalsType
<1>6. ForkOk'
  BY <1>2 DEF ForkOk
<1>7. FdOpen'
  BY <1>2, <1>3 DEF FdOpen, TypeOK, LocalsType
<1>8. RefsCurrent'
  <2>1. quiet' = p \/ quiet' = NULL
    BY DEF Goto
  <2> QED BY <2>1, <1>1, <1>2, PipeAssumption DEF RefsCurrent
<1> QED BY <1>4, <1>5, <1>6, <1>7, <1>8

(* read, write, pipe_is_closed: no page is mapped or unmapped.             *)
LEMMA TransferSteps ==
  ASSUME PipeInv, TypeOK', NEW p \in Envs,
         \/ PipeFails(p) \/ ReadCall(p) \/ WriteCall(p) \/ PollCall(p)
         \/ Test(p) \/ Snap(p) \/ FdRef(p) \/ PipRef(p) \/ Retry(p) \/ Decide(p)
         \/ Xfer(p) \/ Bump(p)
  PROVE  PipeInv'
<1> USE DEF At, locals
<1>0. TypeOK
  BY DEF PipeInv
<1>1. CASE PipeFails(p)
  <2>1. OthersKept(p) /\ pc'[p] = "run"
    BY <1>0, <1>1, GotoFacts DEF PipeFails
  <2> QED BY <1>1, <2>1, LocalStep DEF PipeFails, InTransfer
<1>2. ASSUME NEW what, NEW k \in FdNum, NEW size, NEW where \in {"test", "snap"},
             fdmap[<<p, k>>] # "none", Call(p, what, k, size, where)
      PROVE  PipeInv'
  <2>1. fdnum' = [fdnum EXCEPT ![p] = k] /\ UNCHANGED <<child, newfd>>
    BY <1>2 DEF Call
  <2>2. fdnum'[p] = k /\ \A q \in Envs \ {p} : fdnum'[q] = fdnum[q]
    BY <1>0, <2>1 DEF TypeOK, LocalsType
  <2>3. OthersKept(p) /\ pc'[p] = where
    BY <1>0, <1>2, <2>1, <2>2, GotoFacts DEF Call
  <2> QED BY <1>2, <2>2, <2>3, LocalStep DEF Call
<1>3. CASE ReadCall(p)
  <2>1. PICK k \in FdNum, size \in 1 .. MaxReq :
          fdmap[<<p, k>>] = "r" /\ Call(p, "read", k, size, "test")
    BY <1>3 DEF ReadCall
  <2> QED BY <2>1, <1>2
<1>4. CASE WriteCall(p)
  <2>1. PICK k \in FdNum, size \in 1 .. MaxReq :
          fdmap[<<p, k>>] = "w" /\ Call(p, "write", k, size, "test")
    BY <1>4 DEF WriteCall
  <2> QED BY <2>1, <1>2
<1>5. CASE PollCall(p)
  BY <1>5, <1>2 DEF PollCall
<1>6. ASSUME pc[p] \in InTransfer, env[p] = "live" PROVE fdmap[<<p, fdnum[p]>>] # "none"
  BY <1>6 DEF PipeInv, FdOpen, InTransfer
<1>7. CASE Test(p) \/ Xfer(p)
  <2>1. OthersKept(p) /\ pc'[p] \in {"snap", "xfer", "bump"}
    BY <1>0, <1>7, GotoFacts DEF Test, Xfer
  <2> QED BY <1>6, <1>7, <2>1, LocalStep DEF Test, Xfer, InTransfer
<1>8. CASE Snap(p)
  <2>1. OthersKept(p) /\ pc'[p] = "fdref"
    BY <1>0, <1>8 DEF Snap, OthersKept, TypeOK, PcType
  <2> QED BY <1>6, <1>8, <2>1, LocalStep DEF Snap, InTransfer
<1>9. CASE FdRef(p)
  <2>1. OthersKept(p) /\ pc'[p] = "pipref"
    BY <1>0, <1>9, GotoFacts DEF FdRef
  <2>2. fd_ref'[p] = Cardinality(Holders(fdmap[<<p, fdnum'[p]>>]))
    BY <1>0, <1>9 DEF FdRef, TypeOK, LocalsType
  <2> QED BY <1>6, <1>9, <2>1, <2>2, LocalStep DEF FdRef, InTransfer
<1>10. CASE PipRef(p)
  <2>1. OthersKept(p) /\ pc'[p] = "decide"
    BY <1>0, <1>10, GotoFacts DEF PipRef
  <2>2. pipe_ref'[p] = Cardinality(Mapped)
    BY <1>0, <1>10 DEF PipRef, TypeOK, LocalsType
  <2>3. quiet' = p => fd_ref'[p] = Cardinality(Holders(fdmap[<<p, fdnum'[p]>>]))
    <3>1. quiet' = p => quiet = p
      BY <1>10, PipeAssumption DEF PipRef, Goto
    <3> QED BY <1>10, <3>1 DEF PipRef, PipeInv, RefsCurrent
  <2> QED BY <1>6, <1>10, <2>1, <2>2, <2>3, LocalStep DEF PipRef, InTransfer
<1>11. CASE Retry(p)
  <2>1. OthersKept(p) /\ pc'[p] = "snap"
    BY <1>0, <1>11, GotoFacts DEF Retry
  <2> QED BY <1>6, <1>11, <2>1, LocalStep DEF Retry, InTransfer
<1>12. CASE Decide(p)
  <2>1. OthersKept(p) /\ pc'[p] \in {"run", "test"} /\ (pc'[p] = "test" => fdnum'[p] = fdnum[p])
    <3>1. CASE Return(p, "run")
      BY <1>0, <3>1, ReturnFacts
    <3>2. CASE ~Return(p, "run")
      BY <1>0, <1>12, <3>2 DEF Decide, OthersKept, TypeOK, PcType
    <3> QED BY <3>1, <3>2
  <2> QED BY <1>6, <1>12, <2>1, LocalStep DEF Decide, InTransfer
<1>13. CASE Bump(p)
  <2>1. OthersKept(p) /\ pc'[p] \in {"run", "test"} /\ (pc'[p] = "test" => fdnum'[p] = fdnum[p])
    <3>1. CASE Return(p, "run")
      BY <1>0, <3>1, ReturnFacts
    <3>2. CASE ~Return(p, "run")
      BY <1>0, <1>13, <3>2, GotoFacts DEF Bump
    <3> QED BY <3>1, <3>2
  <2> QED BY <1>6, <1>13, <2>1, LocalStep DEF Bump, InTransfer
<1> QED BY <1>1, <1>3, <1>4, <1>5, <1>7, <1>8, <1>9, <1>10, <1>11, <1>12, <1>13

(* close, dup and exit: each leaves a closed slot without pages, and maps  *)
(* the data page of a new descriptor before its fd page.                   *)
LEMMA CloseSteps ==
  ASSUME PipeInv, TypeOK', NEW p \in Envs,
         \/ PipeCreate(p) \/ CloseCall(p) \/ UnmapFd(p) \/ UnmapData(p)
         \/ DupCall(p) \/ DupData(p) \/ DupFd(p) \/ DupFails(p)
         \/ ExitCall(p) \/ CloseNext(p)
  PROVE  PipeInv'
<1> USE DEF At, locals
<1>0. TypeOK
  BY DEF PipeInv
<1>1. env[p] = "live"
  BY DEF PipeCreate, CloseCall, UnmapFd, UnmapData, DupCall, DupData, DupFd, DupFails,
         ExitCall, CloseNext
<1>2. \A k \in FdNum : <<p, k>> \in Slot /\ (fdmap[<<p, k>>] # "none" => datamap[<<p, k>>])
  BY <1>1 DEF PipeInv, DataBehindFd, Slot
<1>3. \A s \in Slot : s[1] = p => \E k \in FdNum : s = <<p, k>>
  BY DEF Slot
<1>4. newfd[p] \in FdNum /\ fdnum[p] \in FdNum
  BY <1>0 DEF TypeOK, LocalsType
<1>5. CASE PipeCreate(p)
  <2>1. OthersKept(p) /\ pc'[p] = "run"
    BY <1>0, <1>5, GotoFacts DEF PipeCreate
  <2>2. PICK a \in FdFree(p), b \in FdFree(p) :
          /\ fdmap' = [fdmap EXCEPT ![<<p, a>>] = "r", ![<<p, b>>] = "w"]
          /\ datamap' = [datamap EXCEPT ![<<p, a>>] = TRUE, ![<<p, b>>] = TRUE]
    BY <1>5 DEF PipeCreate
  <2>3. \A s \in Slot : s[1] # p => fdmap'[s] = fdmap[s] /\ datamap'[s] = datamap[s]
    <3> SUFFICES ASSUME NEW s \in Slot, s[1] # p
                 PROVE  fdmap'[s] = fdmap[s] /\ datamap'[s] = datamap[s]
      OBVIOUS
    <3>1. s # <<p, a>> /\ s # <<p, b>>
      OBVIOUS
    <3>2. DOMAIN fdmap = Slot /\ DOMAIN datamap = Slot
      BY <1>0 DEF TypeOK, MapsType
    <3>3. fdmap'[s] = fdmap[s]
      BY <2>2, <3>1, <3>2
    <3>4. datamap'[s] = datamap[s]
      BY <2>2, <3>1, <3>2, Zenon
    <3> QED BY <3>3, <3>4
  <2>4. ASSUME NEW k \in FdNum, fdmap'[<<p, k>>] # "none" PROVE datamap'[<<p, k>>]
    BY <2>2, <2>4, <1>0, <1>2 DEF TypeOK, MapsType
  <2>5. \A s \in Slot : s[1] = p /\ fdmap'[s] # "none" => datamap'[s]
    BY <1>3, <2>4
  <2> QED BY <1>1, <1>5, <2>1, <2>3, <2>5, OwnSlotsStep DEF PipeCreate, InTransfer
<1>6. CASE CloseCall(p)
  <2>1. \A q \in Envs \ {p} : newfd'[q] = newfd[q]
    BY <1>0, <1>6 DEF CloseCall, TypeOK, LocalsType
  <2>2. OthersKept(p) /\ pc'[p] = "unmapfd"
    BY <1>0, <1>6, <2>1, GotoFacts DEF CloseCall
  <2> QED BY <1>1, <1>6, <2>2, LocalStep DEF CloseCall, InTransfer
<1>7. CASE UnmapFd(p)
  <2>1. OthersKept(p) /\ pc'[p] = "unmapdata"
    BY <1>0, <1>7, GotoFacts DEF UnmapFd
  <2>2. fdmap' = [fdmap EXCEPT ![<<p, newfd[p]>>] = "none"] /\ UNCHANGED <<env, datamap, newfd, fdnum>>
    BY <1>7 DEF UnmapFd
  <2>3. \A s \in Slot : s[1] # p => fdmap'[s] = fdmap[s] /\ datamap'[s] = datamap[s]
    BY <2>2, <1>0, OtherSlots DEF TypeOK, MapsType
  <2>4. ASSUME NEW k \in FdNum, fdmap'[<<p, k>>] # "none" PROVE datamap'[<<p, k>>]
    BY <2>2, <2>4, <1>0, <1>2 DEF TypeOK, MapsType
  <2>5. fdmap'[<<p, newfd'[p]>>] = "none"
    BY <2>2, <1>0, <1>2, <1>4 DEF TypeOK, MapsType
  <2>6. \A s \in Slot : s[1] = p /\ fdmap'[s] # "none" => datamap'[s]
    BY <1>3, <2>4
  <2> QED BY <1>1, <2>1, <2>2, <2>3, <2>5, <2>6, OwnSlotsStep DEF InTransfer
<1>8. CASE UnmapData(p)
  <2>1. OthersKept(p) /\ pc'[p] \in {"run", "dupdata", "exit"}
        /\ (pc'[p] = "dupdata" => newfd'[p] = newfd[p])
    <3>1. CASE Return(p, "run")
      BY <1>0, <3>1, ReturnFacts
    <3>2. CASE ~Return(p, "run")
      BY <1>0, <1>8, <3>2, GotoFacts DEF UnmapData
    <3> QED BY <3>1, <3>2
  <2>2. datamap' = [datamap EXCEPT ![<<p, newfd[p]>>] = FALSE] /\ UNCHANGED <<env, fdmap>>
    BY <1>8 DEF UnmapData
  <2>3. \A s \in Slot : s[1] # p => fdmap'[s] = fdmap[s] /\ datamap'[s] = datamap[s]
    <3>1. DOMAIN datamap = Slot
      BY <1>0 DEF TypeOK, MapsType
    <3>2. \A s \in Slot : s[1] # p => datamap'[s] = datamap[s]
      BY <2>2, <3>1, OtherSlots, Zenon
    <3> QED BY <2>2, <3>2
  <2>4. fdmap[<<p, newfd[p]>>] = "none"
    BY <1>8 DEF UnmapData, PipeInv, CloseOk
  <2>5. ASSUME NEW k \in FdNum, fdmap'[<<p, k>>] # "none" PROVE datamap'[<<p, k>>]
    BY <2>2, <2>4, <2>5, <1>0, <1>2 DEF TypeOK, MapsType
  <2>6. \A s \in Slot : s[1] = p /\ fdmap'[s] # "none" => datamap'[s]
    BY <1>3, <2>5
  <2>7. pc'[p] = "dupdata" => fdmap'[<<p, newfd'[p]>>] = "none"
    BY <2>1, <2>2, <2>4
  <2> QED BY <1>1, <2>1, <2>2, <2>3, <2>6, <2>7, OwnSlotsStep DEF InTransfer
<1>9. CASE DupCall(p)
  <2>1. PICK k \in FdNum, m \in FdNum :
          /\ fdnum' = [fdnum EXCEPT ![p] = k] /\ newfd' = [newfd EXCEPT ![p] = m]
          /\ Goto(p, IF fdmap[<<p, m>>] = "none" THEN "dupdata" ELSE "unmapfd")
          /\ UNCHANGED <<maps, child>>
    BY <1>9 DEF DupCall
  <2>2. newfd'[p] = m /\ \A q \in Envs \ {p} : newfd'[q] = newfd[q] /\ fdnum'[q] = fdnum[q]
    BY <1>0, <2>1 DEF TypeOK, LocalsType
  <2>3. OthersKept(p) /\ pc'[p] = IF fdmap[<<p, m>>] = "none" THEN "dupdata" ELSE "unmapfd"
    BY <1>0, <2>1, <2>2, GotoFacts
  <2> QED BY <1>1, <2>1, <2>2, <2>3, LocalStep DEF InTransfer
<1>10. CASE DupData(p)
  <2>1. OthersKept(p) /\ pc'[p] = "dupfd"
    BY <1>0, <1>10, GotoFacts DEF DupData
  <2>2. /\ datamap' = [datamap EXCEPT ![<<p, newfd[p]>>] = datamap[<<p, fdnum[p]>>]]
        /\ UNCHANGED <<env, fdmap, newfd, fdnum>>
    BY <1>10 DEF DupData
  <2>3. \A s \in Slot : s[1] # p => fdmap'[s] = fdmap[s] /\ datamap'[s] = datamap[s]
    BY <2>2, <1>0, OtherSlots DEF TypeOK, MapsType
  <2>4. fdmap[<<p, newfd[p]>>] = "none"
    BY <1>10 DEF DupData, PipeInv, CloseOk
  <2>5. ASSUME NEW k \in FdNum, fdmap'[<<p, k>>] # "none" PROVE datamap'[<<p, k>>]
    BY <2>2, <2>4, <2>5, <1>0, <1>2 DEF TypeOK, MapsType
  <2>6. fdmap[<<p, fdnum[p]>>] # "none" => datamap'[<<p, newfd[p]>>]
    BY <2>2, <1>0, <1>2, <1>4 DEF TypeOK, MapsType
  <2>7. \A s \in Slot : s[1] = p /\ fdmap'[s] # "none" => datamap'[s]
    BY <1>3, <2>5
  <2> QED BY <1>1, <2>1, <2>2, <2>3, <2>4, <2>6, <2>7, OwnSlotsStep DEF InTransfer
<1>11. CASE DupFd(p)
  <2>1. OthersKept(p) /\ pc'[p] = "run"
    BY <1>0, <1>11, ReturnFacts DEF DupFd
  <2>2. /\ fdmap' = [fdmap EXCEPT ![<<p, newfd[p]>>] = fdmap[<<p, fdnum[p]>>]]
        /\ UNCHANGED <<env, datamap>>
    BY <1>11 DEF DupFd
  <2>3. \A s \in Slot : s[1] # p => fdmap'[s] = fdmap[s] /\ datamap'[s] = datamap[s]
    BY <2>2, <1>0, OtherSlots DEF TypeOK, MapsType
  <2>4. fdmap[<<p, fdnum[p]>>] # "none" => datamap[<<p, newfd[p]>>]
    BY <1>11 DEF DupFd, PipeInv, CloseOk
  <2>5. ASSUME NEW k \in FdNum, fdmap'[<<p, k>>] # "none" PROVE datamap'[<<p, k>>]
    BY <2>2, <2>4, <2>5, <1>0, <1>2, <1>4 DEF TypeOK, MapsType
  <2>6. \A s \in Slot : s[1] = p /\ fdmap'[s] # "none" => datamap'[s]
    BY <1>3, <2>5
  <2> QED BY <1>1, <2>1, <2>2, <2>3, <2>6, OwnSlotsStep DEF InTransfer
<1>12. CASE DupFails(p)
  <2>1. OthersKept(p) /\ pc'[p] = "run"
    BY <1>0, <1>12, ReturnFacts DEF DupFails
  <2> QED BY <1>1, <1>12, <2>1, LocalStep DEF DupFails, InTransfer
<1>13. CASE ExitCall(p)
  <2>1. OthersKept(p) /\ pc'[p] = "exit"
    BY <1>0, <1>13, GotoFacts DEF ExitCall
  <2> QED BY <1>1, <1>13, <2>1, LocalStep DEF ExitCall, InTransfer
<1>14. CASE CloseNext(p)
  <2>1. \A q \in Envs \ {p} : newfd'[q] = newfd[q]
    BY <1>0, <1>14 DEF CloseNext, TypeOK, LocalsType
  <2>2. OthersKept(p) /\ pc'[p] = "unmapfd"
    BY <1>0, <1>14, <2>1, GotoFacts DEF CloseNext
  <2> QED BY <1>1, <1>14, <2>2, LocalStep DEF CloseNext, InTransfer
<1> QED BY <1>5, <1>6, <1>7, <1>8, <1>9, <1>10, <1>11, <1>12, <1>13, <1>14

(* sys_env_destroy and fork: an env changes its status.                    *)
LEMMA EnvSteps ==
  ASSUME PipeInv, TypeOK', NEW p \in Envs,
         \/ Destroy(p) \/ ForkCall(p) \/ ForkFd(p) \/ ForkData(p) \/ ForkStart(p)
         \/ ForkFails(p)
  PROVE  PipeInv'
<1> USE DEF At, locals
<1>0. TypeOK /\ ForkOk
  BY DEF PipeInv
<1>1. CASE ForkFails(p)
  <2>1. OthersKept(p) /\ pc'[p] \in {"run", "exit"}
    <3>1. CASE Return(p, "run")
      BY <1>0, <3>1, ReturnFacts
    <3>2. CASE ~Return(p, "run")
      <4>1. child' = [child EXCEPT ![p] = NULL] /\ Goto(p, "exit") /\ UNCHANGED <<fdnum, newfd>>
        BY <1>1, <3>2 DEF ForkFails
      <4>2. \A q \in Envs \ {p} : child'[q] = child[q]
        BY <4>1, <1>0 DEF TypeOK, LocalsType
      <4> QED BY <1>0, <4>1, <4>2, GotoFacts
    <3> QED BY <3>1, <3>2
  <2> QED BY <1>1, <2>1, LocalStep DEF ForkFails, InTransfer
<1>2. CASE ForkFd(p)
  <2>1. \A s \in Slot : s[1] # child[p] => fdmap'[s] = fdmap[s] /\ datamap'[s] = datamap[s]
    BY <1>0, <1>2, OtherSlots DEF ForkFd, TypeOK, MapsType
  <2> QED BY <1>2, <2>1, ChildSlotsStep DEF ForkFd
<1>3. CASE ForkData(p)
  <2>1. \A s \in Slot : s[1] # child[p] => fdmap'[s] = fdmap[s] /\ datamap'[s] = datamap[s]
    BY <1>0, <1>3, OtherSlots DEF ForkData, TypeOK, MapsType
  <2> QED BY <1>3, <2>1, ChildSlotsStep DEF ForkData
<1>4. CASE Destroy(p)
  <2>1. OthersKept(p) /\ pc'[p] = "run" /\ quiet' = NULL
    BY <1>0, <1>4, ReturnFacts DEF Destroy
  <2>2. env' = [env EXCEPT ![p] = "zombie"] /\ UNCHANGED <<fdmap, datamap>> /\ env[p] = "live"
        /\ Open(p) = {}
    BY <1>4 DEF Destroy
  <2>3. \A q \in Envs : env'[q] = IF q = p THEN "zombie" ELSE env[q]
    BY <2>2, <1>0 DEF TypeOK, MapsType
  <2>4. DataBehindFd'
    <3>1. \A s \in Slot : s[1] \in Envs
      BY DEF Slot
    <3> QED BY <2>2, <2>3, <3>1 DEF PipeInv, DataBehindFd
  <2>5. CloseOk' /\ FdOpen'
    BY <2>1, <2>2, <2>3 DEF PipeInv, CloseOk, FdOpen, OthersKept
  <2>6. ForkOk'
    BY <2>1, <2>2, <2>3 DEF PipeInv, ForkOk, OthersKept
  <2>7. RefsCurrent'
    BY <2>1, PipeAssumption DEF RefsCurrent
  <2> QED BY <2>4, <2>5, <2>6, <2>7 DEF PipeInv
<1>5. CASE ForkCall(p)
  <2>1. PICK c \in Envs : env[c] = "unused" /\ env' = [env EXCEPT ![c] = "embryo"]
                          /\ child' = [child EXCEPT ![p] = c]
    BY <1>5 DEF ForkCall
  <2>2. UNCHANGED <<fdmap, datamap, fdnum, newfd>> /\ env[p] = "live" /\ c # p
    BY <1>5, <2>1 DEF ForkCall
  <2>3. \A q \in Envs : /\ env'[q] = (IF q = c THEN "embryo" ELSE env[q])
                       /\ child'[q] = (IF q = p THEN c ELSE child[q])
    BY <2>1, <1>0 DEF TypeOK, MapsType, LocalsType
  <2>4. pc'[p] = "fork" /\ quiet' \in {p, NULL} /\ \A q \in Envs \ {p} : pc'[q] = pc[q]
    BY <1>0, <1>5 DEF ForkCall, Goto, TypeOK, PcType
  <2>5. pc[c] = "run"
    BY <1>0, <2>1 DEF ForkOk
  <2>6. DataBehindFd'
    <3>1. \A s \in Slot : s[1] \in Envs
      BY DEF Slot
    <3> QED BY <2>2, <2>3, <3>1 DEF PipeInv, DataBehindFd
  <2>7. CloseOk' /\ FdOpen'
    <3>1. CloseOk'
      BY <2>2, <2>3, <2>4 DEF PipeInv, CloseOk
    <3>2. FdOpen'
      BY <2>2, <2>3, <2>4 DEF PipeInv, FdOpen
    <3> QED BY <3>1, <3>2
  <2>8. ForkOk'
    <3>1. \A q \in Envs : env'[q] \in {"unused", "embryo"} => pc'[q] = "run"
      BY <1>0, <2>2, <2>3, <2>4, <2>5 DEF ForkOk
    <3>2. \A q \in Envs : env'[q] = "live" /\ pc'[q] = "fork" =>
            child'[q] \in Envs /\ env'[child'[q]] = "embryo" /\ (q # p => child'[q] # c)
      BY <1>0, <2>1, <2>3, <2>4 DEF ForkOk
    <3>3. \A q, r \in Envs :
            env'[q] = "live" /\ pc'[q] = "fork" /\ env'[r] = "live" /\ pc'[r] = "fork"
              /\ child'[q] = child'[r] => q = r
      <4> SUFFICES ASSUME NEW q \in Envs, NEW r \in Envs, env'[q] = "live", pc'[q] = "fork",
                          env'[r] = "live", pc'[r] = "fork", child'[q] = child'[r]
                   PROVE  q = r
        OBVIOUS
      <4>1. CASE q = p \/ r = p
        BY <2>3, <3>2, <4>1
      <4>2. CASE q # p /\ r # p
        <5>1. /\ env[q] = "live" /\ pc[q] = "fork" /\ env[r] = "live" /\ pc[r] = "fork"
              /\ child[q] = child[r]
          BY <2>3, <2>4, <4>2
        <5> QED BY <1>0, <5>1 DEF ForkOk
      <4> QED BY <4>1, <4>2
    <3> QED BY <3>1, <3>2, <3>3 DEF ForkOk
  <2>9. RefsCurrent'
    BY <2>4, PipeAssumption DEF RefsCurrent
  <2> QED BY <2>6, <2>7, <2>8, <2>9 DEF PipeInv
<1>6. CASE ForkStart(p)
  <2> DEFINE c == child[p]
  <2>1. /\ env[p] = "live" /\ pc[p] = "fork" /\ FdsToCopy(p) = {} /\ DataToCopy(p) = {}
        /\ env' = [env EXCEPT ![c] = "live"] /\ UNCHANGED <<fdmap, datamap>>
    BY <1>6 DEF ForkStart
  <2>2. c \in Envs /\ env[c] = "embryo" /\ pc[c] = "run" /\ c # p
    BY <1>0, <2>1 DEF ForkOk
  <2>3. OthersKept(p) /\ pc'[p] = "run" /\ quiet' = NULL
    BY <1>0, <1>6, ReturnFacts DEF ForkStart
  <2> HIDE DEF c
  <2>4. \A q \in Envs : env'[q] = IF q = c THEN "live" ELSE env[q]
    BY <2>1, <1>0 DEF TypeOK, MapsType
  <2>5. DataBehindFd'
    <3> SUFFICES ASSUME NEW s \in Slot, fdmap[s] # "none", ~datamap[s]
                 PROVE  env'[s[1]] = "embryo"
      BY <2>1 DEF DataBehindFd
    <3>1. s[1] \in Envs /\ s[2] \in FdNum /\ s = <<s[1], s[2]>> /\ env[s[1]] = "embryo"
      BY DEF PipeInv, DataBehindFd, Slot
    <3>2. s[1] # c
      <4> SUFFICES ASSUME s[1] = c PROVE FALSE
        OBVIOUS
      <4>1. fdmap[<<p, s[2]>>] = fdmap[s]
        BY <2>1, <3>1 DEF FdsToCopy, c
      <4>2. datamap[<<p, s[2]>>] = datamap[s]
        BY <2>1, <3>1 DEF DataToCopy, c
      <4>3. <<p, s[2]>> \in Slot /\ <<p, s[2]>>[1] = p
        BY <3>1 DEF Slot
      <4>4. env[p] = "embryo"
        BY <4>1, <4>2, <4>3 DEF PipeInv, DataBehindFd
      <4> QED BY <4>4, <2>1
    <3> QED BY <3>1, <3>2, <2>4
  <2>6. CloseOk' /\ FdOpen'
    <3>1. CloseOk'
      BY <2>1, <2>2, <2>3, <2>4 DEF PipeInv, CloseOk, OthersKept
    <3>2. FdOpen'
      BY <2>1, <2>2, <2>3, <2>4 DEF PipeInv, FdOpen, OthersKept
    <3> QED BY <3>1, <3>2
  <2>7. ForkOk'
    <3>1. \A q \in Envs : env'[q] \in {"unused", "embryo"} => pc'[q] = "run"
      BY <1>0, <2>1, <2>3, <2>4 DEF ForkOk, OthersKept
    <3>2. ASSUME NEW q \in Envs, env'[q] = "live", pc'[q] = "fork"
          PROVE  /\ q # p /\ child'[q] = child[q] /\ env[q] = "live" /\ pc[q] = "fork"
                 /\ child[q] \in Envs /\ env'[child[q]] = "embryo"
      <4>1. q # p /\ q # c
        BY <2>2, <2>3, <3>2 DEF OthersKept
      <4>2. child'[q] = child[q] /\ pc[q] = "fork" /\ env[q] = "live"
        BY <2>3, <2>4, <3>2, <4>1 DEF OthersKept
      <4>3. child[q] \in Envs /\ env[child[q]] = "embryo" /\ child[q] # c
        BY <1>0, <2>1, <4>1, <4>2 DEF ForkOk, c
      <4> QED BY <4>1, <4>2, <4>3, <2>4
    <3> QED BY <1>0, <3>1, <3>2 DEF ForkOk
  <2>8. RefsCurrent'
    BY <2>3, PipeAssumption DEF RefsCurrent
  <2> QED BY <2>5, <2>6, <2>7, <2>8 DEF PipeInv
<1> QED BY <1>1, <1>2, <1>3, <1>4, <1>5, <1>6

(* Every step of the system preserves PipeInv.                             *)
LEMMA NextPipeInv ==
  ASSUME PipeInv, [Next]_vars
  PROVE  PipeInv'
<1>1. TypeOK'
  BY TypeStep DEF PipeInv
<1>2. CASE Tick
  <2>1. UNCHANGED <<maps, locals, pc>> /\ quiet' = NULL
    BY <1>2 DEF Tick
  <2>2. DataBehindFd' /\ CloseOk' /\ ForkOk' /\ FdOpen'
    BY <2>1 DEF PipeInv, DataBehindFd, CloseOk, ForkOk, FdOpen, maps, locals
  <2>3. RefsCurrent'
    BY <2>1, PipeAssumption DEF RefsCurrent
  <2> QED BY <1>1, <2>2, <2>3 DEF PipeInv
<1>3. CASE Finished \/ UNCHANGED vars
  <2>1. UNCHANGED vars
    BY <1>3 DEF Finished
  <2>2. DataBehindFd' /\ CloseOk' /\ ForkOk' /\ FdOpen'
    BY <2>1 DEF PipeInv, DataBehindFd, CloseOk, ForkOk, FdOpen, vars, maps, locals
  <2>3. RefsCurrent'
    BY <2>1 DEF PipeInv, RefsCurrent, Holders, Mapped, vars, maps, locals
  <2> QED BY <1>1, <2>2, <2>3 DEF PipeInv
<1>4. ASSUME NEW p \in Envs, Inside(p) \/ CallStep(p) PROVE PipeInv'
  BY <1>1, <1>4, TransferSteps, CloseSteps, EnvSteps DEF Inside, CallStep
<1> QED BY <1>2, <1>3, <1>4 DEF Next

(* Before pipe() is called.                                                *)
LEMMA InitPipeInv == Init => PipeInv
<1> SUFFICES ASSUME Init PROVE PipeInv
  OBVIOUS
<1>0. 0 \in FdNum /\ 0 \in 0 .. WORD - 1 /\ quiet = NULL
  BY PipeAssumption DEF FdNum, Init
<1>1. MapsType
  BY DEF Init, MapsType, End
<1>2. RingType
  BY <1>0 DEF Init, RingType
<1>3. PcType /\ LocalsType
  BY <1>0 DEF Init, PcType, LocalsType, Place
<1>4. DataBehindFd
  BY DEF Init, DataBehindFd
<1>5. CloseOk /\ FdOpen
  BY DEF Init, CloseOk, FdOpen
<1>6. ForkOk
  BY DEF Init, ForkOk
<1>7. RefsCurrent
  BY <1>0, PipeAssumption DEF RefsCurrent
<1> QED BY <1>1, <1>2, <1>3, <1>4, <1>5, <1>6, <1>7 DEF PipeInv, TypeOK

(* Equal reference counts mean that every mapping of the pipe is one of    *)
(* the caller's own end.                                                   *)
LEMMA EqualRefsMeanClosed == PipeInv => ClosedVerdictSound
<1> SUFFICES ASSUME PipeInv, NEW p \in Envs, SeesClosed(p),
                    \A q \in Envs : env[q] # "embryo"
             PROVE  Holders(Other(fdmap[<<p, fdnum[p]>>])) = {}
  BY DEF ClosedVerdictSound
<1> DEFINE e == fdmap[<<p, fdnum[p]>>]
<1>1. env[p] = "live" /\ pc[p] = "decide" /\ quiet = p /\ fd_ref[p] = pipe_ref[p]
  BY DEF SeesClosed, At, Stable
<1>2. Cardinality(Holders(e)) = Cardinality(Mapped)
  BY <1>1 DEF PipeInv, RefsCurrent
<1>3. e # "none" /\ e \in End
  <2>1. <<p, fdnum[p]>> \in Slot
    BY DEF PipeInv, TypeOK, LocalsType, Slot
  <2>2. e # "none"
    BY <1>1 DEF PipeInv, FdOpen
  <2> QED BY <2>1, <2>2 DEF PipeInv, TypeOK, MapsType
<1>4. Other(e) # e /\ Other(e) # "none"
  BY <1>3 DEF Other, End
<1>5. \A s \in Slot : fdmap[s] # "none" => s \in Mapped
  <2>1. \A s \in Slot : s[1] \in Envs
    BY DEF Slot
  <2> QED BY <2>1 DEF PipeInv, DataBehindFd, Mapped
<1> HIDE DEF e
<1>6. Holders(e) \subseteq Mapped /\ Holders(Other(e)) \subseteq Mapped
  BY <1>3, <1>4, <1>5 DEF Holders
<1>7. IsFiniteSet(Mapped)
  <2>1. Mapped \subseteq Slot
    BY DEF Mapped
  <2> QED BY <2>1, FiniteSlots, FS_Subset
<1>8. Holders(e) = Mapped
  BY <1>2, <1>6, <1>7, FS_Subset
<1>9. Holders(Other(e)) = {}
  BY <1>4, <1>6, <1>8 DEF Holders
<1> QED BY <1>9 DEF e

(* PipeInv is an invariant of the system, for any number of environments   *)
(* and descriptors and any size of the buffer.                             *)
THEOREM PipeInvariant == Spec => []PipeInv
BY InitPipeInv, NextPipeInv, PTL DEF Spec

(* The variables of the pipe and of its users keep their types.            *)
THEOREM TypeCorrect == Spec => []TypeOK
<1>1. PipeInv => TypeOK
  BY DEF PipeInv
<1> QED BY <1>1, PipeInvariant, PTL

(* _pipe_is_closed answers "closed" only when no env has the other end     *)
(* open, unless a fork is copying descriptors.                             *)
THEOREM ClosedVerdictIsSound == Spec => []ClosedVerdictSound
BY PipeInvariant, EqualRefsMeanClosed, PTL
-----------------------------------------------------------------------------
(* The ring buffer of a pipe delivers the bytes in the order they were     *)
(* written, for every size of the buffer and every width of the positions  *)
(* that the buffer's size divides.                                         *)

-----------------------------------------------------------------------------
(* Arithmetic modulo a number: the solver knows quotient and remainder,    *)
(* what follows from them takes a few steps.                               *)

(* What quotient and remainder are.                                        *)
LEMMA DivMod ==
  ASSUME NEW a \in Int, NEW w \in Nat \ {0}
  PROVE  a = w * (a \div w) + (a % w) /\ a % w \in 0 .. w - 1 /\ a \div w \in Int
OBVIOUS

(* A greater quotient is at least one divisor more.                        *)
LEMMA TimesMono ==
  ASSUME NEW w \in Nat \ {0}, NEW x \in Int, NEW y \in Int, x < y
  PROVE  w * x + w <= w * y
<1>1. y - x - 1 \in Nat
  OBVIOUS
<1>2. w * (y - x - 1) >= 0
  BY <1>1
<1>3. w * (y - x - 1) = w * y - w * x - w
  OBVIOUS
<1> QED BY <1>2, <1>3

(* A quotient and a remainder are the only ones.                           *)
LEMMA ModOf ==
  ASSUME NEW w \in Nat \ {0}, NEW q \in Int, NEW r \in 0 .. w - 1, NEW a \in Int, a = w * q + r
  PROVE  a % w = r
<1> DEFINE q2 == a \div w
           r2 == a % w
<1>1. a = w * q2 + r2 /\ r2 \in 0 .. w - 1 /\ q2 \in Int
  BY DivMod
<1> HIDE DEF q2, r2
<1>2. w * q \in Int /\ w * q2 \in Int
  BY <1>1
<1>3. CASE q < q2
  <2>1. w * q + w <= w * q2
    BY <1>1, <1>3, TimesMono
  <2> QED BY <2>1, <1>1, <1>2
<1>4. CASE q2 < q
  <2>1. w * q2 + w <= w * q
    BY <1>1, <1>4, TimesMono
  <2> QED BY <2>1, <1>1, <1>2
<1>5. CASE q = q2
  BY <1>1, <1>2, <1>5 DEF r2
<1> QED BY <1>1, <1>3, <1>4, <1>5

(* Counting up a position that wraps.                                      *)
LEMMA ModSucc ==
  ASSUME NEW w \in Nat \ {0}, NEW a \in Int
  PROVE  ((a % w) + 1) % w = (a + 1) % w
<1> DEFINE q == a \div w
           r == a % w
<1>1. a = w * q + r /\ r \in 0 .. w - 1 /\ q \in Int
  BY DivMod
<1> HIDE DEF q, r
<1>2. CASE r + 1 < w
  <2>1. a + 1 = w * q + (r + 1) /\ r + 1 = w * 0 + (r + 1) /\ r + 1 \in 0 .. w - 1
    BY <1>1, <1>2
  <2>2. (a + 1) % w = r + 1
    BY <2>1, <1>1, ModOf
  <2>3. (r + 1) % w = r + 1
    BY <2>1, <1>1, ModOf
  <2> QED BY <2>2, <2>3 DEF r
<1>3. CASE r + 1 = w
  <2>1. /\ a + 1 = w * (q + 1) + 0 /\ r + 1 = w * 1 + 0
        /\ 0 \in 0 .. w - 1 /\ q + 1 \in Int
    BY <1>1, <1>3
  <2>2. (a + 1) % w = 0
    BY <2>1, <1>1, ModOf
  <2>3. (r + 1) % w = 0
    BY <2>1, <1>1, ModOf
  <2> QED BY <2>2, <2>3 DEF r
<1> QED BY <1>1, <1>2, <1>3

(* The difference of two positions that are less than a lap apart.         *)
LEMMA ModDiff ==
  ASSUME NEW w \in Nat \ {0}, NEW a \in Int, NEW b \in Int, a - b \in 0 .. w - 1
  PROVE  ((a % w) - (b % w)) % w = a - b
<1> DEFINE qa == a \div w
           ra == a % w
           qb == b \div w
           rb == b % w
<1>1. /\ a = w * qa + ra /\ ra \in 0 .. w - 1 /\ qa \in Int
      /\ b = w * qb + rb /\ rb \in 0 .. w - 1 /\ qb \in Int
  BY DivMod
<1> HIDE DEF qa, ra, qb, rb
<1>2. w * (qb - qa) = w * qb - w * qa /\ w * qb \in Int /\ w * qa \in Int
  BY <1>1
<1>3. ra - rb = w * (qb - qa) + (a - b) /\ ra - rb \in Int /\ qb - qa \in Int
  BY <1>1, <1>2
<1> DEFINE d == a - b
           q == qb - qa
           x == ra - rb
<1>4. d \in 0 .. w - 1 /\ q \in Int /\ x \in Int /\ x = w * q + d
  BY <1>3
<1>5. x % w = d
  <2> HIDE DEF d, q, x
  <2> QED BY <1>4, ModOf
<1> QED BY <1>5 DEF ra, rb

(* The position in a buffer whose size divides the word.                   *)
LEMMA ModMod ==
  ASSUME NEW w \in Nat \ {0}, NEW m \in Nat \ {0}, w % m = 0, NEW a \in Int
  PROVE  (a % w) % m = a % m
<1> DEFINE qa == a \div w
           ra == a % w
           qm == ra \div m
           rm == ra % m
           k == w \div m
<1>1. a = w * qa + ra /\ ra \in 0 .. w - 1 /\ qa \in Int /\ ra \in Int
  BY DivMod
<1>2. w = m * k /\ k \in Int
  BY DivMod
<1>3. ra = m * qm + rm /\ rm \in 0 .. m - 1 /\ qm \in Int
  BY <1>1, DivMod
<1> HIDE DEF qa, ra, qm, rm, k
<1>4. a = (m * k) * qa + m * qm + rm
  BY <1>1, <1>2, <1>3
<1>5. (m * k) * qa = m * (k * qa) /\ k * qa \in Int
  BY <1>1, <1>2
<1>6. m * (k * qa) + m * qm = m * (k * qa + qm)
  BY <1>1, <1>3, <1>5
<1>7. a = m * (k * qa + qm) + rm /\ k * qa + qm \in Int
  BY <1>1, <1>3, <1>4, <1>5, <1>6
<1> DEFINE q == k * qa + qm
<1>8. a % m = rm
  <2>1. q \in Int /\ a = m * q + rm
    BY <1>7
  <2> HIDE DEF q
  <2> QED BY <2>1, <1>3, ModOf
<1> QED BY <1>8 DEF ra, rm

(* Two bytes that are less than a lap apart are in different cells.        *)
LEMMA ModApart ==
  ASSUME NEW w \in Nat \ {0}, NEW a \in Int, NEW b \in Int, a - b \in 1 .. w - 1
  PROVE  a % w # b % w
<1>1. ((a % w) - (b % w)) % w = a - b
  <2>1. a - b \in 0 .. w - 1
    OBVIOUS
  <2> QED BY <2>1, ModDiff
<1>2. 0 % w = 0
  <2>1. 0 = w * 0 + 0 /\ 0 \in 0 .. w - 1
    OBVIOUS
  <2> QED BY <2>1, ModOf
<1>3. a % w \in Int /\ b % w \in Int
  BY DivMod
<1> SUFFICES ASSUME a % w = b % w PROVE FALSE
  OBVIOUS
<1>4. (a % w) - (b % w) = 0
  BY <1>3
<1> QED BY <1>1, <1>2, <1>4

-----------------------------------------------------------------------------
(* A step of p leaves the place and the routine of the others alone.       *)
Alone(p) == \A q \in Envs \ {p} : pc'[q] = pc[q] /\ op'[q] = op[q]

(* Moving on within a routine.                                             *)
LEMMA GotoAlone ==
  ASSUME TypeOK, NEW p \in Envs, NEW where, Goto(p, where),
         \A q \in Envs \ {p} : op'[q] = op[q]
  PROVE  Alone(p) /\ pc'[p] = where
BY DEF TypeOK, PcType, Goto, Alone

(* Returning from it.                                                      *)
LEMMA ReturnAlone ==
  ASSUME TypeOK, NEW p \in Envs, NEW where, Return(p, where)
  PROVE  Alone(p) /\ pc'[p] = where /\ op'[p] = "none"
BY DEF TypeOK, PcType, LocalsType, Return, Alone

(* The counts and the buffer are numbers.                                  *)
LEMMA RingNumbers ==
  ASSUME TypeOK
  PROVE  /\ Len(got) \in Nat /\ nwritten \in Nat
         /\ Pending("read") \in {0, 1} /\ Pending("write") \in {0, 1}
         /\ Taken \in Int /\ Stored \in Int
         /\ Taken <= Len(got) /\ Stored <= nwritten
<1>1. Len(got) \in Nat /\ nwritten \in Nat
  BY LenProperties DEF TypeOK, RingType
<1>2. Pending("read") \in {0, 1} /\ Pending("write") \in {0, 1}
  BY DEF Pending
<1> QED BY <1>1, <1>2 DEF Taken, Stored

(* The reader, and the writer, is the only one that can be between copy    *)
(* and move.                                                               *)
LEMMA PendingIsMine ==
  ASSUME RoutineOk, NEW p \in Envs, NEW what \in {"read", "write"}, op[p] = what
  PROVE  Pending(what) = IF pc[p] = "bump" THEN 1 ELSE 0
BY DEF RoutineOk, Pending

(* Steps that leave the ring alone and neither start nor end a copy.       *)
LEMMA RingFrame ==
  ASSUME RingOk, FifoOrder, UNCHANGED ring,
         Pending("read")' = Pending("read"), Pending("write")' = Pending("write"),
         \A q \in Envs : pc'[q] = "xfer" => pc[q] = "xfer" /\ op'[q] = op[q]
  PROVE  RingOk' /\ FifoOrder'
<1>1. Taken' = Taken /\ Stored' = Stored
  BY DEF Taken, Stored, ring
<1> QED BY <1>1 DEF RingOk, FifoOrder, ring

(* A step of p outside the copy of a byte.                                 *)
LEMMA CalmStep ==
  ASSUME FifoInv, TypeOK', NEW p \in Envs, Alone(p), UNCHANGED ring,
         pc[p] # "bump", pc'[p] \notin {"xfer", "bump"},
         op'[p] \in {"read", "write"} =>
            op'[p] = op[p] \/ \A q \in Envs : op[q] # op'[p],
         pc'[p] = "test" => op'[p] \in {"read", "write"},
         pc'[p] \in {"snap", "fdref", "pipref", "decide"} => op'[p] \in {"read", "write", "poll"}
  PROVE  FifoInv'
<1>1. RoutineOk'
  BY DEF FifoInv, RoutineOk, Alone
<1>2. Pending("read")' = Pending("read") /\ Pending("write")' = Pending("write")
  <2>1. \A q \in Envs : \A what \in {"read", "write"} :
           (pc'[q] = "bump" /\ op'[q] = what) <=> (pc[q] = "bump" /\ op[q] = what)
    BY DEF Alone
  <2> QED BY <2>1 DEF Pending
<1>3. RingOk' /\ FifoOrder'
  BY <1>2, RingFrame DEF FifoInv, Alone
<1> QED BY <1>1, <1>3 DEF FifoInv

(* The loop condition: what an unblocked reader or writer knows.           *)
LEMMA TestStep ==
  ASSUME FifoInv, TypeOK', NEW p \in Envs, Test(p)
  PROVE  FifoInv'
<1>0. TypeOK /\ RoutineOk /\ RingOk /\ FifoOrder
  BY DEF FifoInv
<1>1. pc[p] = "test" /\ op[p] \in {"read", "write"} /\ UNCHANGED <<ring, op>>
  BY <1>0 DEF Test, At, RoutineOk, locals
<1>2. Alone(p) /\ pc'[p] = IF Blocked(p) THEN "snap" ELSE "xfer"
  BY <1>0, <1>1, GotoAlone DEF Test
<1>3. CASE Blocked(p)
  BY <1>1, <1>2, <1>3, CalmStep
<1>4. CASE ~Blocked(p)
  <2>1. RoutineOk'
    BY <1>0, <1>1, <1>2, <1>4 DEF RoutineOk, Alone
  <2>2. Pending("read")' = Pending("read") /\ Pending("write")' = Pending("write")
    <3>1. \A q \in Envs : \A what \in {"read", "write"} :
             (pc'[q] = "bump" /\ op'[q] = what) <=> (pc[q] = "bump" /\ op[q] = what)
      BY <1>1, <1>2, <1>4 DEF Alone
    <3> QED BY <3>1 DEF Pending
  <2>3. Taken' = Taken /\ Stored' = Stored
    BY <1>1, <2>2 DEF Taken, Stored, ring
  <2>4. IF op[p] = "read" THEN Len(got) < Stored ELSE nwritten - Taken < PIPE_SIZE
    <3>1. /\ Len(got) \in Nat /\ nwritten \in Nat /\ Taken \in Int /\ Stored \in Int
          /\ Taken <= Len(got) /\ Stored <= nwritten
          /\ Len(got) <= Stored /\ nwritten - Taken <= PIPE_SIZE
          /\ p_rpos = Taken % WORD /\ p_wpos = Stored % WORD
      BY <1>0, RingNumbers DEF RingOk
    <3>2. CASE op[p] = "read"
      <4>1. Pending("read") = 0
        BY <1>0, <1>1, <3>2, PendingIsMine
      <4>2. Taken = Len(got)
        BY <3>1, <4>1 DEF Taken
      <4>3. Taken # Stored
        BY <1>4, <3>1, <3>2 DEF Blocked
      <4> QED BY <3>1, <3>2, <4>2, <4>3
    <3>3. CASE op[p] = "write"
      <4>1. Pending("write") = 0
        BY <1>0, <1>1, <3>3, PendingIsMine
      <4>2. Stored = nwritten
        BY <3>1, <4>1 DEF Stored
      <4>3. Stored - Taken \in 0 .. WORD - 1
        BY <3>1, <4>2, PipeAssumption
      <4>4. (p_wpos - p_rpos) % WORD = Stored - Taken
        BY <3>1, <4>3, PipeAssumption, ModDiff
      <4>5. Stored - Taken # PIPE_SIZE
        BY <1>4, <3>3, <4>4 DEF Blocked
      <4> QED BY <3>1, <3>3, <4>2, <4>5, PipeAssumption
    <3> QED BY <1>1, <3>2, <3>3
  <2>5. \A q \in Envs : pc'[q] = "xfer" =>
          IF op'[q] = "read" THEN Len(got) < Stored ELSE nwritten - Taken < PIPE_SIZE
    BY <1>0, <1>1, <1>2, <2>4 DEF RingOk, Alone
  <2>6. RingOk'
    BY <1>0, <1>1, <2>3, <2>5 DEF RingOk, ring
  <2>7. FifoOrder'
    BY <1>0, <1>1 DEF FifoOrder, ring
  <2> QED BY <2>1, <2>6, <2>7 DEF FifoInv
<1> QED BY <1>3, <1>4

(* One byte is copied out: it is the next one, by its cell.                *)
LEMMA ReadByte ==
  ASSUME FifoInv, TypeOK', NEW p \in Envs, Xfer(p), op[p] = "read"
  PROVE  FifoInv'
<1>0. TypeOK /\ RoutineOk /\ RingOk /\ FifoOrder
  BY DEF FifoInv
<1>1. /\ pc[p] = "xfer" /\ got' = Append(got, p_buf[p_rpos % PIPE_SIZE])
      /\ UNCHANGED <<p_buf, nwritten, op, p_rpos, p_wpos>>
  BY DEF Xfer, At, locals
<1>2. Alone(p) /\ pc'[p] = "bump"
  BY <1>0, <1>1, GotoAlone DEF Xfer
<1>3. RoutineOk'
  BY <1>0, <1>1, <1>2 DEF RoutineOk, Alone
<1>4. Pending("read") = 0 /\ Pending("read")' = 1 /\ Pending("write")' = Pending("write")
  <2>1. Pending("read") = 0
    BY <1>0, <1>1, PendingIsMine
  <2>2. Pending("read")' = 1
    BY <1>1, <1>2 DEF Pending
  <2>3. \A q \in Envs : (pc'[q] = "bump" /\ op'[q] = "write") <=> (pc[q] = "bump" /\ op[q] = "write")
    BY <1>1, <1>2 DEF Alone
  <2>4. Pending("write")' = Pending("write")
    BY <2>3 DEF Pending
  <2> QED BY <2>1, <2>2, <2>4
<1>5. /\ Len(got) \in Nat /\ nwritten \in Nat /\ Taken \in Int /\ Stored \in Int
      /\ Stored <= nwritten /\ Len(got) < Stored /\ Taken = Len(got)
      /\ p_rpos = Taken % WORD
  BY <1>0, <1>1, <1>4, RingNumbers DEF RingOk, Taken
<1>6. p_rpos % PIPE_SIZE = Len(got) % PIPE_SIZE
  <2>1. PIPE_SIZE \in Nat \ {0} /\ WORD \in Nat \ {0} /\ WORD % PIPE_SIZE = 0
    BY PipeAssumption
  <2>2. Len(got) \in Int /\ p_rpos = Len(got) % WORD
    BY <1>5
  <2>3. (Len(got) % WORD) % PIPE_SIZE = Len(got) % PIPE_SIZE
    BY <2>1, <2>2, ModMod, Zenon
  <2> QED BY <2>2, <2>3, Zenon
<1>7. p_buf[p_rpos % PIPE_SIZE] = Len(got) + 1
  <2>1. Len(got) + 1 \in 1 .. nwritten /\ Taken < Len(got) + 1 /\ (Len(got) + 1) - 1 = Len(got)
    BY <1>5
  <2>2. p_buf[((Len(got) + 1) - 1) % PIPE_SIZE] = Len(got) + 1
    BY <1>0, <2>1 DEF RingOk
  <2> QED BY <1>6, <2>1, <2>2
<1>8. /\ Len(got') = Len(got) + 1
      /\ \A k \in 1 .. Len(got) : got'[k] = got[k]
      /\ got'[Len(got) + 1] = Len(got) + 1
  <2>1. got \in Seq(Nat) /\ Len(got) + 1 \in Nat
    BY <1>0, <1>5 DEF TypeOK, RingType
  <2>2. got' = Append(got, Len(got) + 1)
    BY <1>1, <1>7
  <2> QED BY <2>1, <2>2, AppendProperties
<1>9. Taken' = Taken /\ Stored' = Stored
  BY <1>1, <1>4, <1>5, <1>8 DEF Taken, Stored
<1>10. FifoOrder'
  <2>1. \A k \in 1 .. Len(got') : got'[k] = k
    BY <1>0, <1>5, <1>8 DEF FifoOrder
  <2>2. nwritten' - Len(got') <= PIPE_SIZE
    BY <1>0, <1>1, <1>5, <1>8, PipeAssumption DEF FifoOrder
  <2> QED BY <2>1, <2>2 DEF FifoOrder
<1>11. RingOk'
  <2>1. \A q \in Envs : pc'[q] = "xfer" => q # p /\ op[q] = "write"
    BY <1>0, <1>1, <1>2 DEF RoutineOk, Alone
  <2>2. \A q \in Envs : pc'[q] = "xfer" =>
          IF op'[q] = "read" THEN Len(got') < Stored' ELSE nwritten' - Taken' < PIPE_SIZE
    BY <2>1, <1>0, <1>1, <1>2, <1>9 DEF RingOk, Alone
  <2>3. Len(got') <= Stored' /\ nwritten' - Taken' <= PIPE_SIZE
    BY <1>0, <1>1, <1>5, <1>8, <1>9 DEF RingOk
  <2> QED BY <2>2, <2>3, <1>0, <1>1, <1>9 DEF RingOk
<1> QED BY <1>3, <1>10, <1>11 DEF FifoInv

(* One byte is copied in: the cell is that of no byte still to be read.    *)
LEMMA WriteByte ==
  ASSUME FifoInv, TypeOK', NEW p \in Envs, Xfer(p), op[p] = "write"
  PROVE  FifoInv'
<1>0. TypeOK /\ RoutineOk /\ RingOk /\ FifoOrder
  BY DEF FifoInv
<1>1. /\ pc[p] = "xfer" /\ nwritten' = nwritten + 1
      /\ p_buf' = [p_buf EXCEPT ![p_wpos % PIPE_SIZE] = nwritten + 1]
      /\ UNCHANGED <<got, op, p_rpos, p_wpos>>
  BY DEF Xfer, At, locals
<1>2. Alone(p) /\ pc'[p] = "bump"
  BY <1>0, <1>1, GotoAlone DEF Xfer
<1>3. RoutineOk'
  BY <1>0, <1>1, <1>2 DEF RoutineOk, Alone
<1>4. Pending("write") = 0 /\ Pending("write")' = 1 /\ Pending("read")' = Pending("read")
  <2>1. Pending("write") = 0
    BY <1>0, <1>1, PendingIsMine
  <2>2. Pending("write")' = 1
    BY <1>1, <1>2 DEF Pending
  <2>3. \A q \in Envs : (pc'[q] = "bump" /\ op'[q] = "read") <=> (pc[q] = "bump" /\ op[q] = "read")
    BY <1>1, <1>2 DEF Alone
  <2>4. Pending("read")' = Pending("read")
    BY <2>3 DEF Pending
  <2> QED BY <2>1, <2>2, <2>4
<1>5. /\ Len(got) \in Nat /\ nwritten \in Nat /\ Taken \in Int /\ Stored \in Int
      /\ Stored = nwritten /\ nwritten - Taken < PIPE_SIZE
      /\ p_wpos = Stored % WORD /\ Taken <= Len(got) /\ Len(got) <= Stored
  BY <1>0, <1>1, <1>4, RingNumbers DEF RingOk, Stored
<1>6. p_wpos % PIPE_SIZE = nwritten % PIPE_SIZE /\ nwritten % PIPE_SIZE \in 0 .. PIPE_SIZE - 1
  <2>1. PIPE_SIZE \in Nat \ {0} /\ WORD \in Nat \ {0} /\ WORD % PIPE_SIZE = 0
    BY PipeAssumption
  <2>2. nwritten \in Int /\ p_wpos = nwritten % WORD
    BY <1>5
  <2>3. (nwritten % WORD) % PIPE_SIZE = nwritten % PIPE_SIZE
    BY <2>1, <2>2, ModMod, Zenon
  <2>4. nwritten % PIPE_SIZE \in 0 .. PIPE_SIZE - 1
    BY <2>1, <2>2, DivMod, Zenon
  <2> QED BY <2>2, <2>3, <2>4, Zenon
<1>7. Taken' = Taken /\ Stored' = Stored
  BY <1>1, <1>4, <1>5 DEF Taken, Stored
<1>8. \A k \in 1 .. nwritten' : Taken < k => p_buf'[(k - 1) % PIPE_SIZE] = k
  <2> SUFFICES ASSUME NEW k \in 1 .. nwritten + 1, Taken < k
               PROVE  p_buf'[(k - 1) % PIPE_SIZE] = k
    BY <1>1
  <2>0. p_buf \in [0 .. PIPE_SIZE - 1 -> Nat]
    BY <1>0 DEF TypeOK, RingType
  <2>1. CASE k = nwritten + 1
    <3>1. k - 1 = nwritten
      BY <2>1, <1>5
    <3> QED BY <3>1, <2>0, <2>1, <1>1, <1>6
  <2>2. CASE k # nwritten + 1
    <3>1. k \in 1 .. nwritten /\ k - 1 \in Int /\ nwritten - (k - 1) \in 1 .. PIPE_SIZE - 1
      BY <2>2, <1>5, PipeAssumption
    <3>2. (k - 1) % PIPE_SIZE # nwritten % PIPE_SIZE
      BY <3>1, <1>5, PipeAssumption, ModApart
    <3>3. (k - 1) % PIPE_SIZE \in 0 .. PIPE_SIZE - 1
      BY <3>1, PipeAssumption, DivMod
    <3>4. p_buf[(k - 1) % PIPE_SIZE] = k
      BY <3>1, <1>0 DEF RingOk
    <3> QED BY <3>2, <3>3, <3>4, <2>0, <1>1, <1>6
  <2> QED BY <2>1, <2>2
<1>9. FifoOrder'
  BY <1>0, <1>1, <1>5, PipeAssumption DEF FifoOrder
<1>10. RingOk'
  <2>1. \A q \in Envs : pc'[q] = "xfer" => q # p /\ op[q] = "read"
    BY <1>0, <1>1, <1>2 DEF RoutineOk, Alone
  <2>2. \A q \in Envs : pc'[q] = "xfer" =>
          IF op'[q] = "read" THEN Len(got') < Stored' ELSE nwritten' - Taken' < PIPE_SIZE
    BY <2>1, <1>0, <1>1, <1>2, <1>7 DEF RingOk, Alone
  <2>3. Len(got') <= Stored' /\ nwritten' - Taken' <= PIPE_SIZE
    BY <1>1, <1>5, <1>7, PipeAssumption
  <2> QED BY <2>2, <2>3, <1>0, <1>1, <1>7, <1>8 DEF RingOk
<1> QED BY <1>3, <1>9, <1>10 DEF FifoInv

(* The position moves past the byte: struct Pipe catches up with history.  *)
LEMMA BumpStep ==
  ASSUME FifoInv, TypeOK', NEW p \in Envs, Bump(p)
  PROVE  FifoInv'
<1>0. TypeOK /\ RoutineOk /\ RingOk /\ FifoOrder
  BY DEF FifoInv
<1>1. /\ pc[p] = "bump" /\ op[p] \in {"read", "write"}
      /\ UNCHANGED <<p_buf, nwritten, got>>
  BY <1>0 DEF Bump, At, RoutineOk
<1>2. Alone(p) /\ pc'[p] \in {"run", "test"} /\ op'[p] \in {"none", op[p]}
      /\ (pc'[p] = "test" => op'[p] = op[p])
  <2>1. CASE i[p] + 1 = n[p]
    BY <2>1, <1>0, ReturnAlone DEF Bump
  <2>2. CASE i[p] + 1 # n[p]
    BY <2>2, <1>0, GotoAlone DEF Bump
  <2> QED BY <2>1, <2>2
<1>3. RoutineOk'
  BY <1>0, <1>1, <1>2 DEF RoutineOk, Alone
<1>4. \A q \in Envs : pc'[q] = "xfer" => q # p /\ pc[q] = "xfer" /\ op'[q] = op[q]
  BY <1>2 DEF Alone
<1>5. /\ Len(got) \in Nat /\ nwritten \in Nat /\ Taken \in Int /\ Stored \in Int
      /\ p_rpos = Taken % WORD /\ p_wpos = Stored % WORD
      /\ Taken <= Len(got) /\ Len(got) <= Stored /\ Stored <= nwritten
      /\ nwritten - Taken <= PIPE_SIZE
  BY <1>0, RingNumbers DEF RingOk
<1>6. \A what \in {"read", "write"} :
        /\ op[p] = what => Pending(what) = 1 /\ Pending(what)' = 0
        /\ op[p] # what => Pending(what)' = Pending(what)
  <2> SUFFICES ASSUME NEW what \in {"read", "write"}
               PROVE  /\ op[p] = what => Pending(what) = 1 /\ Pending(what)' = 0
                      /\ op[p] # what => Pending(what)' = Pending(what)
    OBVIOUS
  <2>1. ASSUME op[p] = what PROVE Pending(what) = 1 /\ Pending(what)' = 0
    <3>1. Pending(what) = 1
      BY <2>1, <1>0, <1>1, PendingIsMine
    <3>2. \A q \in Envs : ~(pc'[q] = "bump" /\ op'[q] = what)
      BY <2>1, <1>0, <1>1, <1>2 DEF RoutineOk, Alone
    <3> QED BY <3>1, <3>2 DEF Pending
  <2>2. ASSUME op[p] # what PROVE Pending(what)' = Pending(what)
    <3>1. \A q \in Envs : (pc'[q] = "bump" /\ op'[q] = what) <=> (pc[q] = "bump" /\ op[q] = what)
      BY <2>2, <1>1, <1>2 DEF Alone
    <3> QED BY <3>1 DEF Pending
  <2> QED BY <2>1, <2>2
<1>7. FifoOrder'
  BY <1>0, <1>1 DEF FifoOrder
<1>8. CASE op[p] = "read"
  <2>1. p_rpos' = (p_rpos + 1) % WORD /\ p_wpos' = p_wpos
    BY <1>8 DEF Bump
  <2>2. Taken' = Taken + 1 /\ Stored' = Stored /\ Taken = Len(got) - 1
    BY <1>1, <1>5, <1>6, <1>8 DEF Taken, Stored
  <2>3. p_rpos' = Taken' % WORD
    BY <2>1, <2>2, <1>5, PipeAssumption, ModSucc
  <2>4. \A q \in Envs : pc'[q] = "xfer" =>
          IF op'[q] = "read" THEN Len(got') < Stored' ELSE nwritten' - Taken' < PIPE_SIZE
    <3> SUFFICES ASSUME NEW q \in Envs, pc'[q] = "xfer"
                 PROVE  IF op'[q] = "read" THEN Len(got') < Stored'
                        ELSE nwritten' - Taken' < PIPE_SIZE
      OBVIOUS
    <3>1. IF op[q] = "read" THEN Len(got) < Stored ELSE nwritten - Taken < PIPE_SIZE
      BY <1>0, <1>4 DEF RingOk
    <3> QED BY <3>1, <2>2, <1>1, <1>4, <1>5, PipeAssumption
  <2>5. \A k \in 1 .. nwritten' : Taken' < k => p_buf'[(k - 1) % PIPE_SIZE] = k
    BY <2>2, <1>0, <1>1, <1>5 DEF RingOk
  <2>6. Len(got') <= Stored' /\ nwritten' - Taken' <= PIPE_SIZE
    BY <2>2, <1>1, <1>5, PipeAssumption
  <2>7. RingOk'
    BY <2>1, <2>2, <2>3, <2>4, <2>5, <2>6, <1>5 DEF RingOk
  <2> QED BY <2>7, <1>3, <1>7 DEF FifoInv
<1>9. CASE op[p] = "write"
  <2>1. p_wpos' = (p_wpos + 1) % WORD /\ p_rpos' = p_rpos
    BY <1>9 DEF Bump
  <2>2. Taken' = Taken /\ Stored' = Stored + 1 /\ Stored = nwritten - 1
    BY <1>1, <1>5, <1>6, <1>9 DEF Taken, Stored
  <2>3. p_wpos' = Stored' % WORD
    BY <2>1, <2>2, <1>5, PipeAssumption, ModSucc
  <2>4. \A q \in Envs : pc'[q] = "xfer" =>
          IF op'[q] = "read" THEN Len(got') < Stored' ELSE nwritten' - Taken' < PIPE_SIZE
    BY <2>2, <1>0, <1>1, <1>4, <1>5 DEF RingOk
  <2>5. RingOk'
    BY <2>1, <2>2, <2>3, <2>4, <1>0, <1>1, <1>5 DEF RingOk
  <2> QED BY <2>5, <1>3, <1>7 DEF FifoInv
<1> QED BY <1>1, <1>8, <1>9

(* The routines that never touch the ring, and the loops around it.        *)
LEMMA CalmSteps ==
  ASSUME FifoInv, TypeOK', NEW p \in Envs,
         \/ PipeCreate(p) \/ PipeFails(p) \/ Snap(p) \/ FdRef(p) \/ PipRef(p) \/ Retry(p)
         \/ Decide(p) \/ UnmapFd(p) \/ UnmapData(p) \/ DupData(p) \/ DupFd(p) \/ DupFails(p)
         \/ CloseNext(p) \/ Destroy(p) \/ ForkFd(p) \/ ForkData(p) \/ ForkStart(p)
         \/ ForkFails(p) \/ CallStep(p)
  PROVE  FifoInv'
<1> USE DEF At, locals
<1>0. TypeOK /\ RoutineOk
  BY DEF FifoInv
<1>1. CASE PipeCreate(p) \/ PipeFails(p) \/ ForkFd(p) \/ ForkData(p)
  <2>1. Alone(p) /\ pc[p] \in {"pipe", "fork"} /\ pc'[p] \in {"run", "fork"}
        /\ UNCHANGED <<ring, op>>
    BY <1>0, <1>1, GotoAlone DEF PipeCreate, PipeFails, ForkFd, ForkData
  <2> QED BY <2>1, CalmStep
<1>2. CASE Snap(p)
  <2>1. Alone(p) /\ pc[p] = "snap" /\ pc'[p] = "fdref" /\ UNCHANGED <<ring, op>>
    BY <1>0, <1>2 DEF Snap, Alone, TypeOK, PcType
  <2> QED BY <2>1, <1>0, CalmStep DEF RoutineOk
<1>3. CASE FdRef(p) \/ PipRef(p) \/ Retry(p)
  <2>1. Alone(p) /\ pc[p] \in {"fdref", "pipref", "decide"}
        /\ pc'[p] \in {"pipref", "decide", "snap"} /\ UNCHANGED <<ring, op>>
    BY <1>0, <1>3, GotoAlone DEF FdRef, PipRef, Retry
  <2> QED BY <2>1, <1>0, CalmStep DEF RoutineOk
<1>4. CASE Decide(p)
  <2>0. pc[p] = "decide" /\ UNCHANGED ring /\ op[p] \in {"read", "write", "poll"}
    BY <1>0, <1>4 DEF Decide, RoutineOk
  <2>1. CASE Return(p, "run")
    <3>1. Alone(p) /\ pc'[p] = "run" /\ op'[p] = "none"
      BY <2>1, <1>0, ReturnAlone
    <3> QED BY <3>1, <2>0, CalmStep
  <2>2. CASE ~Return(p, "run")
    <3>1. op[p] # "poll" /\ op' = op /\ pc' = [pc EXCEPT ![p] = "test"]
      BY <2>2, <1>4 DEF Decide
    <3>2. Alone(p) /\ pc'[p] = "test"
      BY <3>1, <1>0 DEF Alone, TypeOK, PcType
    <3> QED BY <3>1, <3>2, <2>0, CalmStep
  <2> QED BY <2>1, <2>2
<1>5. CASE UnmapFd(p) \/ DupData(p) \/ CloseNext(p)
  <2>1. Alone(p) /\ pc[p] \in {"unmapfd", "dupdata", "exit"}
        /\ pc'[p] \in {"unmapdata", "dupfd", "unmapfd"} /\ UNCHANGED <<ring, op>>
    BY <1>0, <1>5, GotoAlone DEF UnmapFd, DupData, CloseNext
  <2> QED BY <2>1, CalmStep
<1>6. CASE UnmapData(p)
  <2>0. pc[p] = "unmapdata" /\ UNCHANGED ring
    BY <1>6 DEF UnmapData
  <2>1. CASE Return(p, "run")
    <3>1. Alone(p) /\ pc'[p] = "run" /\ op'[p] = "none"
      BY <2>1, <1>0, ReturnAlone
    <3> QED BY <3>1, <2>0, CalmStep
  <2>2. CASE ~Return(p, "run")
    <3>1. op' = op /\ (Goto(p, "dupdata") \/ Goto(p, "exit"))
      BY <2>2, <1>6 DEF UnmapData
    <3>2. Alone(p) /\ pc'[p] \in {"dupdata", "exit"}
      BY <3>1, <1>0, GotoAlone
    <3> QED BY <3>1, <3>2, <2>0, CalmStep
  <2> QED BY <2>1, <2>2
<1>7. CASE DupFd(p) \/ DupFails(p) \/ Destroy(p) \/ ForkStart(p)
  <2>1. Alone(p) /\ pc[p] \in {"dupfd", "dupdata", "exit", "fork"} /\ pc'[p] = "run"
        /\ op'[p] = "none" /\ UNCHANGED ring
    BY <1>0, <1>7, ReturnAlone DEF DupFd, DupFails, Destroy, ForkStart
  <2> QED BY <2>1, CalmStep
<1>8. CASE ForkFails(p)
  <2>0. pc[p] = "fork" /\ UNCHANGED ring
    BY <1>8 DEF ForkFails
  <2>1. CASE Return(p, "run")
    <3>1. Alone(p) /\ pc'[p] = "run" /\ op'[p] = "none"
      BY <2>1, <1>0, ReturnAlone
    <3> QED BY <3>1, <2>0, CalmStep
  <2>2. CASE ~Return(p, "run")
    <3>1. op' = [op EXCEPT ![p] = "exit"] /\ Goto(p, "exit")
      BY <2>2, <1>8 DEF ForkFails
    <3>2. Alone(p) /\ pc'[p] = "exit" /\ op'[p] = "exit"
      BY <3>1, <1>0, GotoAlone DEF TypeOK, LocalsType
    <3> QED BY <3>2, <2>0, CalmStep
  <2> QED BY <2>1, <2>2
<1>9. CASE ReadCall(p)
  <2>1. PICK k \in FdNum, size \in 1 .. MaxReq :
          Call(p, "read", k, size, "test")
    BY <1>9 DEF ReadCall
  <2>2. op' = [op EXCEPT ![p] = "read"] /\ Goto(p, "test") /\ pc[p] = "run" /\ UNCHANGED ring
    BY <2>1 DEF Call
  <2>3. \A q \in Envs : op[q] # "read"
    BY <1>9 DEF ReadCall
  <2>4. op'[p] = "read" /\ \A q \in Envs \ {p} : op'[q] = op[q]
    BY <2>2, <1>0 DEF TypeOK, LocalsType
  <2>5. Alone(p) /\ pc'[p] = "test"
    BY <2>2, <2>4, <1>0, GotoAlone
  <2> QED BY <2>2, <2>3, <2>4, <2>5, CalmStep
<1>10. CASE WriteCall(p)
  <2>1. PICK k \in FdNum, size \in 1 .. MaxReq :
          Call(p, "write", k, size, "test")
    BY <1>10 DEF WriteCall
  <2>2. op' = [op EXCEPT ![p] = "write"] /\ Goto(p, "test") /\ pc[p] = "run" /\ UNCHANGED ring
    BY <2>1 DEF Call
  <2>3. \A q \in Envs : op[q] # "write"
    BY <1>10 DEF WriteCall
  <2>4. op'[p] = "write" /\ \A q \in Envs \ {p} : op'[q] = op[q]
    BY <2>2, <1>0 DEF TypeOK, LocalsType
  <2>5. Alone(p) /\ pc'[p] = "test"
    BY <2>2, <2>4, <1>0, GotoAlone
  <2> QED BY <2>2, <2>3, <2>4, <2>5, CalmStep
<1>11. CASE PollCall(p)
  <2>1. PICK k \in FdNum :
          Call(p, "poll", k, 0, "snap")
    BY <1>11 DEF PollCall
  <2>2. op' = [op EXCEPT ![p] = "poll"] /\ Goto(p, "snap") /\ pc[p] = "run" /\ UNCHANGED ring
    BY <2>1 DEF Call
  <2>4. op'[p] = "poll" /\ \A q \in Envs \ {p} : op'[q] = op[q]
    BY <2>2, <1>0 DEF TypeOK, LocalsType
  <2>5. Alone(p) /\ pc'[p] = "snap"
    BY <2>2, <2>4, <1>0, GotoAlone
  <2> QED BY <2>2, <2>4, <2>5, CalmStep
<1>12. CASE CloseCall(p) \/ DupCall(p) \/ ExitCall(p) \/ ForkCall(p)
  <2>1. /\ \E what \in {"close", "dup", "exit", "fork"} : op' = [op EXCEPT ![p] = what]
        /\ \E where \in {"unmapfd", "dupdata", "exit", "fork"} : Goto(p, where)
        /\ pc[p] = "run" /\ UNCHANGED ring
    BY <1>12 DEF CloseCall, DupCall, ExitCall, ForkCall
  <2>2. op'[p] \in {"close", "dup", "exit", "fork"} /\ \A q \in Envs \ {p} : op'[q] = op[q]
    BY <2>1, <1>0 DEF TypeOK, LocalsType
  <2>3. Alone(p) /\ pc'[p] \in {"unmapfd", "dupdata", "exit", "fork"}
    BY <2>1, <2>2, <1>0, GotoAlone
  <2> QED BY <2>1, <2>2, <2>3, CalmStep
<1> QED BY <1>1, <1>2, <1>3, <1>4, <1>5, <1>6, <1>7, <1>8, <1>9, <1>10,
           <1>11, <1>12 DEF CallStep

(* Every step of the routines preserves FifoInv.                           *)
LEMMA NextFifoInv ==
  ASSUME FifoInv, [Next]_vars
  PROVE  FifoInv'
<1>0. TypeOK'
  BY TypeStep DEF FifoInv
<1>1. CASE Tick \/ Finished \/ UNCHANGED vars
  <2>1. UNCHANGED <<ring, pc, op>>
    BY <1>1 DEF Tick, Finished, vars, locals
  <2>2. RoutineOk'
    BY <2>1 DEF FifoInv, RoutineOk
  <2>3. RingOk' /\ FifoOrder'
    BY <2>1, RingFrame DEF FifoInv, Pending
  <2> QED BY <1>0, <2>2, <2>3 DEF FifoInv
<1>2. ASSUME NEW p \in Envs, Inside(p) \/ CallStep(p) PROVE FifoInv'
  <2>1. CASE Test(p)
    BY <1>0, <2>1, TestStep
  <2>2. CASE Xfer(p)
    <3>1. op[p] \in {"read", "write"}
      BY <2>2 DEF Xfer
    <3> QED BY <1>0, <2>2, <3>1, ReadByte, WriteByte
  <2>3. CASE Bump(p)
    BY <1>0, <2>3, BumpStep
  <2>4. CASE ~(Test(p) \/ Xfer(p) \/ Bump(p))
    BY <1>0, <1>2, <2>4, CalmSteps DEF Inside
  <2> QED BY <2>1, <2>2, <2>3, <2>4
<1> QED BY <1>1, <1>2 DEF Next

(* The empty pipe.                                                         *)
LEMMA InitFifoInv == Init => FifoInv
<1> SUFFICES ASSUME Init PROVE FifoInv
  OBVIOUS
<1>1. TypeOK
  BY InitPipeInv DEF PipeInv
<1>2. RoutineOk /\ Pending("read") = 0 /\ Pending("write") = 0
  BY DEF Init, RoutineOk, Pending
<1>3. Len(got) = 0 /\ nwritten = 0 /\ Taken = 0 /\ Stored = 0
  BY <1>2 DEF Init, Taken, Stored
<1>4. 0 % WORD = 0
  <2>1. 0 = WORD * 0 + 0 /\ 0 \in 0 .. WORD - 1 /\ WORD \in Nat \ {0}
    BY PipeAssumption
  <2> QED BY <2>1, ModOf
<1>5. RingOk /\ FifoOrder
  BY <1>3, <1>4, PipeAssumption DEF Init, RingOk, FifoOrder
<1> QED BY <1>1, <1>2, <1>5 DEF FifoInv

(* FifoInv is an invariant of the pipe, for any number of envs and         *)
(* descriptors, any buffer size and any word that it divides.              *)
THEOREM FifoInvariant == Spec => []FifoInv
BY InitFifoInv, NextFifoInv, PTL DEF Spec

(* pipe_read delivers the bytes pipe_write was given, in their order, none *)
(* lost and none twice, however often the positions wrap.                  *)
THEOREM BytesInOrder == Spec => []FifoOrder
<1>1. FifoInv => FifoOrder
  BY DEF FifoInv
<1> QED BY <1>1, FifoInvariant, PTL
=============================================================================
