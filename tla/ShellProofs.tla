---------------------------- MODULE ShellProofs ----------------------------
(***************************************************************************)
(* Proofs about the processes and descriptors of the shell, for any number *)
(* of them and any lines.                                                  *)
(***************************************************************************)
EXTENDS Shell, FiniteSetTheorems, WellFoundedInduction, TLAPS

-----------------------------------------------------------------------------
(* The invariant.                                                          *)

MainPcs == {"prompt", "next", "backtick", "capture", "captured", "dispatch", "wait"}
RunPcs == {"parse", "run", "failed", "waitchild", "waitright", "exit", "overrun"}
WaitsRight == {"run", "failed", "waitchild", "waitright", "overrun"}

(* Whom a process has forked and will wait for.                            *)
Waited(r) == ({r.child} \cup (IF r.pc \in WaitsRight THEN {r.rightpipe} ELSE {})) \ {0}

IsImage(r) == {"pc", "ret", "line", "child", "rightpipe", "pfd"} \subseteq DOMAIN r

ImageOk(r) ==
  /\ IsImage(r)
  /\ r.pc \in MainPcs \cup RunPcs \cup {"program", "free", "zombie"}
  /\ r.child # 0 => r.pc \in {"capture", "captured", "wait", "waitchild"}
  /\ r.rightpipe # 0 => r.pc \in WaitsRight \cup {"exit"}
  /\ r.rightpipe # 0 => r.rightpipe # r.child

ImagesOk == DOMAIN proc = Procs /\ \A p \in Procs : ImageOk(proc[p])

(* Nobody waits for the shell or for what another waits for.               *)
WaitedOk ==
  /\ proc[Sh].pc # "free"
  /\ \A p \in Procs : \A c \in Waited(proc[p]) : c \in Procs \ {Sh} /\ proc[c].pc # "free"
  /\ \A p, q \in Procs : p # q => Waited(proc[p]) \cap Waited(proc[q]) = {}

(* Descriptors: f is a table of them, b one of open files and pipe ends.   *)
IsOpen(x) == {"dev", "path", "off", "peer", "data"} \subseteq DOMAIN x
IsSequence(s) == s \in Seq({s[k] : k \in DOMAIN s})

EndOk(b, o) ==
  /\ b[o].peer \in Opens \ {o}
  /\ b[b[o].peer].dev = "pipe" /\ b[b[o].peer].peer = o
  /\ IsSequence(b[o].data) /\ Len(b[o].data) <= PIPE_SIZE

OpensOk(b) ==
  /\ DOMAIN b = Opens
  /\ \A o \in Opens : IsOpen(b[o]) /\ (b[o].dev = "pipe" => EndOk(b, o))

TableOk(f, b) ==
  /\ f \in [Procs -> [0 .. MAXFD - 1 -> {Closed, Console} \cup Opens]]
  /\ \A p \in Procs, n \in 0 .. MAXFD - 1 : f[p][n] \in Opens => b[f[p][n]].dev \in {"file", "pipe"}

FdsOk == OpensOk(open) /\ TableOk(fd, open)

SafeInv == ImagesOk /\ WaitedOk /\ FdsOk

(* Nothing is left behind: who is there has one who waits for it, up to    *)
(* the shell, and in the shell only the pipe of a substitution is open     *)
(* beside the console.                                                     *)
Ranked(rank) == \A p \in Procs : \A c \in Waited(proc[p]) : rank[p] < rank[c]
Adopted == \A c \in Procs \ {Sh} : proc[c].pc # "free" => \E p \in Procs : c \in Waited(proc[p])
Rooted == Adopted /\ \E rank \in [Procs -> Nat] : Ranked(rank)

ShellOk(r, row) ==
  /\ r.rightpipe = 0
  /\ r.pc \in (MainPcs \ {"capture"}) \cup {"parse", "run"} => row = StdFds
  /\ r.pc = "capture" => /\ r.pfd \in 2 .. MAXFD - 1
                         /\ \A n \in 0 .. MAXFD - 1 : n # r.pfd => row[n] = StdFds[n]

LeftInv == Rooted /\ ShellOk(proc[Sh], fd[Sh])

-----------------------------------------------------------------------------
(* Sets of numbers.                                                        *)

LEMMA Least ==
  ASSUME NEW S \in SUBSET Nat, S # {}
  PROVE  Min(S) \in S /\ \A y \in S : Min(S) <= y
<1>1. PICK x \in S : \A y \in S : ~ (<<y, x>> \in OpToRel(<, Nat))
  BY NatLessThanWellFounded, WFMin, Zenon
<1>2. \A y \in S : ~ (y < x)
  BY <1>1, Zenon DEF OpToRel
<1>3. \E z \in S : \A y \in S : z =< y
  BY <1>2
<1> QED BY <1>3 DEF Min

(* What a pipe needs is there: two free open files and a free descriptor.  *)
LEMMA TwoOpens ==
  ASSUME NEW p \in Procs, PipeRoom(p)
  PROVE  /\ FreeFds(p) # {}
         /\ Min(FreeOpens) \in FreeOpens
         /\ Min(FreeOpens \ {Min(FreeOpens)}) \in FreeOpens \ {Min(FreeOpens)}
<1>1. FreeFds(p) \in SUBSET (0 .. MAXFD - 1) /\ FreeOpens \in SUBSET (1 .. NOPEN)
  BY DEF FreeFds, FreeOpens, Opens
<1>2. IsFiniteSet(0 .. MAXFD - 1) /\ IsFiniteSet(1 .. NOPEN)
  BY FS_Interval, ShellAssumption
<1>3. IsFiniteSet(FreeFds(p)) /\ IsFiniteSet(FreeOpens)
  BY <1>1, <1>2, FS_Subset
<1>4. FreeFds(p) # {} /\ FreeOpens # {}
  BY <1>3, FS_EmptySet DEF PipeRoom
<1>5. FreeOpens \in SUBSET Nat
  BY <1>1, ShellAssumption
<1>6. Min(FreeOpens) \in FreeOpens
  BY <1>4, <1>5, Least
<1>7. Cardinality(FreeOpens \ {Min(FreeOpens)}) = Cardinality(FreeOpens) - 1
  BY <1>3, <1>6, FS_RemoveElement
<1>8. Cardinality(FreeOpens) \in Nat /\ Cardinality(FreeOpens) > 1
  BY <1>3, FS_CardinalityType DEF PipeRoom
<1>9. FreeOpens \ {Min(FreeOpens)} # {}
  BY <1>7, <1>8, FS_EmptySet
<1>10. Min(FreeOpens \ {Min(FreeOpens)}) \in FreeOpens \ {Min(FreeOpens)}
  BY <1>5, <1>9, Least
<1> QED BY <1>4, <1>6, <1>10

LEMMA NewIsFree ==
  ASSUME FreeProcs # {}
  PROVE  NewProc \in FreeProcs
<1>1. FreeProcs \in SUBSET Nat
  BY ShellAssumption DEF FreeProcs, Procs
<1> QED BY <1>1, Least DEF NewProc

(* Whatever main decides, the process waits for nobody.                    *)
LEMMA DecidedIs ==
  ASSUME NEW r
  PROVE  /\ ImageOk(Decided(r)) /\ Decided(r).pc \in {"prompt", "next"}
         /\ Waited(Decided(r)) = {} /\ Decided(r).rightpipe = 0
<1>1. IsImage(InMain(r)) /\ InMain(r).child = 0 /\ InMain(r).rightpipe = 0
  BY DEF InMain, NoImage, IsImage
<1> DEFINE a == [InMain(r) EXCEPT !.pc = "prompt", !.line = <<>>]
           b(l, s) == [InMain(r) EXCEPT !.pc = "next", !.line = l, !.should_run = s]
<1>2. IsImage(a) /\ a.child = 0 /\ a.rightpipe = 0 /\ a.pc = "prompt"
  BY <1>1 DEF IsImage
<1>3. ASSUME NEW l, NEW s
      PROVE  IsImage(b(l, s)) /\ b(l, s).child = 0 /\ b(l, s).rightpipe = 0 /\ b(l, s).pc = "next"
  BY <1>1 DEF IsImage
<1>4. ASSUME NEW x, IsImage(x), x.child = 0, x.rightpipe = 0, x.pc \in {"prompt", "next"}
      PROVE  /\ ImageOk(x) /\ x.pc \in {"prompt", "next"}
             /\ Waited(x) = {} /\ x.rightpipe = 0
  BY <1>4 DEF ImageOk, MainPcs, Waited, WaitsRight
<1>5. Decided(r) = a \/ \E l, s : Decided(r) = b(l, s)
  <2> DEFINE i == FirstIn(r.line, Separators)
             c == CASE r.line[i] = "&&" -> r.last_status = 0
                    [] r.line[i] = "||" -> r.last_status # 0
                    [] OTHER            -> TRUE
  <2>1. Decided(r) = IF i > Len(r.line) THEN a
                     ELSE [InMain(r) EXCEPT !.pc = "next", !.line = After(@, i), !.should_run = c]
    BY Zenon DEF Decided
  <2>2. [InMain(r) EXCEPT !.pc = "next", !.line = After(@, i), !.should_run = c]
          = b(After(InMain(r).line, i), c)
    OBVIOUS
  <2> HIDE DEF a, b, c, i
  <2> QED BY <2>1, <2>2, Zenon
<1> HIDE DEF a, b
<1> QED BY <1>2, <1>3, <1>4, <1>5

-----------------------------------------------------------------------------
(* Who waits for whom: a process changes itself, forks, or reaps a child.  *)

(* A builtin and an empty command have nothing on their right.             *)
Alone(p) ==
  proc[p].pc = "run" /\ FirstWord(proc[p].argv) \in Builtins \cup {""} => proc[p].rightpipe = 0

Became(p, r) ==
  /\ ImageOk(r) /\ r.pc # "free"
  /\ Waited(r) \subseteq Waited(proc[p])
  /\ Alone(p) => Waited(r) = Waited(proc[p])
  /\ Become(p, r)

Forked(p, r, c) ==
  /\ FreeProcs # {}
  /\ ImageOk(r) /\ r.pc # "free" /\ Waited(r) = Waited(proc[p]) \cup {NewProc}
  /\ ImageOk(c) /\ c.pc # "free" /\ Waited(c) = {}
  /\ proc' = [proc EXCEPT ![p] = r, ![NewProc] = c]

Reaped(p, c, r) ==
  /\ c \in Waited(proc[p]) /\ proc[c].pc = "zombie"
  /\ ImageOk(r) /\ r.pc # "free" /\ Waited(r) = Waited(proc[p]) \ {c}
  /\ proc' = [proc EXCEPT ![c] = NoImage, ![p] = r]

Kin(p) ==
  /\ proc[p].pc # "free"
  /\ \/ \E r : Became(p, r)
     \/ \E r, c : Forked(p, r, c)
     \/ \E r, c : Reaped(p, c, r)

LEMMA NoImageIs == ImageOk(NoImage) /\ NoImage.pc = "free" /\ Waited(NoImage) = {}
BY DEF NoImage, ImageOk, IsImage, Waited, WaitsRight

(* Free processes and zombies wait for nobody.                             *)
LEMMA GoneWaits ==
  ASSUME NEW r, ImageOk(r), r.pc \in {"free", "zombie"}
  PROVE  Waited(r) = {}
BY DEF ImageOk, Waited, WaitsRight

LEMMA BecameKeeps ==
  ASSUME NEW p \in Procs, NEW r, ImagesOk, WaitedOk, Became(p, r)
  PROVE  ImagesOk' /\ WaitedOk' /\ (Alone(p) /\ proc[p].pc # "free" /\ Rooted => Rooted')
<1>1. /\ DOMAIN proc' = Procs /\ proc'[p] = r
      /\ \A q \in Procs \ {p} : proc'[q] = proc[q]
  BY DEF Became, Become, ImagesOk
<1>2. ImageOk(r) /\ r.pc # "free" /\ Waited(r) \subseteq Waited(proc[p])
  BY DEF Became
<1> HIDE DEF Became
<1>3. \A q \in Procs : Waited(proc'[q]) \subseteq Waited(proc[q])
  BY <1>1, <1>2
<1>4. \A q \in Procs : proc[q].pc # "free" => proc'[q].pc # "free"
  BY <1>1, <1>2
<1>5. ImagesOk'
  BY <1>1, <1>2 DEF ImagesOk
<1>6. WaitedOk'
  <2>1. proc'[Sh].pc # "free"
    BY <1>4, ShellAssumption DEF WaitedOk, Procs, Sh
  <2>2. ASSUME NEW q \in Procs, NEW c \in Waited(proc'[q])
        PROVE  c \in Procs \ {Sh} /\ proc'[c].pc # "free"
    BY <1>3, <1>4, <2>2 DEF WaitedOk
  <2>3. ASSUME NEW q1 \in Procs, NEW q2 \in Procs, q1 # q2
        PROVE  Waited(proc'[q1]) \cap Waited(proc'[q2]) = {}
    <3>1. Waited(proc[q1]) \cap Waited(proc[q2]) = {}
      BY <2>3 DEF WaitedOk
    <3> QED BY <1>3, <3>1
  <2> QED BY <2>1, <2>2, <2>3 DEF WaitedOk
<1>7. ASSUME Alone(p), proc[p].pc # "free", Rooted
      PROVE  Rooted'
  <2>1. \A q \in Procs : Waited(proc'[q]) = Waited(proc[q])
    BY <1>1, <1>7 DEF Became
  <2>2. \A q \in Procs : proc'[q].pc # "free" => proc[q].pc # "free"
    BY <1>1, <1>7
  <2>3. Adopted'
    BY <1>7, <2>1, <2>2 DEF Rooted, Adopted
  <2>4. PICK rank \in [Procs -> Nat] : Ranked(rank)
    BY <1>7 DEF Rooted
  <2>5. Ranked(rank)'
    BY <2>1, <2>4 DEF Ranked
  <2> QED BY <2>3, <2>5 DEF Rooted
<1> QED BY <1>5, <1>6, <1>7

LEMMA ForkedKeeps ==
  ASSUME NEW p \in Procs, NEW r, NEW c, ImagesOk, WaitedOk, proc[p].pc # "free", Forked(p, r, c)
  PROVE  ImagesOk' /\ WaitedOk' /\ (Rooted => Rooted') /\ NewProc \in Procs \ {Sh, p}
<1> DEFINE n == NewProc
<1>0. n \in Procs /\ proc[n].pc = "free"
  BY NewIsFree DEF Forked, FreeProcs
<1>1. n # Sh /\ n # p /\ Sh \in Procs
  BY <1>0, ShellAssumption DEF WaitedOk, Procs, Sh
<1>2. /\ DOMAIN proc' = Procs /\ proc'[p] = r /\ proc'[n] = c
      /\ \A q \in Procs \ {p, n} : proc'[q] = proc[q]
  BY <1>0, <1>1 DEF Forked, ImagesOk
<1>3. /\ ImageOk(r) /\ r.pc # "free" /\ Waited(r) = Waited(proc[p]) \cup {n}
      /\ ImageOk(c) /\ c.pc # "free" /\ Waited(c) = {}
  BY DEF Forked
<1> HIDE DEF n, Forked
<1>4. \A q \in Procs : n \notin Waited(proc[q])
  BY <1>0 DEF WaitedOk
<1>5. Waited(proc[n]) = {}
  BY <1>0, GoneWaits DEF ImagesOk
<1>6. \A q \in Procs : Waited(proc'[q]) = IF q = p THEN Waited(proc[p]) \cup {n} ELSE Waited(proc[q])
  BY <1>1, <1>2, <1>3, <1>5
<1>7. \A q \in Procs : proc'[q].pc # "free" <=> proc[q].pc # "free" \/ q = n
  BY <1>1, <1>2, <1>3
<1>8. ImagesOk'
  BY <1>2, <1>3 DEF ImagesOk
<1>9. WaitedOk'
  <2>1. proc'[Sh].pc # "free"
    BY <1>1, <1>7 DEF WaitedOk
  <2>2. ASSUME NEW q \in Procs, NEW x \in Waited(proc'[q])
        PROVE  x \in Procs \ {Sh} /\ proc'[x].pc # "free"
    BY <1>0, <1>1, <1>6, <1>7, <2>2 DEF WaitedOk
  <2>3. ASSUME NEW q1 \in Procs, NEW q2 \in Procs, q1 # q2
        PROVE  Waited(proc'[q1]) \cap Waited(proc'[q2]) = {}
    BY <1>4, <1>6, <2>3 DEF WaitedOk
  <2> QED BY <2>1, <2>2, <2>3 DEF WaitedOk
<1>10. ASSUME Rooted
       PROVE  Rooted'
  <2>1. ASSUME NEW x \in Procs \ {Sh}, proc'[x].pc # "free"
        PROVE  \E q \in Procs : x \in Waited(proc'[q])
    <3>1. CASE x = n
      BY <1>6, <3>1
    <3>2. CASE x # n
      <4>1. PICK q \in Procs : x \in Waited(proc[q])
        BY <1>7, <1>10, <2>1, <3>2 DEF Rooted, Adopted
      <4> QED BY <1>6, <4>1
    <3> QED BY <3>1, <3>2
  <2>2. PICK rank \in [Procs -> Nat] : Ranked(rank)
    BY <1>10 DEF Rooted
  <2> DEFINE s == [rank EXCEPT ![n] = rank[p] + 1]
  <2>3. s \in [Procs -> Nat] /\ s[n] = rank[p] + 1 /\ \A q \in Procs \ {n} : s[q] = rank[q]
    BY <1>0, <2>2
  <2> HIDE DEF s
  <2>4. ASSUME NEW q \in Procs, NEW x \in Waited(proc'[q])
        PROVE  s[q] < s[x]
    <3>0. q # n
      BY <1>2, <1>3, <2>4
    <3>1. CASE x = n
      <4>1. q = p
        BY <1>4, <1>6, <2>4, <3>1
      <4>2. s[q] = rank[p] /\ s[x] = rank[p] + 1 /\ rank[p] \in Nat
        BY <1>1, <2>2, <2>3, <3>1, <4>1
      <4> QED BY <4>2
    <3>2. CASE x # n
      <4>1. x \in Waited(proc[q])
        BY <1>6, <2>4, <3>2
      <4>2. x \in Procs
        BY <4>1 DEF WaitedOk
      <4> QED BY <2>2, <2>3, <3>0, <3>2, <4>1, <4>2 DEF Ranked
    <3> QED BY <3>1, <3>2
  <2> QED BY <2>1, <2>3, <2>4 DEF Rooted, Adopted, Ranked
<1> QED BY <1>0, <1>1, <1>8, <1>9, <1>10 DEF n

LEMMA ReapedKeeps ==
  ASSUME NEW p \in Procs, NEW r, NEW c, ImagesOk, WaitedOk, Reaped(p, c, r)
  PROVE  ImagesOk' /\ WaitedOk' /\ (Rooted => Rooted') /\ c \in Procs \ {Sh, p}
<1>0. c \in Procs \ {Sh} /\ proc[c].pc = "zombie" /\ c \in Waited(proc[p])
  BY DEF Reaped, WaitedOk
<1>1. Waited(proc[c]) = {} /\ c # p
  BY <1>0, GoneWaits DEF ImagesOk
<1>2. /\ DOMAIN proc' = Procs /\ proc'[p] = r /\ proc'[c] = NoImage
      /\ \A q \in Procs \ {p, c} : proc'[q] = proc[q]
  BY <1>0, <1>1 DEF Reaped, ImagesOk
<1>3. ImageOk(r) /\ r.pc # "free" /\ Waited(r) = Waited(proc[p]) \ {c}
  BY DEF Reaped
<1> HIDE DEF Reaped
<1>4. \A q \in Procs : Waited(proc'[q]) = Waited(proc[q]) \ {c}
  <2>1. \A q \in Procs \ {p} : c \notin Waited(proc[q])
    BY <1>0 DEF WaitedOk
  <2> QED BY <1>1, <1>2, <1>3, <2>1, NoImageIs
<1>5. \A q \in Procs : proc'[q].pc # "free" => proc[q].pc # "free"
  <2>1. proc[p].pc # "free"
    BY <1>0, GoneWaits DEF ImagesOk
  <2> QED BY <1>2, <2>1, NoImageIs
<1>6. \A q \in Procs \ {c} : proc[q].pc # "free" => proc'[q].pc # "free"
  BY <1>2, <1>3
<1>7. ImagesOk'
  BY <1>2, <1>3, NoImageIs DEF ImagesOk
<1>8. WaitedOk'
  <2>1. proc'[Sh].pc # "free"
    BY <1>0, <1>6, ShellAssumption DEF WaitedOk, Procs, Sh
  <2> QED BY <1>4, <1>6, <2>1 DEF WaitedOk
<1>9. ASSUME Rooted
      PROVE  Rooted'
  <2>1. ASSUME NEW x \in Procs \ {Sh}, proc'[x].pc # "free"
        PROVE  \E q \in Procs : x \in Waited(proc'[q])
    <3>1. x # c
      BY <1>2, <2>1, NoImageIs
    <3>2. PICK q \in Procs : x \in Waited(proc[q])
      BY <1>5, <1>9, <2>1 DEF Rooted, Adopted
    <3> QED BY <1>4, <3>1, <3>2
  <2>2. PICK rank \in [Procs -> Nat] : Ranked(rank)
    BY <1>9 DEF Rooted
  <2>3. Ranked(rank)'
    BY <1>4, <2>2 DEF Ranked
  <2> QED BY <2>1, <2>2, <2>3 DEF Rooted, Adopted
<1> QED BY <1>0, <1>1, <1>7, <1>8, <1>9

LEMMA KinKeeps ==
  ASSUME NEW p \in Procs, ImagesOk, WaitedOk, Kin(p)
  PROVE  /\ ImagesOk' /\ WaitedOk'
         /\ Alone(p) /\ Rooted => Rooted'
         /\ p # Sh => proc'[Sh] = proc[Sh]
<1>0. Sh \in Procs /\ proc[p].pc # "free"
  BY ShellAssumption DEF Procs, Sh, Kin
<1>1. ASSUME NEW r, Became(p, r)
      PROVE  /\ ImagesOk' /\ WaitedOk'
             /\ Alone(p) /\ Rooted => Rooted'
             /\ p # Sh => proc'[Sh] = proc[Sh]
  <2>1. p # Sh => proc'[Sh] = proc[Sh]
    BY <1>0, <1>1 DEF Became, Become, ImagesOk
  <2>2. ImagesOk' /\ WaitedOk' /\ (Alone(p) /\ proc[p].pc # "free" /\ Rooted => Rooted')
    BY <1>1, BecameKeeps, Zenon
  <2> QED BY <1>0, <2>1, <2>2
<1>2. ASSUME NEW r, NEW c, Forked(p, r, c)
      PROVE  /\ ImagesOk' /\ WaitedOk'
             /\ Alone(p) /\ Rooted => Rooted'
             /\ p # Sh => proc'[Sh] = proc[Sh]
  <2>1. ImagesOk' /\ WaitedOk' /\ (Rooted => Rooted') /\ NewProc \in Procs \ {Sh, p}
    BY <1>0, <1>2, ForkedKeeps, Zenon
  <2>2. p # Sh => proc'[Sh] = proc[Sh]
    BY <1>0, <1>2, <2>1 DEF Forked, ImagesOk
  <2> QED BY <2>1, <2>2
<1>3. ASSUME NEW r, NEW c, Reaped(p, c, r)
      PROVE  /\ ImagesOk' /\ WaitedOk'
             /\ Alone(p) /\ Rooted => Rooted'
             /\ p # Sh => proc'[Sh] = proc[Sh]
  <2>1. ImagesOk' /\ WaitedOk' /\ (Rooted => Rooted') /\ c \in Procs \ {Sh, p}
    BY <1>3, ReapedKeeps, Zenon
  <2>2. p # Sh => proc'[Sh] = proc[Sh]
    BY <1>0, <1>3, <2>1 DEF Reaped, ImagesOk
  <2> QED BY <2>1, <2>2
<1> HIDE DEF Became, Forked, Reaped
<1> QED BY <1>1, <1>2, <1>3, Zenon DEF Kin

-----------------------------------------------------------------------------
(* Every step of a process is one of the three.                            *)

LEMMA KinOfEdit ==
  ASSUME NEW p \in Procs, ImagesOk, NEW r, proc[p].pc # "free", Become(p, r),
         ImageOk(r), r.pc # "free", Waited(r) = Waited(proc[p])
  PROVE  Kin(p)
BY DEF Kin, Became

(* Where no child is waited for.                                           *)
LEMMA Idle ==
  ASSUME NEW p \in Procs, ImagesOk,
         proc[p].pc \notin {"capture", "captured", "wait"} \cup WaitsRight
  PROVE  Waited(proc[p]) = {} /\ proc[p].child = 0 /\ (proc[p].pc # "exit" => proc[p].rightpipe = 0)
BY DEF ImagesOk, ImageOk, Waited, WaitsRight

LEMMA KinOfDecided ==
  ASSUME NEW p \in Procs, ImagesOk, NEW r, proc[p].pc \in {"next", "backtick", "dispatch"},
         Become(p, Decided(r))
  PROVE  Kin(p)
<1>1. Waited(proc[p]) = {}
  BY Idle DEF WaitsRight
<1>2. ImageOk(Decided(r)) /\ Decided(r).pc # "free" /\ Waited(Decided(r)) = {}
  BY DecidedIs
<1> QED BY <1>1, <1>2, KinOfEdit

LEMMA KinOfExit ==
  ASSUME NEW p \in Procs, ImagesOk, NEW status, NEW ob, proc[p].pc # "free", Exit(p, status, ob),
         Alone(p) => Waited(proc[p]) = {}
  PROVE  Kin(p)
<1> DEFINE z == [NoImage EXCEPT !.pc = "zombie", !.status = status]
<1>1. IsImage(z) /\ z.pc = "zombie" /\ z.child = 0 /\ z.rightpipe = 0
  BY DEF NoImage, IsImage
<1>2. Become(p, z)
  BY DEF Exit
<1> HIDE DEF z
<1>3. ImageOk(z) /\ Waited(z) = {}
  BY <1>1 DEF ImageOk, Waited, WaitsRight
<1> QED BY <1>1, <1>2, <1>3 DEF Kin, Became

LEMMA Positive == \A v : v > 0 => v # -1 /\ v # 0
OBVIOUS

LEMMA KinOfReturn ==
  ASSUME NEW p \in Procs, ImagesOk, WaitedOk, NEW r, NEW v, NEW f, NEW ob,
         \/ proc[p].pc = "parse" /\ v = -1
         \/ /\ proc[p].pc = "run" /\ FirstWord(proc[p].argv) \in Builtins \cup {""}
            /\ v = -1 \/ v = proc[p].rightpipe,
         Return(p, r, v, f, ob)
  PROVE  Kin(p)
<1> DEFINE w == [InMain(r) EXCEPT !.pc = "wait", !.child = v]
           d(l) == Decided([r EXCEPT !.last_status = l])
<1>1. Waited(proc[p]) = {proc[p].rightpipe} \ {0} /\ Waited(proc[p]) \subseteq Procs
  BY DEF Waited, WaitsRight, ImagesOk, ImageOk, WaitedOk
<1>2. Alone(p) => proc[p].rightpipe = 0
  BY DEF Alone, ImagesOk, ImageOk, WaitsRight
<1>3. CASE r.ret = "main" /\ v > 0
  <2>1. IsImage(w) /\ w.pc = "wait" /\ w.child = v /\ w.rightpipe = 0
    BY DEF InMain, NoImage, IsImage
  <2>2. Become(p, w)
    BY <1>3 DEF Return
  <2> HIDE DEF w
  <2>3. v = proc[p].rightpipe /\ v # 0
    <3>1. v # -1 /\ v # 0
      BY <1>3, Positive, Zenon
    <3> QED BY <3>1, Zenon
  <2>4. ImageOk(w) /\ Waited(w) = {v} \ {0}
    BY <2>1 DEF ImageOk, MainPcs, Waited, WaitsRight
  <2> QED BY <1>1, <2>1, <2>2, <2>3, <2>4, KinOfEdit
<1>4. CASE r.ret = "main" /\ ~ (v > 0)
  <2>1. \E l : Become(p, d(l))
    BY <1>4 DEF Return
  <2> HIDE DEF d
  <2>2. PICK l : Become(p, d(l))
    BY <2>1
  <2>3. ImageOk(d(l)) /\ d(l).pc # "free" /\ Waited(d(l)) = {}
    BY DecidedIs DEF d
  <2> QED BY <1>1, <1>2, <2>2, <2>3 DEF Kin, Became
<1>5. CASE r.ret # "main"
  <2>1. PICK status : Exit(p, status, ob)
    BY <1>5 DEF Return
  <2> QED BY <1>1, <1>2, <2>1, KinOfExit
<1> QED BY <1>3, <1>4, <1>5

LEMMA KinOfReap ==
  ASSUME NEW p \in Procs, ImagesOk, NEW c, NEW r, c \in Waited(proc[p]), IsZombie(c), Reaps(p, c, r),
         ImageOk(r), r.pc # "free", Waited(r) = Waited(proc[p]) \ {c}
  PROVE  Kin(p)
<1>1. proc[p].pc # "free"
  BY GoneWaits DEF ImagesOk
<1> QED BY <1>1 DEF Kin, Reaped, IsZombie, Reaps

LEMMA KinOfFork ==
  ASSUME NEW p \in Procs, ImagesOk, NEW r, NEW rf, NEW c, NEW cf, NEW ob, Forks(p, r, rf, c, cf, ob),
         proc[p].pc # "free",
         ImageOk(r), r.pc # "free", Waited(r) = Waited(proc[p]) \cup {NewProc},
         ImageOk(c), c.pc # "free", Waited(c) = {}
  PROVE  Kin(p)
BY DEF Kin, Forked, Forks

LEMMA MainKin ==
  ASSUME NEW p \in Procs, ImagesOk, WaitedOk, ReadLine(p) \/ Main(p)
  PROVE  Kin(p)
<1> DEFINE r == proc[p]
<1>0. ImageOk(r)
  BY DEF ImagesOk
<1>a. NewProc \in Procs \/ FreeProcs = {}
  BY NewIsFree DEF FreeProcs
<1>b. NewProc # 0 \/ FreeProcs = {}
  BY <1>a DEF Procs
<1>1. CASE ReadLine(p)
  <2>1. PICK line : Become(p, [r EXCEPT !.pc = "next", !.line = LineText(line),
                                        !.last_status = 0, !.should_run = TRUE])
    BY <1>1 DEF ReadLine
  <2> DEFINE n == [r EXCEPT !.pc = "next", !.line = LineText(line),
                            !.last_status = 0, !.should_run = TRUE]
  <2>2. r.pc = "prompt" /\ Waited(r) = {} /\ r.child = 0 /\ r.rightpipe = 0
    BY <1>1, Idle DEF ReadLine, WaitsRight
  <2>3. IsImage(n) /\ n.pc = "next" /\ n.child = 0 /\ n.rightpipe = 0
    BY <1>0, <2>2 DEF ImageOk, IsImage
  <2> HIDE DEF n
  <2>4. ImageOk(n) /\ Waited(n) = {}
    BY <2>3 DEF ImageOk, MainPcs, Waited, WaitsRight
  <2> QED BY <2>1, <2>2, <2>3, <2>4, KinOfEdit DEF n
<1>2. CASE NextCommand(p)
  <2> DEFINE a == [r EXCEPT !.pc = "prompt"]
             b(s) == [r EXCEPT !.pc = "backtick", !.rest = s]
  <2>1. r.pc = "next" /\ Waited(r) = {} /\ r.child = 0 /\ r.rightpipe = 0
    BY <1>2, Idle DEF NextCommand, WaitsRight
  <2>2. IsImage(a) /\ a.pc = "prompt" /\ a.child = 0 /\ a.rightpipe = 0
    BY <1>0, <2>1 DEF ImageOk, IsImage
  <2>3. ASSUME NEW s
        PROVE  IsImage(b(s)) /\ b(s).pc = "backtick" /\ b(s).child = 0 /\ b(s).rightpipe = 0
    BY <1>0, <2>1 DEF ImageOk, IsImage
  <2>4. Become(p, a) \/ Become(p, Decided(r)) \/ \E s : Become(p, b(s))
    BY <1>2, Zenon DEF NextCommand, Local
  <2> HIDE DEF a, b
  <2>5. ImageOk(a) /\ Waited(a) = {} /\ \A s : ImageOk(b(s)) /\ Waited(b(s)) = {}
    BY <2>2, <2>3 DEF ImageOk, MainPcs, Waited, WaitsRight
  <2>6. Become(p, a) => Kin(p)
    BY <2>1, <2>2, <2>5, KinOfEdit
  <2>7. ASSUME NEW s PROVE Become(p, b(s)) => Kin(p)
    BY <2>1, <2>3, <2>5, KinOfEdit
  <2>8. Become(p, Decided(r)) => Kin(p)
    BY <2>1, KinOfDecided
  <2> QED BY <2>4, <2>6, <2>7, <2>8
<1>3. CASE SubstitutionFails(p)
  BY <1>3, KinOfDecided DEF SubstitutionFails, Local
<1>4. CASE SubstitutionDone(p)
  <2> DEFINE n == [r EXCEPT !.pc = "dispatch", !.out = Plain(r), !.rest = <<>>,
                     !.last_status = IF r.captured # 0 THEN r.captured ELSE @]
  <2>1. r.pc = "backtick" /\ Waited(r) = {} /\ r.child = 0 /\ r.rightpipe = 0 /\ Become(p, n)
    BY <1>4, Idle DEF SubstitutionDone, WaitsRight, Local
  <2>2. IsImage(n) /\ n.pc = "dispatch" /\ n.child = 0 /\ n.rightpipe = 0
    BY <1>0, <2>1 DEF ImageOk, IsImage
  <2> HIDE DEF n
  <2>3. ImageOk(n) /\ Waited(n) = {}
    BY <2>2 DEF ImageOk, MainPcs, Waited, WaitsRight
  <2> QED BY <2>1, <2>2, <2>3, KinOfEdit
<1>5. CASE Capture(p)
  <2> DEFINE n(s, d) == [r EXCEPT !.pc = "capture", !.out = Plain(r), !.rest = s,
                           !.child = NewProc, !.text = <<>>, !.pfd = d]
             c(sub, b) == [NoImage EXCEPT !.pc = "parse", !.ret = "capture", !.cwd = r.cwd, !.cmd = sub,
                                          !.builtin = b]
  <2>1. r.pc = "backtick" /\ Waited(r) = {} /\ r.child = 0 /\ r.rightpipe = 0
    BY <1>5, Idle DEF Capture, WaitsRight
  <2>2. \E s, d, sub, b, rf, cf, ob : Forks(p, n(s, d), rf, c(sub, b), cf, ob)
    BY <1>5, Zenon DEF Capture
  <2>3. FreeProcs # {}
    BY <2>2 DEF Forks
  <2>4. ASSUME NEW s, NEW d
        PROVE  IsImage(n(s, d)) /\ n(s, d).pc = "capture" /\ n(s, d).child = NewProc /\ n(s, d).rightpipe = 0
    BY <1>0, <2>1 DEF ImageOk, IsImage
  <2>5. ASSUME NEW sub, NEW b
        PROVE  IsImage(c(sub, b)) /\ c(sub, b).pc = "parse" /\ c(sub, b).child = 0 /\ c(sub, b).rightpipe = 0
    BY DEF NoImage, IsImage
  <2> HIDE DEF n, c
  <2>6. \A s, d : ImageOk(n(s, d)) /\ Waited(n(s, d)) = {NewProc}
    BY <1>b, <2>3, <2>4 DEF ImageOk, MainPcs, Waited, WaitsRight
  <2>7. \A sub, b : ImageOk(c(sub, b)) /\ Waited(c(sub, b)) = {}
    BY <2>5 DEF ImageOk, RunPcs, Waited, WaitsRight
  <2>8. PICK s, d, sub, b, rf, cf, ob : Forks(p, n(s, d), rf, c(sub, b), cf, ob)
    BY <2>2
  <2> QED BY <2>1, <2>4, <2>5, <2>6, <2>7, <2>8, KinOfFork
<1>6. CASE CaptureRead(p)
  <2> DEFINE n == [r EXCEPT !.text = Append(@, Datum(fd[p][r.pfd]))]
  <2>1. r.pc = "capture" /\ Become(p, n)
    BY <1>6 DEF CaptureRead
  <2>2. IsImage(n) /\ n.pc = r.pc /\ n.child = r.child /\ n.rightpipe = r.rightpipe
    BY <1>0 DEF ImageOk, IsImage
  <2> HIDE DEF n
  <2>3. ImageOk(n) /\ Waited(n) = Waited(r)
    BY <1>0, <2>2 DEF ImageOk, Waited
  <2> QED BY <2>1, <2>2, <2>3, KinOfEdit
<1>7. CASE CaptureEnds(p)
  <2> DEFINE n == [r EXCEPT !.pc = "captured", !.pfd = 0]
  <2>1. r.pc = "capture" /\ Become(p, n)
    BY <1>7 DEF CaptureEnds
  <2>2. IsImage(n) /\ n.pc = "captured" /\ n.child = r.child /\ n.rightpipe = r.rightpipe
    BY <1>0 DEF ImageOk, IsImage
  <2> HIDE DEF n
  <2>3. ImageOk(n) /\ Waited(n) = Waited(r)
    BY <1>0, <2>1, <2>2 DEF ImageOk, MainPcs, Waited, WaitsRight
  <2> QED BY <2>1, <2>2, <2>3, KinOfEdit
<1>8. CASE CaptureWait(p)
  <2> DEFINE status == proc[r.child].status
             n == [r EXCEPT !.pc = "backtick", !.child = 0, !.text = <<>>, !.out = @ \o r.text,
                            !.captured = IF status # 0 THEN status ELSE @]
  <2>1. /\ r.pc = "captured" /\ IsZombie(r.child)
        /\ Reaps(p, r.child, n) \/ \E x : Reaps(p, r.child, Decided(x))
    BY <1>8, Zenon DEF CaptureWait
  <2>2. Waited(r) = {r.child} /\ r.rightpipe = 0
    BY <1>0, <2>1 DEF IsZombie, Procs, ImageOk, Waited, WaitsRight
  <2>3. IsImage(n) /\ n.pc = "backtick" /\ n.child = 0 /\ n.rightpipe = 0
    BY <1>0, <2>2 DEF ImageOk, IsImage
  <2> HIDE DEF n
  <2>4. ImageOk(n) /\ Waited(n) = {}
    BY <2>3 DEF ImageOk, MainPcs, Waited, WaitsRight
  <2>5. Reaps(p, r.child, n) => Kin(p)
    BY <2>1, <2>2, <2>3, <2>4, KinOfReap
  <2>6. ASSUME NEW x PROVE Reaps(p, r.child, Decided(x)) => Kin(p)
    BY <2>1, <2>2, DecidedIs, KinOfReap
  <2> QED BY <2>1, <2>5, <2>6
<1>9. CASE WaitCommand(p)
  <2>1. /\ r.pc = "wait" /\ IsZombie(r.child)
        /\ \E x : Reaps(p, r.child, Decided(x))
    BY <1>9, Zenon DEF WaitCommand
  <2>2. Waited(r) = {r.child}
    BY <1>0, <2>1 DEF IsZombie, Procs, ImageOk, Waited, WaitsRight
  <2> QED BY <2>1, <2>2, DecidedIs, KinOfReap
<1>10. CASE DispatchExit(p)
  <2>1. r.pc = "dispatch" /\ Exit(p, 0, open)
    BY <1>10 DEF DispatchExit, Exits
  <2>2. Waited(r) = {}
    BY <2>1, Idle DEF WaitsRight
  <2> QED BY <2>1, <2>2, KinOfExit
<1>11. CASE DispatchHistory(p)
  BY <1>11, KinOfDecided DEF DispatchHistory, Local
<1>12. CASE DispatchBuiltin(p)
  <2> DEFINE n == [r EXCEPT !.pc = "parse", !.ret = "main", !.cmd = r.out, !.out = <<>>]
  <2>1. r.pc = "dispatch" /\ Waited(r) = {} /\ r.child = 0 /\ r.rightpipe = 0 /\ Become(p, n)
    BY <1>12, Idle DEF DispatchBuiltin, WaitsRight, Local
  <2>2. IsImage(n) /\ n.pc = "parse" /\ n.child = 0 /\ n.rightpipe = 0
    BY <1>0, <2>1 DEF ImageOk, IsImage
  <2> HIDE DEF n
  <2>3. ImageOk(n) /\ Waited(n) = {}
    BY <2>2 DEF ImageOk, RunPcs, Waited, WaitsRight
  <2> QED BY <2>1, <2>2, <2>3, KinOfEdit
<1>13. CASE DispatchFork(p)
  <2> DEFINE n == [r EXCEPT !.pc = "wait", !.child = NewProc, !.out = <<>>]
             c == [NoImage EXCEPT !.pc = "parse", !.ret = "child", !.cwd = r.cwd, !.cmd = r.out]
  <2>1. r.pc = "dispatch" /\ Waited(r) = {} /\ r.child = 0 /\ r.rightpipe = 0
    BY <1>13, Idle DEF DispatchFork, WaitsRight
  <2>2. Forks(p, n, fd[p], c, fd[p], open)
    BY <1>13, Zenon DEF DispatchFork
  <2>3. FreeProcs # {}
    BY <2>2 DEF Forks
  <2>4. IsImage(n) /\ n.pc = "wait" /\ n.child = NewProc /\ n.rightpipe = 0
    BY <1>0, <2>1 DEF ImageOk, IsImage
  <2>5. IsImage(c) /\ c.pc = "parse" /\ c.child = 0 /\ c.rightpipe = 0
    BY DEF NoImage, IsImage
  <2> HIDE DEF n, c
  <2>6. ImageOk(n) /\ Waited(n) = {NewProc}
    BY <1>b, <2>3, <2>4 DEF ImageOk, MainPcs, Waited, WaitsRight
  <2>7. ImageOk(c) /\ Waited(c) = {}
    BY <2>5 DEF ImageOk, RunPcs, Waited, WaitsRight
  <2> QED BY <2>1, <2>2, <2>4, <2>5, <2>6, <2>7, KinOfFork
<1> QED BY <1>1, <1>2, <1>3, <1>4, <1>5, <1>6, <1>7, <1>8, <1>9, <1>10, <1>11, <1>12, <1>13
        DEF Main, Substitution

(* runcmd and programs.                                                    *)
LEMMA RunKin ==
  ASSUME NEW p \in Procs, ImagesOk, WaitedOk, Runcmd(p) \/ Program(p)
  PROVE  Kin(p)
<1> DEFINE r == proc[p]
<1>0. ImageOk(r)
  BY DEF ImagesOk
<1>a. NewProc \in Procs \/ FreeProcs = {}
  BY NewIsFree DEF FreeProcs
<1>b. NewProc # 0 \/ FreeProcs = {}
  BY <1>a DEF Procs
<1>c. ASSUME r.pc = "parse"
      PROVE  Waited(r) = {} /\ r.child = 0 /\ r.rightpipe = 0 /\ r.pc # "free"
  BY <1>c, Idle DEF WaitsRight
<1>w. IsImage(WithWords(r)) /\ WithWords(r).pc = r.pc /\ WithWords(r).child = r.child
      /\ WithWords(r).rightpipe = r.rightpipe
  BY <1>0 DEF ImageOk, IsImage, WithWords
<1>1. CASE ParseEnd(p)
  <2> DEFINE n == [WithWords(r) EXCEPT !.pc = "run"]
  <2>1. r.pc = "parse" /\ Become(p, n)
    BY <1>1 DEF ParseEnd, Local
  <2>2. IsImage(n) /\ n.pc = "run" /\ n.child = 0 /\ n.rightpipe = 0
    BY <1>c, <1>w, <2>1 DEF IsImage
  <2> HIDE DEF n
  <2>3. ImageOk(n) /\ Waited(n) = {}
    BY <2>2 DEF ImageOk, RunPcs, Waited, WaitsRight
  <2> QED BY <1>c, <2>1, <2>2, <2>3, KinOfEdit
<1>2. CASE RedirectFails(p) \/ ParseTooMany(p)
  <2>1. r.pc = "parse" /\ Return(p, r, -1, fd[p], open)
    BY <1>2 DEF RedirectFails, ParseTooMany
  <2> QED BY <2>1, KinOfReturn
<1>3. CASE RedirectOpens(p)
  <2> DEFINE n == [WithWords(r) EXCEPT !.cmd = Tail(@)]
  <2>1. r.pc = "parse" /\ Become(p, n)
    BY <1>3 DEF RedirectOpens
  <2>2. IsImage(n) /\ n.pc = "parse" /\ n.child = 0 /\ n.rightpipe = 0
    BY <1>c, <1>w, <2>1 DEF IsImage
  <2> HIDE DEF n
  <2>3. ImageOk(n) /\ Waited(n) = {}
    BY <2>2 DEF ImageOk, RunPcs, Waited, WaitsRight
  <2> QED BY <1>c, <2>1, <2>2, <2>3, KinOfEdit
<1>4. CASE ParsePipe(p)
  <2> DEFINE n == [WithWords(r) EXCEPT !.pc = "run", !.rightpipe = NewProc, !.cmd = <<>>]
             c == [WithWords(r) EXCEPT !.argv = <<>>, !.rightpipe = 0]
  <2>1. r.pc = "parse" /\ \E rf, cf, ob : Forks(p, n, rf, c, cf, ob)
    BY <1>4, Zenon DEF ParsePipe
  <2>3. FreeProcs # {}
    BY <2>1 DEF Forks
  <2>4. IsImage(n) /\ n.pc = "run" /\ n.child = 0 /\ n.rightpipe = NewProc
    BY <1>c, <1>w, <2>1 DEF IsImage
  <2>5. IsImage(c) /\ c.pc = "parse" /\ c.child = 0 /\ c.rightpipe = 0
    BY <1>c, <1>w, <2>1 DEF IsImage
  <2> HIDE DEF n, c
  <2>6. ImageOk(n) /\ Waited(n) = {NewProc}
    BY <1>b, <2>3, <2>4 DEF ImageOk, RunPcs, Waited, WaitsRight
  <2>7. ImageOk(c) /\ Waited(c) = {}
    BY <2>5 DEF ImageOk, RunPcs, Waited, WaitsRight
  <2> QED BY <1>c, <2>1, <2>4, <2>5, <2>6, <2>7, KinOfFork
<1>5. CASE RunNothing(p)
  <2>1. r.pc = "run" /\ FirstWord(r.argv) = "" /\ Return(p, r, r.rightpipe, fd[p], open)
    BY <1>5 DEF RunNothing, Runs
  <2> QED BY <2>1, KinOfReturn
<1>6. CASE RunCd(p)
  <2> DEFINE path == IF Len(r.argv) = 1 THEN Root ELSE Resolved[r.cwd, r.argv[2]]
             ok == Len(r.argv) <= 2 /\ path # BadPath /\ path \in Dirs
             n == IF ok THEN Chdir(r, path) ELSE r
             v == IF ok THEN r.rightpipe ELSE -1
  <2>1. r.pc = "run" /\ FirstWord(r.argv) = "cd" /\ Return(p, n, v, fd[p], open)
    BY <1>6, Zenon DEF RunCd, Runs
  <2> HIDE DEF ok, n
  <2>2. v = -1 \/ v = r.rightpipe
    OBVIOUS
  <2>3. FirstWord(r.argv) \in Builtins
    BY <2>1 DEF Builtins
  <2> HIDE DEF v
  <2> QED BY <2>1, <2>2, <2>3, KinOfReturn
<1>7. CASE RunPwd(p)
  <2>1. /\ r.pc = "run" /\ FirstWord(r.argv) \in Builtins
        /\ \E v, ob : (v = -1 \/ v = r.rightpipe) /\ Return(p, r, v, fd[p], ob)
    BY <1>7 DEF RunPwd, Runs, Builtins
  <2> QED BY <2>1, KinOfReturn
<1>8. CASE RunVars(p)
  <2>1. /\ r.pc = "run" /\ FirstWord(r.argv) \in Builtins
        /\ \E v : (v = -1 \/ v = r.rightpipe) /\ Return(p, r, v, fd[p], open)
    BY <1>8 DEF RunVars, Runs, Builtins
  <2> QED BY <2>1, KinOfReturn
<1>9. CASE RunSpawn(p)
  <2> DEFINE n == [r EXCEPT !.pc = "waitchild", !.child = NewProc, !.argv = <<>>]
             c(a, t) == [NoImage EXCEPT !.pc = "program", !.ret = "program", !.cwd = r.cwd, !.argv = a,
                                        !.text = t]
  <2>1. r.pc = "run" /\ \E a, t : Forks(p, n, AllClosed, c(a, t), fd[p], open)
    BY <1>9, Zenon DEF RunSpawn
  <2>2. r.child = 0
    BY <1>0, <2>1 DEF ImageOk
  <2>3. FreeProcs # {}
    BY <2>1 DEF Forks
  <2>4. IsImage(n) /\ n.pc = "waitchild" /\ n.child = NewProc /\ n.rightpipe = r.rightpipe
    BY <1>0 DEF ImageOk, IsImage
  <2>5. ASSUME NEW a, NEW t
        PROVE  IsImage(c(a, t)) /\ c(a, t).pc = "program" /\ c(a, t).child = 0 /\ c(a, t).rightpipe = 0
    BY DEF NoImage, IsImage
  <2> HIDE DEF n, c
  <2>6. r.rightpipe # NewProc
    <3>1. r.rightpipe # 0 => r.rightpipe \in Waited(r)
      BY <2>1 DEF Waited, WaitsRight
    <3>2. proc[NewProc].pc = "free"
      BY <2>3, NewIsFree DEF FreeProcs
    <3> QED BY <1>b, <2>3, <3>1, <3>2 DEF WaitedOk
  <2>7. ImageOk(n)
    BY <2>4, <2>6 DEF ImageOk, RunPcs, WaitsRight
  <2>8. Waited(n) = Waited(r) \cup {NewProc}
    BY <1>b, <2>1, <2>2, <2>3, <2>4 DEF Waited, WaitsRight
  <2>9. \A a, t : ImageOk(c(a, t)) /\ Waited(c(a, t)) = {}
    BY <2>5 DEF ImageOk, Waited, WaitsRight
  <2> QED BY <2>1, <2>4, <2>5, <2>7, <2>8, <2>9, KinOfFork
<1>10. CASE SpawnFails(p)
  <2> DEFINE n == [r EXCEPT !.pc = "failed", !.argv = <<>>]
  <2>1. r.pc = "run" /\ ((r.rightpipe = 0 /\ Exit(p, 1, open)) \/ Become(p, n))
    BY <1>10 DEF SpawnFails, Exits, Local
  <2>2. r.child = 0
    BY <1>0, <2>1 DEF ImageOk
  <2>3. IsImage(n) /\ n.pc = "failed" /\ n.child = 0 /\ n.rightpipe = r.rightpipe
    BY <1>0, <2>2 DEF ImageOk, IsImage
  <2> HIDE DEF n
  <2>4. ImageOk(n) /\ Waited(n) = Waited(r)
    BY <2>1, <2>2, <2>3 DEF ImageOk, RunPcs, Waited, WaitsRight
  <2>5. r.rightpipe = 0 => Waited(r) = {}
    BY <2>2 DEF Waited
  <2>6. r.rightpipe = 0 /\ Exit(p, 1, open) => Kin(p)
    BY <2>1, <2>5, KinOfExit
  <2>7. Become(p, n) => Kin(p)
    BY <2>1, <2>3, <2>4, KinOfEdit
  <2> QED BY <2>1, <2>6, <2>7
<1>11. CASE FailedWait(p)
  <2> DEFINE n == [r EXCEPT !.pc = "exit", !.status = 1]
  <2>1. r.pc = "failed" /\ IsZombie(r.rightpipe) /\ Reaps(p, r.rightpipe, n)
    BY <1>11 DEF FailedWait
  <2>2. r.child = 0 /\ Waited(r) = {r.rightpipe}
    BY <1>0, <2>1 DEF ImageOk, Waited, WaitsRight, IsZombie, Procs
  <2>3. IsImage(n) /\ n.pc = "exit" /\ n.child = 0 /\ n.rightpipe = r.rightpipe
    BY <1>0, <2>2 DEF ImageOk, IsImage
  <2> HIDE DEF n
  <2>4. ImageOk(n) /\ Waited(n) = {}
    BY <2>3 DEF ImageOk, RunPcs, Waited, WaitsRight
  <2> QED BY <2>1, <2>2, <2>3, <2>4, KinOfReap
<1>12. CASE WaitChild(p)
  <2> DEFINE n(a, s) == [r EXCEPT !.pc = a, !.status = s, !.child = 0]
  <2>1. /\ r.pc = "waitchild" /\ IsZombie(r.child)
        /\ \E a, s : a = (IF r.rightpipe = 0 THEN "exit" ELSE "waitright") /\ Reaps(p, r.child, n(a, s))
    BY <1>12, Zenon DEF WaitChild
  <2>2. PICK a, s : a = (IF r.rightpipe = 0 THEN "exit" ELSE "waitright") /\ Reaps(p, r.child, n(a, s))
    BY <2>1
  <2>3. r.child # 0 /\ r.rightpipe # r.child /\ Waited(r) = {r.child, r.rightpipe} \ {0}
    BY <1>0, <2>1 DEF ImageOk, Waited, WaitsRight, IsZombie, Procs
  <2>4. IsImage(n(a, s)) /\ n(a, s).pc = a /\ n(a, s).child = 0 /\ n(a, s).rightpipe = r.rightpipe
    BY <1>0, <2>2 DEF ImageOk, IsImage
  <2> HIDE DEF n
  <2>5. ImageOk(n(a, s)) /\ Waited(n(a, s)) = {r.rightpipe} \ {0} /\ n(a, s).pc # "free"
    BY <2>2, <2>4 DEF ImageOk, RunPcs, Waited, WaitsRight
  <2>6. r.child \in Waited(r) /\ Waited(n(a, s)) = Waited(r) \ {r.child}
    BY <2>3, <2>5
  <2> QED BY <2>1, <2>2, <2>5, <2>6, KinOfReap
<1>13. CASE WaitRight(p)
  <2> DEFINE n == [r EXCEPT !.pc = "exit", !.status = proc[r.rightpipe].status]
  <2>1. r.pc = "waitright" /\ IsZombie(r.rightpipe) /\ Reaps(p, r.rightpipe, n)
    BY <1>13 DEF WaitRight
  <2>2. r.child = 0 /\ Waited(r) = {r.rightpipe}
    BY <1>0, <2>1 DEF ImageOk, Waited, WaitsRight, IsZombie, Procs
  <2>3. IsImage(n) /\ n.pc = "exit" /\ n.child = 0 /\ n.rightpipe = r.rightpipe
    BY <1>0, <2>2 DEF ImageOk, IsImage
  <2> HIDE DEF n
  <2>4. ImageOk(n) /\ Waited(n) = {}
    BY <2>3 DEF ImageOk, RunPcs, Waited, WaitsRight
  <2> QED BY <2>1, <2>2, <2>3, <2>4, KinOfReap
<1>14. CASE RunExits(p)
  <2>1. r.pc = "exit" /\ Exit(p, r.status, open)
    BY <1>14 DEF RunExits, Exits
  <2>2. Waited(r) = {}
    BY <2>1, Idle DEF WaitsRight
  <2> QED BY <2>1, <2>2, KinOfExit
<1>15. CASE ProgramWrites(p)
  <2> DEFINE n == [r EXCEPT !.text = Tail(@)]
  <2>1. r.pc = "program" /\ (Exit(p, 1, open) \/ Become(p, n))
    BY <1>15 DEF ProgramWrites
  <2>2. Waited(r) = {}
    BY <2>1, Idle DEF WaitsRight
  <2>3. IsImage(n) /\ n.pc = r.pc /\ n.child = r.child /\ n.rightpipe = r.rightpipe
    BY <1>0 DEF ImageOk, IsImage
  <2> HIDE DEF n
  <2>4. ImageOk(n) /\ Waited(n) = Waited(r)
    BY <1>0, <2>3 DEF ImageOk, Waited
  <2>5. Exit(p, 1, open) => Kin(p)
    BY <2>1, <2>2, KinOfExit
  <2>6. Become(p, n) => Kin(p)
    BY <2>1, <2>3, <2>4, KinOfEdit
  <2> QED BY <2>1, <2>5, <2>6
<1>16. CASE ProgramReads(p)
  <2> DEFINE n == [r EXCEPT !.text = <<Datum(fd[p][0])>>]
  <2>1. r.pc = "program" /\ Become(p, n)
    BY <1>16 DEF ProgramReads
  <2>2. IsImage(n) /\ n.pc = r.pc /\ n.child = r.child /\ n.rightpipe = r.rightpipe
    BY <1>0 DEF ImageOk, IsImage
  <2> HIDE DEF n
  <2>3. ImageOk(n) /\ Waited(n) = Waited(r)
    BY <1>0, <2>2 DEF ImageOk, Waited
  <2> QED BY <2>1, <2>2, <2>3, KinOfEdit
<1>17. CASE ProgramEnds(p)
  <2>1. r.pc = "program" /\ Exit(p, Doing(p).status, open)
    BY <1>17 DEF ProgramEnds, Exits
  <2>2. Waited(r) = {}
    BY <2>1, Idle DEF WaitsRight
  <2> QED BY <2>1, <2>2, KinOfExit
<1> QED BY <1>1, <1>2, <1>3, <1>4, <1>5, <1>6, <1>7, <1>8, <1>9, <1>10, <1>11, <1>12, <1>13,
           <1>14, <1>15, <1>16, <1>17
        DEF Runcmd, Program

-----------------------------------------------------------------------------
(* Descriptors.                                                            *)

RowOk(row, b) ==
  /\ row \in [0 .. MAXFD - 1 -> {Closed, Console} \cup Opens]
  /\ \A n \in 0 .. MAXFD - 1 : row[n] \in Opens => b[row[n]].dev \in {"file", "pipe"}

(* What is open in b is open in c.                                         *)
StaysOpen(b, c) == \A o \in Opens : b[o].dev \in {"file", "pipe"} => c[o].dev \in {"file", "pipe"}

LEMMA NotOpenIs ==
  /\ IsOpen(NotOpen) /\ NotOpen.dev = "none"
  /\ \A o : /\ IsOpen(PipeEnd(o)) /\ PipeEnd(o).dev = "pipe" /\ PipeEnd(o).peer = o
            /\ PipeEnd(o).data = <<>>
  /\ \A path, off : IsOpen(FileOpened(path, off)) /\ FileOpened(path, off).dev = "file"
BY DEF IsOpen, NotOpen, PipeEnd, FileOpened

(* What no descriptor holds goes, and both ends of a pipe go together.     *)
LEMMA DescriptorsKeep ==
  ASSUME NEW f, NEW b, OpensOk(b), TableOk(f, b), Descriptors(f, b)
  PROVE  FdsOk'
<1> DEFINE kept(o) == o \in Held(f) \/ b[o].peer \in Held(f)
<1>1. fd' = f /\ open' = [o \in Opens |-> IF kept(o) THEN b[o] ELSE NotOpen]
  BY Zenon DEF Descriptors
<1>2. \A p \in Procs, n \in 0 .. MAXFD - 1 : f[p][n] \in Held(f)
  BY DEF Held
<1>3. \A o \in Opens : b[o].dev = "pipe" => (kept(o) <=> kept(b[o].peer))
  BY DEF OpensOk, EndOk
<1> HIDE DEF kept
<1>4. \A o \in Opens : IF kept(o) THEN open'[o] = b[o] ELSE open'[o] = NotOpen
  BY <1>1
<1>5. DOMAIN open' = Opens
  BY <1>1
<1>6. ASSUME NEW o \in Opens
      PROVE  IsOpen(open'[o]) /\ (open'[o].dev = "pipe" => EndOk(open', o))
  <2>1. CASE ~ kept(o)
    BY <1>4, <2>1, NotOpenIs
  <2>2. CASE kept(o)
    <3>1. IsOpen(b[o])
      BY DEF OpensOk
    <3>2. ASSUME b[o].dev = "pipe"
          PROVE  EndOk(open', o)
      <4>1. EndOk(b, o)
        BY <3>2 DEF OpensOk
      <4>2. open'[b[o].peer] = b[b[o].peer]
        BY <1>3, <1>4, <2>2, <3>2, <4>1 DEF EndOk
      <4> QED BY <1>4, <2>2, <4>1, <4>2 DEF EndOk
    <3> QED BY <1>4, <2>2, <3>1, <3>2
  <2> QED BY <2>1, <2>2
<1>7. ASSUME NEW p \in Procs, NEW n \in 0 .. MAXFD - 1, f[p][n] \in Opens
      PROVE  open'[f[p][n]].dev \in {"file", "pipe"}
  <2>1. kept(f[p][n])
    BY <1>2 DEF kept
  <2> QED BY <1>4, <1>7, <2>1 DEF TableOk
<1> QED BY <1>1, <1>5, <1>6, <1>7 DEF FdsOk, OpensOk, TableOk

LEMMA RowKeeps ==
  ASSUME NEW p \in Procs, NEW f, NEW b, NEW row, TableOk(f, b), RowOk(row, b)
  PROVE  TableOk([f EXCEPT ![p] = row], b)
BY DEF TableOk, RowOk

LEMMA RowsOk ==
  ASSUME NEW p \in Procs, NEW f, NEW b, TableOk(f, b)
  PROVE  RowOk(f[p], b) /\ RowOk(AllClosed, b)
<1>1. RowOk(f[p], b)
  BY DEF TableOk, RowOk
<1>2. RowOk(AllClosed, b)
  BY DEF RowOk, AllClosed, Closed, Opens
<1> QED BY <1>1, <1>2

LEMMA RowSet ==
  ASSUME NEW row, NEW b, NEW n, NEW o, RowOk(row, b), o = Closed \/ (o \in Opens /\ b[o].dev \in {"file", "pipe"})
  PROVE  RowOk([row EXCEPT ![n] = o], b)
<1> DEFINE s == [row EXCEPT ![n] = o]
<1>1. s \in [0 .. MAXFD - 1 -> {Closed, Console} \cup Opens]
  BY DEF RowOk
<1>2. \A m \in 0 .. MAXFD - 1 : s[m] = o \/ s[m] = row[m]
  BY DEF RowOk
<1> HIDE DEF s
<1>3. Closed \notin Opens
  BY DEF Closed, Opens
<1>4. ASSUME NEW m \in 0 .. MAXFD - 1, s[m] \in Opens
      PROVE  b[s[m]].dev \in {"file", "pipe"}
  BY <1>2, <1>3, <1>4 DEF RowOk
<1> QED BY <1>1, <1>4 DEF RowOk, s

LEMMA StaysTable ==
  ASSUME NEW f, NEW b, NEW c, TableOk(f, b), StaysOpen(b, c)
  PROVE  TableOk(f, c)
BY DEF TableOk, StaysOpen

(* A new pipe, a new file.                                                 *)
LEMMA PipeOpens ==
  ASSUME OpensOk(open), NEW o \in FreeOpens, NEW q \in FreeOpens \ {o}
  PROVE  LET b == [open EXCEPT ![o] = PipeEnd(q), ![q] = PipeEnd(o)]
         IN  OpensOk(b) /\ StaysOpen(open, b) /\ b[o].dev = "pipe" /\ b[q].dev = "pipe"
<1> DEFINE b == [open EXCEPT ![o] = PipeEnd(q), ![q] = PipeEnd(o)]
<1>1. o \in Opens /\ q \in Opens /\ o # q /\ open[o].dev = "none" /\ open[q].dev = "none"
  BY NotOpenIs DEF FreeOpens
<1>2. /\ DOMAIN b = Opens /\ b[o] = PipeEnd(q) /\ b[q] = PipeEnd(o)
      /\ \A x \in Opens \ {o, q} : b[x] = open[x]
  BY <1>1 DEF OpensOk
<1> HIDE DEF b
<1>3. IsSequence(<<>>) /\ Len(<<>>) <= PIPE_SIZE
  BY ShellAssumption DEF IsSequence
<1>4. EndOk(b, o) /\ EndOk(b, q)
  BY <1>1, <1>2, <1>3, NotOpenIs DEF EndOk
<1>5. ASSUME NEW x \in Opens \ {o, q}, open[x].dev = "pipe"
      PROVE  EndOk(b, x)
  <2>1. EndOk(open, x)
    BY <1>5 DEF OpensOk
  <2>2. open[x].peer \notin {o, q}
    BY <1>1, <2>1 DEF EndOk
  <2> QED BY <1>2, <2>1, <2>2 DEF EndOk
<1>6. OpensOk(b)
  BY <1>2, <1>4, <1>5, NotOpenIs DEF OpensOk
<1>7. StaysOpen(open, b) /\ b[o].dev = "pipe" /\ b[q].dev = "pipe"
  BY <1>1, <1>2, NotOpenIs DEF StaysOpen
<1> QED BY <1>6, <1>7 DEF b

LEMMA FileOpens ==
  ASSUME OpensOk(open), NEW o \in FreeOpens, NEW path, NEW off
  PROVE  LET b == [open EXCEPT ![o] = FileOpened(path, off)]
         IN  OpensOk(b) /\ StaysOpen(open, b) /\ b[o].dev = "file"
<1> DEFINE b == [open EXCEPT ![o] = FileOpened(path, off)]
<1>1. o \in Opens /\ open[o].dev = "none"
  BY NotOpenIs DEF FreeOpens
<1>2. DOMAIN b = Opens /\ b[o] = FileOpened(path, off) /\ \A x \in Opens \ {o} : b[x] = open[x]
  BY <1>1 DEF OpensOk
<1> HIDE DEF b
<1>3. ASSUME NEW x \in Opens \ {o}, open[x].dev = "pipe"
      PROVE  EndOk(b, x)
  <2>1. EndOk(open, x)
    BY <1>3 DEF OpensOk
  <2>2. open[x].peer # o
    BY <1>1, <2>1 DEF EndOk
  <2> QED BY <1>2, <2>1, <2>2 DEF EndOk
<1>4. OpensOk(b)
  BY <1>2, <1>3, NotOpenIs DEF OpensOk
<1>5. StaysOpen(open, b) /\ b[o].dev = "file"
  BY <1>1, <1>2, NotOpenIs DEF StaysOpen
<1> QED BY <1>4, <1>5 DEF b

(* Reading and writing: a table in which one entry keeps its device and    *)
(* its peer, and what is in it if it is a pipe fits.                       *)
LEMMA EntryChanges ==
  ASSUME OpensOk(open), NEW o \in Opens, NEW x, IsOpen(x), x.dev = open[o].dev, x.peer = open[o].peer,
         x.dev = "pipe" => IsSequence(x.data) /\ Len(x.data) <= PIPE_SIZE
  PROVE  LET b == [open EXCEPT ![o] = x] IN OpensOk(b) /\ StaysOpen(open, b)
<1> DEFINE b == [open EXCEPT ![o] = x]
<1>1. DOMAIN b = Opens /\ b[o] = x /\ \A y \in Opens \ {o} : b[y] = open[y]
  BY DEF OpensOk
<1> HIDE DEF b
<1>2. \A y \in Opens : b[y].dev = open[y].dev /\ b[y].peer = open[y].peer
  BY <1>1
<1>3. ASSUME NEW y \in Opens, b[y].dev = "pipe"
      PROVE  EndOk(b, y)
  <2>1. EndOk(open, y)
    BY <1>2, <1>3 DEF OpensOk
  <2>2. IsSequence(b[y].data) /\ Len(b[y].data) <= PIPE_SIZE
    BY <1>1, <1>3, <2>1 DEF EndOk
  <2> QED BY <1>2, <2>1, <2>2 DEF EndOk
<1> QED BY <1>1, <1>2, <1>3 DEF OpensOk, StaysOpen, b

LEMMA SequenceOf ==
  ASSUME NEW S, NEW s \in Seq(S)
  PROVE  IsSequence(s)
BY DEF IsSequence

LEMMA TakenKeeps ==
  ASSUME OpensOk(open), NEW o, HasData(o)
  PROVE  OpensOk(Taken(o)) /\ StaysOpen(open, Taken(o))
<1> DEFINE x == [open[o] EXCEPT !.off = @ + 1]
           y == [open[o] EXCEPT !.data = Tail(@)]
<1>1. o \in Opens /\ IsOpen(open[o])
  BY DEF HasData, OpensOk
<1>2. Taken(o) = IF open[o].dev = "file" THEN [open EXCEPT ![o] = x] ELSE [open EXCEPT ![o] = y]
  BY <1>1 DEF Taken, OpensOk
<1>3. IsOpen(x) /\ x.dev = open[o].dev /\ x.peer = open[o].peer
  BY <1>1 DEF IsOpen
<1>4. IsOpen(y) /\ y.dev = open[o].dev /\ y.peer = open[o].peer /\ y.data = Tail(open[o].data)
  BY <1>1 DEF IsOpen
<1>5. ASSUME open[o].dev = "pipe"
      PROVE  IsSequence(y.data) /\ Len(y.data) <= PIPE_SIZE
  <2> DEFINE d == open[o].data
             S == {d[k] : k \in DOMAIN d}
  <2>1. d \in Seq(S) /\ Len(d) <= PIPE_SIZE /\ d # <<>>
    BY <1>1, <1>5 DEF OpensOk, EndOk, IsSequence, HasData
  <2> HIDE DEF d, S
  <2>2. Tail(d) \in Seq(S) /\ Len(Tail(d)) = Len(d) - 1 /\ Len(d) \in Nat
    BY <2>1
  <2>3. IsSequence(Tail(d)) /\ Len(Tail(d)) <= PIPE_SIZE
    <3>1. IsSequence(Tail(d))
      BY <2>2, SequenceOf, Zenon
    <3>2. PIPE_SIZE \in Nat
      BY ShellAssumption
    <3> QED BY <2>1, <2>2, <3>1, <3>2
  <2> QED BY <1>4, <2>3 DEF d
<1> HIDE DEF x, y
<1>6. open[o].dev = "file" => OpensOk([open EXCEPT ![o] = x]) /\ StaysOpen(open, [open EXCEPT ![o] = x])
  BY <1>1, <1>3, EntryChanges
<1>7. OpensOk([open EXCEPT ![o] = y]) /\ StaysOpen(open, [open EXCEPT ![o] = y])
  BY <1>1, <1>4, <1>5, EntryChanges
<1> QED BY <1>2, <1>6, <1>7

LEMMA WroteKeeps ==
  ASSUME OpensOk(open), NEW o \in {Closed, Console} \cup Opens, NEW v
  PROVE  OpensOk(Wrote(o, v).open) /\ StaysOpen(open, Wrote(o, v).open)
<1>1. StaysOpen(open, open)
  BY DEF StaysOpen
<1>2. CASE IsPipe(o) /\ ~ Full(o)
  <2> DEFINE q == open[o].peer
             x == [open[q] EXCEPT !.data = Append(@, v)]
             d == open[q].data
             S == {d[k] : k \in DOMAIN d}
  <2>1. q \in Opens /\ IsOpen(open[q]) /\ open[q].dev = "pipe" /\ EndOk(open, q)
    BY <1>2 DEF IsPipe, OpensOk, EndOk
  <2>2. IsOpen(x) /\ x.dev = open[q].dev /\ x.peer = open[q].peer /\ x.data = Append(d, v)
    BY <2>1 DEF IsOpen
  <2>3. d \in Seq(S) /\ Len(d) <= PIPE_SIZE /\ Len(d) # PIPE_SIZE
    BY <1>2, <2>1 DEF EndOk, IsSequence, Full
  <2> HIDE DEF x, d, S, q
  <2>4. Append(d, v) \in Seq(S \cup {v}) /\ Len(Append(d, v)) = Len(d) + 1 /\ Len(d) \in Nat
    BY <2>3
  <2>5. IsSequence(Append(d, v)) /\ Len(Append(d, v)) <= PIPE_SIZE
    <3>1. IsSequence(Append(d, v))
      BY <2>4, SequenceOf, Zenon
    <3>2. PIPE_SIZE \in Nat
      BY ShellAssumption
    <3> QED BY <2>3, <2>4, <3>1, <3>2
  <2>6. OpensOk([open EXCEPT ![q] = x]) /\ StaysOpen(open, [open EXCEPT ![q] = x])
    <3>1. IsSequence(x.data) /\ Len(x.data) <= PIPE_SIZE
      BY <2>2, <2>5
    <3> QED BY <2>1, <2>2, <3>1, EntryChanges
  <2>7. Wrote(o, v).open = [open EXCEPT ![q] = x]
    BY <1>2, <2>1 DEF Wrote, IsPipe, Opens, Console, Closed, q, x
  <2> QED BY <2>6, <2>7
<1>3. CASE o \notin Opens
  <2>1. Wrote(o, v).open = open
    <3>1. (o = Console \/ o = Closed) /\ Closed # Console /\ ~ IsPipe(o) /\ ~ Full(o)
      BY <1>3 DEF Closed, Console, IsPipe, Full
    <3>2. \/ Wrote(o, v) = [open |-> open, files |-> files, screen |-> Append(screen, v)]
          \/ Wrote(o, v) = [open |-> open, files |-> files, screen |-> screen]
      BY <3>1 DEF Wrote
    <3> QED BY <3>2
  <2> QED BY <1>1, <2>1
<1>4. CASE o \in Opens /\ Full(o)
  <2>1. Wrote(o, v).open = open
    <3>1. o # Console /\ o # Closed
      BY <1>4 DEF Opens, Console, Closed
    <3>2. Wrote(o, v) = [open |-> open, files |-> files, screen |-> screen]
      BY <1>4, <3>1 DEF Wrote
    <3> QED BY <3>2
  <2> QED BY <1>1, <2>1
<1>5. CASE o \in Opens /\ ~ IsPipe(o)
  <2> DEFINE x == [open[o] EXCEPT !.off = @ + 1]
  <2>1. IsOpen(open[o]) /\ open[o].dev # "pipe"
    BY <1>5 DEF IsPipe, OpensOk
  <2>2. IsOpen(x) /\ x.dev = open[o].dev /\ x.peer = open[o].peer
    BY <2>1 DEF IsOpen
  <2>3. OpensOk([open EXCEPT ![o] = x]) /\ StaysOpen(open, [open EXCEPT ![o] = x])
    BY <1>5, <2>1, <2>2, EntryChanges
  <2>4. Wrote(o, v).open = [open EXCEPT ![o] = x]
    BY <1>5, <2>1 DEF Wrote, IsPipe, Full, Opens, Console, Closed
  <2> QED BY <2>3, <2>4
<1> QED BY <1>2, <1>3, <1>4, <1>5

(* The ways in which a step changes descriptors.                           *)
Apart(p) == p # Sh => fd'[Sh] = fd[Sh]

LEMMA SameFds ==
  ASSUME NEW p \in Procs, FdsOk, UNCHANGED <<fd, open>>
  PROVE  FdsOk' /\ Apart(p)
BY DEF FdsOk, OpensOk, TableOk, EndOk, Apart

LEMMA RowFds ==
  ASSUME NEW p \in Procs, NEW row, NEW b, FdsOk, OpensOk(b), StaysOpen(open, b), RowOk(row, b),
         Descriptors([fd EXCEPT ![p] = row], b)
  PROVE  FdsOk' /\ fd'[p] = row /\ Apart(p)
<1> DEFINE f == [fd EXCEPT ![p] = row]
<1>1. TableOk(fd, b)
  BY StaysTable DEF FdsOk
<1>2. TableOk(f, b)
  BY <1>1, RowKeeps
<1>3. fd' = f
  BY Zenon DEF Descriptors
<1>4. FdsOk'
  <2> HIDE DEF f
  <2> QED BY <1>2, DescriptorsKeep DEF f
<1>5. fd'[p] = row /\ Apart(p)
  BY <1>1, <1>3, ShellAssumption DEF TableOk, Apart, Procs, Sh
<1> QED BY <1>4, <1>5

LEMMA TableFds ==
  ASSUME NEW p \in Procs, NEW b, FdsOk, OpensOk(b), StaysOpen(open, b), Descriptors(fd, b)
  PROVE  FdsOk' /\ fd' = fd
<1>1. TableOk(fd, b)
  BY StaysTable DEF FdsOk
<1>2. FdsOk'
  BY <1>1, DescriptorsKeep
<1> QED BY <1>2, Zenon DEF Descriptors

LEMMA ForkFds ==
  ASSUME NEW p \in Procs, NEW r, NEW rf, NEW c, NEW cf, NEW b, Forks(p, r, rf, c, cf, b),
         FdsOk, proc[Sh].pc # "free", proc[p].pc # "free",
         OpensOk(b), StaysOpen(open, b), RowOk(rf, b), RowOk(cf, b)
  PROVE  FdsOk' /\ fd'[p] = rf /\ Apart(p)
<1> DEFINE n == NewProc
           f == [fd EXCEPT ![p] = rf]
           g == [f EXCEPT ![n] = cf]
<1>1. n \in Procs /\ n # p /\ n # Sh
  BY NewIsFree DEF Forks, FreeProcs
<1>2. TableOk(fd, b)
  BY StaysTable DEF FdsOk
<1>3. TableOk(f, b)
  BY <1>2, RowKeeps
<1>4. TableOk(g, b)
  <2> HIDE DEF f
  <2> QED BY <1>1, <1>3, RowKeeps
<1>5. Descriptors(g, b)
  BY Zenon DEF Forks
<1>6. fd' = g
  BY <1>5, Zenon DEF Descriptors
<1>7. fd'[p] = rf /\ Apart(p)
  BY <1>1, <1>2, <1>6, ShellAssumption DEF TableOk, Apart, Procs, Sh
<1>8. FdsOk'
  <2> HIDE DEF g
  <2> QED BY <1>4, <1>5, DescriptorsKeep
<1> QED BY <1>7, <1>8

LEMMA ExitFds ==
  ASSUME NEW p \in Procs, NEW status, NEW b, FdsOk, OpensOk(b), StaysOpen(open, b), Exit(p, status, b)
  PROVE  FdsOk' /\ Apart(p)
<1>1. TableOk(fd, b)
  BY StaysTable DEF FdsOk
<1>2. RowOk(AllClosed, b)
  BY <1>1, RowsOk
<1> QED BY <1>2, RowFds, Zenon DEF Exit

LEMMA ReturnFds ==
  ASSUME NEW p \in Procs, NEW r, NEW v, NEW b, FdsOk, OpensOk(b), StaysOpen(open, b),
         Return(p, r, v, fd[p], b)
  PROVE  FdsOk' /\ Apart(p) /\ (r.ret = "main" => fd'[p] = fd[p])
<1>1. TableOk(fd, b)
  BY StaysTable DEF FdsOk
<1>2. RowOk(fd[p], b)
  BY <1>1, RowsOk
<1>3. CASE r.ret = "main"
  <2>1. Descriptors([fd EXCEPT ![p] = fd[p]], b)
    BY <1>3, Zenon DEF Return
  <2> QED BY <1>2, <2>1, RowFds
<1>4. CASE r.ret # "main"
  <2>1. \E status : Exit(p, status, b)
    BY <1>4, Zenon DEF Return
  <2> QED BY <1>4, <2>1, ExitFds
<1> QED BY <1>3, <1>4

LEMMA OpenStays == OpensOk(open) => OpensOk(open) /\ StaysOpen(open, open)
BY DEF StaysOpen

LEMMA MainFds ==
  ASSUME NEW p \in Procs, FdsOk, proc[Sh].pc # "free", ReadLine(p) \/ Main(p)
  PROVE  FdsOk' /\ Apart(p)
<1>0. OpensOk(open) /\ StaysOpen(open, open) /\ TableOk(fd, open)
  BY OpenStays DEF FdsOk
<1>r. RowOk(fd[p], open)
  BY <1>0, RowsOk
<1>1. CASE ReadLine(p)
  BY <1>1, SameFds DEF ReadLine
<1>2. CASE NextCommand(p) \/ SubstitutionFails(p) \/ SubstitutionDone(p) \/ DispatchHistory(p)
           \/ DispatchBuiltin(p)
  <2>1. UNCHANGED <<fd, open>>
    BY <1>2, Zenon DEF NextCommand, SubstitutionFails, SubstitutionDone, DispatchHistory, DispatchBuiltin, Local
  <2> QED BY <2>1, SameFds
<1>3. CASE CaptureWait(p) \/ WaitCommand(p)
  <2>1. UNCHANGED <<fd, open>>
    BY <1>3, Zenon DEF CaptureWait, WaitCommand, Reaps
  <2> QED BY <2>1, SameFds
<1>4. CASE Capture(p)
  <2> DEFINE n == Min(FreeFds(p))
             o == Min(FreeOpens)
             q == Min(FreeOpens \ {o})
             b == [open EXCEPT ![o] = PipeEnd(q), ![q] = PipeEnd(o)]
  <2>1. o \in FreeOpens /\ q \in FreeOpens \ {o}
    BY <1>4, TwoOpens DEF Capture
  <2>2. \E r, c : Forks(p, r, [fd[p] EXCEPT ![n] = o], c, [fd[p] EXCEPT ![1] = q], b)
    BY <1>4, Zenon DEF Capture
  <2>3. proc[p].pc # "free"
    BY <1>4 DEF Capture
  <2> HIDE DEF n, o, q
  <2>4. OpensOk(b) /\ StaysOpen(open, b) /\ b[o].dev = "pipe" /\ b[q].dev = "pipe"
    BY <1>0, <2>1, PipeOpens
  <2> HIDE DEF b
  <2>5. RowOk(fd[p], b)
    BY <1>0, <2>4, StaysTable, RowsOk
  <2>6. RowOk([fd[p] EXCEPT ![n] = o], b) /\ RowOk([fd[p] EXCEPT ![1] = q], b)
    BY <2>1, <2>4, <2>5, RowSet DEF FreeOpens
  <2> QED BY <2>2, <2>3, <2>4, <2>6, ForkFds
<1>5. CASE CaptureRead(p)
  <2>1. PICK o : HasData(o) /\ Descriptors(fd, Taken(o))
    BY <1>5, Zenon DEF CaptureRead
  <2>2. OpensOk(Taken(o)) /\ StaysOpen(open, Taken(o))
    BY <1>0, <2>1, TakenKeeps
  <2> QED BY <2>1, <2>2, TableFds DEF Apart
<1>6. CASE CaptureEnds(p)
  <2> DEFINE row == [fd[p] EXCEPT ![proc[p].pfd] = Closed]
  <2>1. [fd EXCEPT ![p][proc[p].pfd] = Closed] = [fd EXCEPT ![p] = row]
    BY <1>0 DEF TableOk
  <2>2. Descriptors([fd EXCEPT ![p] = row], open)
    BY <1>6, <2>1, Zenon DEF CaptureEnds
  <2>3. RowOk(row, open)
    BY <1>r, RowSet
  <2> QED BY <1>0, <2>2, <2>3, RowFds
<1>7. CASE DispatchExit(p)
  BY <1>0, <1>7, ExitFds DEF DispatchExit, Exits
<1>8. CASE DispatchFork(p)
  <2>1. proc[p].pc # "free" /\ \E r, c : Forks(p, r, fd[p], c, fd[p], open)
    BY <1>8, Zenon DEF DispatchFork
  <2> QED BY <1>0, <1>r, <2>1, ForkFds
<1> QED BY <1>1, <1>2, <1>3, <1>4, <1>5, <1>6, <1>7, <1>8 DEF Main, Substitution

LEMMA RunFds ==
  ASSUME NEW p \in Procs, FdsOk, proc[Sh].pc # "free", Runcmd(p) \/ Program(p)
  PROVE  FdsOk' /\ Apart(p)
<1>0. OpensOk(open) /\ StaysOpen(open, open) /\ TableOk(fd, open)
  BY OpenStays DEF FdsOk
<1>r. RowOk(fd[p], open) /\ RowOk(AllClosed, open)
  BY <1>0, RowsOk
<1>w. fd[p][1] \in {Closed, Console} \cup Opens
  BY <1>0, ShellAssumption DEF TableOk
<1>1. CASE ParseEnd(p)
  BY <1>1, SameFds, Zenon DEF ParseEnd, Local
<1>2. CASE FailedWait(p) \/ WaitChild(p) \/ WaitRight(p)
  <2>1. UNCHANGED <<fd, open>>
    BY <1>2, Zenon DEF FailedWait, WaitChild, WaitRight, Reaps
  <2> QED BY <2>1, SameFds
<1>3. CASE RedirectFails(p) \/ ParseTooMany(p) \/ RunNothing(p) \/ RunVars(p)
  <2>1. \E r, v : Return(p, r, v, fd[p], open)
    BY <1>3, Zenon DEF RedirectFails, ParseTooMany, RunNothing, RunVars
  <2> QED BY <1>0, <2>1, ReturnFds
<1>4. CASE RunCd(p)
  <2>1. \E r, v : Return(p, r, v, fd[p], open)
    BY <1>4, Zenon DEF RunCd
  <2> QED BY <1>0, <2>1, ReturnFds
<1>5. CASE RunPwd(p)
  <2>1. \E r, v, b : Return(p, r, v, fd[p], b) /\ (b = open \/ \E d : b = Wrote(fd[p][1], d).open)
    <3> DEFINE ok == Len(proc[p].argv) = 1
               d == Getcwd(proc[p])
               w == IF ok THEN Wrote(fd[p][1], d) ELSE [open |-> open, files |-> files, screen |-> screen]
               v == IF ok THEN proc[p].rightpipe ELSE -1
    <3>1. Return(p, proc[p], v, fd[p], w.open)
      BY <1>5, Zenon DEF RunPwd
    <3> HIDE DEF ok, d, v
    <3>2. w.open = open \/ w.open = Wrote(fd[p][1], d).open
      OBVIOUS
    <3> HIDE DEF w
    <3> QED BY <3>1, <3>2, Zenon
  <2>2. PICK r, v, b : Return(p, r, v, fd[p], b) /\ (b = open \/ \E d : b = Wrote(fd[p][1], d).open)
    BY <2>1
  <2>3. OpensOk(b) /\ StaysOpen(open, b)
    BY <1>0, <1>w, <2>2, WroteKeeps
  <2> QED BY <2>2, <2>3, ReturnFds
<1>6. CASE RedirectOpens(p)
  <2> DEFINE o == Min(FreeOpens)
             b(path, off) == [open EXCEPT ![o] = FileOpened(path, off)]
             row(n) == [fd[p] EXCEPT ![n] = o]
  <2>1. o \in FreeOpens
    <3>1. FreeOpens # {} /\ FreeOpens \in SUBSET Nat
      BY <1>6, ShellAssumption DEF RedirectOpens, FreeOpens, Opens
    <3> QED BY <3>1, Least
  <2>2. \E n, path, off : Descriptors([fd EXCEPT ![p][n] = o], b(path, off))
    BY <1>6, Zenon DEF RedirectOpens
  <2>3. PICK n, path, off : Descriptors([fd EXCEPT ![p][n] = o], b(path, off))
    BY <2>2
  <2> HIDE DEF o
  <2>4. [fd EXCEPT ![p][n] = o] = [fd EXCEPT ![p] = row(n)]
    BY <1>0 DEF TableOk
  <2>5. OpensOk(b(path, off)) /\ StaysOpen(open, b(path, off)) /\ b(path, off)[o].dev = "file"
    BY <1>0, <2>1, FileOpens
  <2> HIDE DEF b
  <2>6. RowOk(fd[p], b(path, off))
    BY <1>0, <2>5, StaysTable, RowsOk
  <2>7. RowOk(row(n), b(path, off))
    BY <2>1, <2>5, <2>6, RowSet DEF FreeOpens
  <2> HIDE DEF row
  <2>8. Descriptors([fd EXCEPT ![p] = row(n)], b(path, off))
    BY <2>3, <2>4, Zenon
  <2> QED BY <2>5, <2>7, <2>8, RowFds
<1>7. CASE ParsePipe(p)
  <2> DEFINE o == Min(FreeOpens)
             q == Min(FreeOpens \ {o})
             b == [open EXCEPT ![o] = PipeEnd(q), ![q] = PipeEnd(o)]
  <2>1. o \in FreeOpens /\ q \in FreeOpens \ {o}
    BY <1>7, TwoOpens DEF ParsePipe
  <2>2. \E r, c : Forks(p, r, [fd[p] EXCEPT ![1] = q], c, [fd[p] EXCEPT ![0] = o], b)
    BY <1>7, Zenon DEF ParsePipe
  <2>3. proc[p].pc # "free"
    BY <1>7 DEF ParsePipe
  <2> HIDE DEF o, q
  <2>4. OpensOk(b) /\ StaysOpen(open, b) /\ b[o].dev = "pipe" /\ b[q].dev = "pipe"
    BY <1>0, <2>1, PipeOpens
  <2> HIDE DEF b
  <2>5. RowOk(fd[p], b)
    BY <1>0, <2>4, StaysTable, RowsOk
  <2>6. RowOk([fd[p] EXCEPT ![0] = o], b) /\ RowOk([fd[p] EXCEPT ![1] = q], b)
    BY <2>1, <2>4, <2>5, RowSet DEF FreeOpens
  <2> QED BY <2>2, <2>3, <2>4, <2>6, ForkFds
<1>8. CASE RunSpawn(p)
  <2>1. proc[p].pc # "free" /\ \E r, c : Forks(p, r, AllClosed, c, fd[p], open)
    BY <1>8, Zenon DEF RunSpawn
  <2> QED BY <1>0, <1>r, <2>1, ForkFds
<1>9. CASE SpawnFails(p)
  <2>1. Exit(p, 1, open) \/ UNCHANGED <<fd, open>>
    BY <1>9, Zenon DEF SpawnFails, Exits, Local
  <2> QED BY <1>0, <2>1, ExitFds, SameFds
<1>10. CASE RunExits(p) \/ ProgramEnds(p)
  <2>1. \E status : Exit(p, status, open)
    BY <1>10, Zenon DEF RunExits, ProgramEnds, Exits
  <2> QED BY <1>0, <2>1, ExitFds
<1>11. CASE ProgramWrites(p)
  <2>1. Exit(p, 1, open) \/ \E d : Descriptors(fd, Wrote(fd[p][1], d).open)
    BY <1>11, Zenon DEF ProgramWrites
  <2>2. \A d : OpensOk(Wrote(fd[p][1], d).open) /\ StaysOpen(open, Wrote(fd[p][1], d).open)
    BY <1>0, <1>w, WroteKeeps
  <2>3. ASSUME NEW d, Descriptors(fd, Wrote(fd[p][1], d).open)
        PROVE  FdsOk' /\ Apart(p)
    BY <2>2, <2>3, TableFds DEF Apart
  <2> QED BY <1>0, <2>1, <2>3, ExitFds
<1>12. CASE ProgramReads(p)
  <2>1. PICK o : HasData(o) /\ Descriptors(fd, Taken(o))
    BY <1>12, Zenon DEF ProgramReads
  <2>2. OpensOk(Taken(o)) /\ StaysOpen(open, Taken(o))
    BY <1>0, <2>1, TakenKeeps
  <2> QED BY <2>1, <2>2, TableFds DEF Apart
<1> QED BY <1>1, <1>2, <1>3, <1>4, <1>5, <1>6, <1>7, <1>8, <1>9, <1>10, <1>11, <1>12
        DEF Runcmd, Program

-----------------------------------------------------------------------------
(* The shell's own descriptors.                                            *)

LEMMA ShIs == Sh \in Procs
BY ShellAssumption DEF Procs, Sh

Quiet == (MainPcs \ {"capture"}) \cup {"parse", "run"}

(* From a state in which only the console is open to any other that has    *)
(* the same descriptors, and to one that main never leaves again.          *)
LEMMA QuietStays ==
  ASSUME NEW r, proc[Sh].pc \in Quiet, ShellOk(proc[Sh], fd[Sh]), r.rightpipe = 0, r.pc # "capture"
  PROVE  ShellOk(r, fd[Sh])
BY DEF ShellOk, Quiet

LEMMA LostStays ==
  ASSUME NEW r, NEW row, r.rightpipe = 0, r.pc \notin Quiet \cup {"capture"}
  PROVE  ShellOk(r, row)
BY DEF ShellOk, Quiet

LEMMA ShellExits ==
  ASSUME NEW status, NEW b, ImagesOk, Exit(Sh, status, b)
  PROVE  ShellOk(proc'[Sh], fd'[Sh])
<1> DEFINE z == [NoImage EXCEPT !.pc = "zombie", !.status = status]
<1>1. z.pc = "zombie" /\ z.rightpipe = 0
  BY DEF NoImage
<1>2. proc'[Sh] = z
  BY ShIs DEF Exit, Become, ImagesOk
<1> HIDE DEF z
<1> QED BY <1>1, <1>2, LostStays DEF Quiet, MainPcs

LEMMA ShellReturns ==
  ASSUME NEW r, NEW v, ImagesOk, FdsOk, proc[Sh].pc \in Quiet, ShellOk(proc[Sh], fd[Sh]),
         v = -1 \/ v = 0, NEW b, Return(Sh, r, v, fd[Sh], b)
  PROVE  ShellOk(proc'[Sh], fd'[Sh])
<1>1. ~ (v > 0)
  BY Positive, Zenon
<1>2. CASE r.ret = "main"
  <2>1. \E x : Become(Sh, Decided(x))
    BY <1>1, <1>2, Zenon DEF Return
  <2>2. PICK x : proc'[Sh] = Decided(x)
    BY <2>1, ShIs DEF Become, ImagesOk
  <2>3. fd' = [fd EXCEPT ![Sh] = fd[Sh]]
    BY <1>2, Zenon DEF Return, Descriptors
  <2>4. fd'[Sh] = fd[Sh]
    BY <2>3, ShIs DEF FdsOk, TableOk
  <2>5. Decided(x).rightpipe = 0 /\ Decided(x).pc # "capture"
    BY DecidedIs
  <2> QED BY <2>2, <2>4, <2>5, QuietStays
<1>3. CASE r.ret # "main"
  <2>1. \E status : Exit(Sh, status, b)
    BY <1>3, Zenon DEF Return
  <2> QED BY <2>1, ShellExits
<1> QED BY <1>2, <1>3

LEMMA ShellReaps ==
  ASSUME NEW c, NEW r, ImagesOk, FdsOk, c # Sh, Reaps(Sh, c, r)
  PROVE  proc'[Sh] = r /\ fd'[Sh] = fd[Sh]
BY ShIs DEF Reaps, ImagesOk

LEMMA ShellForks ==
  ASSUME NEW r, NEW row, NEW c, NEW cf, NEW b, ImagesOk, FdsOk, proc[Sh].pc # "free",
         Forks(Sh, r, row, c, cf, b)
  PROVE  proc'[Sh] = r /\ fd'[Sh] = row
<1>1. NewProc \in Procs /\ NewProc # Sh
  BY NewIsFree DEF Forks, FreeProcs
<1>2. fd' = [fd EXCEPT ![Sh] = row, ![NewProc] = cf]
  BY Zenon DEF Forks, Descriptors
<1> QED BY <1>1, <1>2, ShIs DEF Forks, ImagesOk, FdsOk, TableOk

LEMMA ShellMain ==
  ASSUME ImagesOk, WaitedOk, FdsOk, ShellOk(proc[Sh], fd[Sh]), ReadLine(Sh) \/ Main(Sh)
  PROVE  ShellOk(proc'[Sh], fd'[Sh])
<1> DEFINE r == proc[Sh]
<1>0. IsImage(r) /\ r.rightpipe = 0 /\ DOMAIN proc = Procs /\ Sh \in Procs
  BY ShIs DEF ImagesOk, ImageOk, ShellOk
<1>d. \A x : Decided(x).rightpipe = 0 /\ Decided(x).pc # "capture"
  BY DecidedIs
<1>1. CASE ReadLine(Sh)
  <2>1. r.pc = "prompt" /\ fd' = fd
    BY <1>1 DEF ReadLine
  <2>2. proc'[Sh].rightpipe = 0 /\ proc'[Sh].pc # "capture"
    BY <1>0, <1>1 DEF ReadLine, Become, IsImage
  <2> QED BY <2>1, <2>2, QuietStays DEF Quiet, MainPcs
<1>2. CASE NextCommand(Sh)
  <2> DEFINE a == [r EXCEPT !.pc = "prompt"]
             b(s) == [r EXCEPT !.pc = "backtick", !.rest = s]
  <2>1. a.rightpipe = 0 /\ a.pc # "capture" /\ \A s : b(s).rightpipe = 0 /\ b(s).pc # "capture"
    BY <1>0 DEF IsImage
  <2>2. Become(Sh, a) \/ Become(Sh, Decided(r)) \/ \E s : Become(Sh, b(s))
    BY <1>2, Zenon DEF NextCommand, Local
  <2>3. r.pc = "next" /\ fd' = fd
    BY <1>2 DEF NextCommand, Local
  <2> HIDE DEF a, b
  <2>4. proc'[Sh].rightpipe = 0 /\ proc'[Sh].pc # "capture"
    BY <1>0, <1>d, <2>1, <2>2 DEF Become
  <2> QED BY <2>3, <2>4, QuietStays DEF Quiet, MainPcs
<1>3. CASE SubstitutionFails(Sh) \/ DispatchHistory(Sh)
  <2>1. r.pc \in {"backtick", "dispatch"} /\ fd' = fd /\ \E x : Become(Sh, Decided(x))
    BY <1>3, Zenon DEF SubstitutionFails, DispatchHistory, Local
  <2>2. proc'[Sh].rightpipe = 0 /\ proc'[Sh].pc # "capture"
    BY <1>0, <1>d, <2>1 DEF Become
  <2> QED BY <2>1, <2>2, QuietStays DEF Quiet, MainPcs
<1>4. CASE SubstitutionDone(Sh) \/ DispatchBuiltin(Sh)
  <2>1. r.pc \in {"backtick", "dispatch"} /\ fd' = fd
    BY <1>4, Zenon DEF SubstitutionDone, DispatchBuiltin, Local
  <2>2. proc'[Sh].rightpipe = 0 /\ proc'[Sh].pc # "capture"
    BY <1>0, <1>4 DEF SubstitutionDone, DispatchBuiltin, Local, Become, IsImage
  <2> QED BY <2>1, <2>2, QuietStays DEF Quiet, MainPcs
<1>5. CASE Capture(Sh)
  <2> DEFINE m == Min(FreeFds(Sh))
             o == Min(FreeOpens)
             n(s) == [r EXCEPT !.pc = "capture", !.out = Plain(r), !.rest = s,
                               !.child = NewProc, !.text = <<>>, !.pfd = m]
  <2>1. r.pc = "backtick" /\ fd[Sh] = StdFds
    BY <1>5 DEF Capture, ShellOk, MainPcs
  <2>2. \E s, c, cf, b : Forks(Sh, n(s), [fd[Sh] EXCEPT ![m] = o], c, cf, b)
    BY <1>5, Zenon DEF Capture
  <2>3. m \in FreeFds(Sh)
    <3>1. FreeFds(Sh) # {}
      BY <1>5, ShIs, TwoOpens DEF Capture
    <3>2. FreeFds(Sh) \in SUBSET Nat
      BY ShellAssumption DEF FreeFds
    <3> QED BY <3>1, <3>2, Least
  <2>4. m \in 2 .. MAXFD - 1
    BY <2>1, <2>3, ShellAssumption DEF FreeFds, StdFds, Console, Closed
  <2>5. \A s : n(s).pc = "capture" /\ n(s).rightpipe = 0 /\ n(s).pfd = m
    BY <1>0 DEF IsImage
  <2> HIDE DEF m, o, n
  <2>6. PICK s : proc'[Sh] = n(s) /\ fd'[Sh] = [fd[Sh] EXCEPT ![m] = o]
    BY <2>1, <2>2, ShellForks
  <2> QED BY <2>1, <2>4, <2>5, <2>6 DEF ShellOk, StdFds
<1>6. CASE CaptureRead(Sh)
  <2>1. r.pc = "capture" /\ fd' = fd
    BY <1>6, Zenon DEF CaptureRead, Descriptors
  <2>2. proc'[Sh].rightpipe = 0 /\ proc'[Sh].pc = r.pc /\ proc'[Sh].pfd = r.pfd
    BY <1>0, <1>6 DEF CaptureRead, Become, IsImage
  <2> QED BY <2>1, <2>2 DEF ShellOk
<1>7. CASE CaptureEnds(Sh)
  <2>1. r.pc = "capture" /\ fd' = [fd EXCEPT ![Sh][r.pfd] = Closed]
    BY <1>7, Zenon DEF CaptureEnds, Descriptors
  <2>2. proc'[Sh].rightpipe = 0 /\ proc'[Sh].pc = "captured"
    BY <1>0, <1>7 DEF CaptureEnds, Become, IsImage
  <2>3. fd'[Sh] = StdFds
    <3>1. fd[Sh] \in [0 .. MAXFD - 1 -> {Closed, Console} \cup Opens] /\ DOMAIN fd = Procs
      BY ShIs DEF FdsOk, TableOk
    <3>2. fd'[Sh] = [fd[Sh] EXCEPT ![r.pfd] = Closed]
      BY <1>0, <2>1, <3>1
    <3>3. r.pfd \in 2 .. MAXFD - 1 /\ \A n \in 0 .. MAXFD - 1 : n # r.pfd => fd[Sh][n] = StdFds[n]
      BY <2>1 DEF ShellOk
    <3>4. StdFds[r.pfd] = Closed
      BY <3>3, ShellAssumption DEF StdFds
    <3>5. fd'[Sh] \in [0 .. MAXFD - 1 -> {Closed, Console} \cup Opens]
      BY <3>1, <3>2
    <3>6. \A n \in 0 .. MAXFD - 1 : fd'[Sh][n] = StdFds[n]
      BY <3>1, <3>2, <3>3, <3>4
    <3>7. StdFds = [n \in 0 .. MAXFD - 1 |-> StdFds[n]]
      BY DEF StdFds
    <3> HIDE DEF r
    <3> QED BY <3>5, <3>6, <3>7
  <2> QED BY <2>2, <2>3 DEF ShellOk
<1>8. CASE CaptureWait(Sh)
  <2> DEFINE n(t, o, s) == [r EXCEPT !.pc = "backtick", !.child = 0, !.text = <<>>, !.out = o, !.captured = s]
  <2>1. /\ r.pc = "captured" /\ IsZombie(r.child)
        /\ (\E o, s : Reaps(Sh, r.child, n(0, o, s))) \/ \E x : Reaps(Sh, r.child, Decided(x))
    BY <1>8, Zenon DEF CaptureWait
  <2>2. r.child # Sh
    BY <2>1 DEF IsZombie
  <2>3. \A o, s : n(0, o, s).rightpipe = 0 /\ n(0, o, s).pc # "capture"
    BY <1>0 DEF IsImage
  <2> HIDE DEF n
  <2>4. fd'[Sh] = fd[Sh] /\ proc'[Sh].rightpipe = 0 /\ proc'[Sh].pc # "capture"
    BY <1>d, <2>1, <2>2, <2>3, ShellReaps
  <2> QED BY <2>1, <2>4, QuietStays DEF Quiet, MainPcs
<1>9. CASE WaitCommand(Sh)
  <2>1. /\ r.pc = "wait" /\ IsZombie(r.child)
        /\ \E x : Reaps(Sh, r.child, Decided(x))
    BY <1>9, Zenon DEF WaitCommand
  <2>2. r.child # Sh
    BY <2>1 DEF IsZombie
  <2>4. fd'[Sh] = fd[Sh] /\ proc'[Sh].rightpipe = 0 /\ proc'[Sh].pc # "capture"
    BY <1>d, <2>1, <2>2, ShellReaps
  <2> QED BY <2>1, <2>4, QuietStays DEF Quiet, MainPcs
<1>10. CASE DispatchExit(Sh)
  BY <1>10, ShellExits DEF DispatchExit, Exits
<1>11. CASE DispatchFork(Sh)
  <2> DEFINE n == [r EXCEPT !.pc = "wait", !.child = NewProc, !.out = <<>>]
  <2>1. r.pc = "dispatch" /\ \E c : Forks(Sh, n, fd[Sh], c, fd[Sh], open)
    BY <1>11, Zenon DEF DispatchFork
  <2>2. n.rightpipe = 0 /\ n.pc # "capture"
    BY <1>0 DEF IsImage
  <2> HIDE DEF n
  <2>3. proc'[Sh] = n /\ fd'[Sh] = fd[Sh]
    BY <2>1, ShellForks
  <2> QED BY <2>1, <2>2, <2>3, QuietStays DEF Quiet, MainPcs
<1> QED BY <1>1, <1>2, <1>3, <1>4, <1>5, <1>6, <1>7, <1>8, <1>9, <1>10, <1>11 DEF Main, Substitution

LEMMA ShellRuns ==
  ASSUME ImagesOk, WaitedOk, FdsOk, ShellOk(proc[Sh], fd[Sh]), BuiltinsAlone, Runcmd(Sh) \/ Program(Sh)
  PROVE  ShellOk(proc'[Sh], fd'[Sh])
<1> DEFINE r == proc[Sh]
<1>0. IsImage(r) /\ r.rightpipe = 0 /\ DOMAIN proc = Procs /\ Sh \in Procs
  BY ShIs DEF ImagesOk, ImageOk, ShellOk
<1>1. ~ (RedirectFails(Sh) \/ RedirectOpens(Sh) \/ ParsePipe(Sh))
  BY Zenon DEF BuiltinsAlone, RedirectFails, RedirectOpens, ParsePipe
<1>2. CASE ParseEnd(Sh)
  <2>1. r.pc = "parse" /\ fd' = fd
    BY <1>2 DEF ParseEnd, Local
  <2>2. proc'[Sh].rightpipe = 0 /\ proc'[Sh].pc # "capture"
    BY <1>0, <1>2 DEF ParseEnd, Local, Become, WithWords, IsImage
  <2> QED BY <2>1, <2>2, QuietStays DEF Quiet
<1>3. CASE RunNothing(Sh) \/ RunVars(Sh) \/ RunCd(Sh) \/ RunPwd(Sh)
  <2>1. \E x, b, ok : Return(Sh, x, IF ok THEN 0 ELSE -1, fd[Sh], b)
    <3> DEFINE I(x, ok) == IF ok THEN x ELSE -1
    <3>1. RunNothing(Sh) => \E x, b : Return(Sh, x, I(r.rightpipe, TRUE), fd[Sh], b)
      BY Zenon DEF RunNothing
    <3>2. RunVars(Sh) => \E x, b, ok : Return(Sh, x, I(r.rightpipe, ok), fd[Sh], b)
      BY Zenon DEF RunVars
    <3>3. RunPwd(Sh) => \E x, b, ok : Return(Sh, x, I(r.rightpipe, ok), fd[Sh], b)
      BY Zenon DEF RunPwd
    <3>4. RunCd(Sh) => \E x, b, ok : Return(Sh, x, I(r.rightpipe, ok), fd[Sh], b)
      BY Zenon DEF RunCd
    <3> HIDE DEF I
    <3>5. \E x, b, ok : Return(Sh, x, I(r.rightpipe, ok), fd[Sh], b)
      BY <1>3, <3>1, <3>2, <3>3, <3>4, Zenon
    <3> USE DEF I
    <3> QED BY <1>0, <3>5
  <2>2. PICK x, b, ok : Return(Sh, x, IF ok THEN 0 ELSE -1, fd[Sh], b)
    BY <2>1
  <2>3. r.pc = "run"
    BY <1>3 DEF RunNothing, RunVars, RunCd, RunPwd, Runs
  <2> DEFINE v == IF ok THEN 0 ELSE -1
  <2>4. (v = -1 \/ v = 0) /\ Return(Sh, x, v, fd[Sh], b)
    BY <2>2
  <2> HIDE DEF v
  <2> QED BY <2>3, <2>4, ShellReturns DEF Quiet
<1>4. CASE RunSpawn(Sh)
  <2> DEFINE n == [r EXCEPT !.pc = "waitchild", !.child = NewProc, !.argv = <<>>]
  <2>1. r.pc = "run" /\ \E c : Forks(Sh, n, AllClosed, c, fd[Sh], open)
    BY <1>4, Zenon DEF RunSpawn
  <2>2. n.rightpipe = 0 /\ n.pc = "waitchild"
    BY <1>0 DEF IsImage
  <2> HIDE DEF n
  <2>3. proc'[Sh] = n
    BY <2>1, ShellForks
  <2> QED BY <2>2, <2>3, LostStays DEF Quiet, MainPcs
<1>5. CASE SpawnFails(Sh)
  <2>1. Exit(Sh, 1, open) \/ Become(Sh, [r EXCEPT !.pc = "failed", !.argv = <<>>])
    BY <1>5, Zenon DEF SpawnFails, Exits, Local
  <2>2. ASSUME Become(Sh, [r EXCEPT !.pc = "failed", !.argv = <<>>])
        PROVE  proc'[Sh].rightpipe = 0 /\ proc'[Sh].pc = "failed"
    BY <1>0, <2>2 DEF Become, IsImage
  <2> QED BY <2>1, <2>2, ShellExits, LostStays DEF Quiet, MainPcs
<1>6. CASE FailedWait(Sh) \/ WaitRight(Sh)
  <2>1. IsZombie(r.rightpipe)
    BY <1>6 DEF FailedWait, WaitRight
  <2> QED BY <1>0, <2>1 DEF IsZombie, Procs
<1>7. CASE WaitChild(Sh)
  <2> DEFINE n(s) == [r EXCEPT !.pc = "exit", !.status = s, !.child = 0]
  <2>1. r.pc = "waitchild" /\ IsZombie(r.child) /\ \E s : Reaps(Sh, r.child, n(s))
    BY <1>0, <1>7 DEF WaitChild
  <2>2. r.child # Sh
    BY <2>1 DEF IsZombie
  <2>3. \A s : n(s).rightpipe = 0 /\ n(s).pc = "exit"
    BY <1>0 DEF IsImage
  <2> HIDE DEF n
  <2>4. proc'[Sh].rightpipe = 0 /\ proc'[Sh].pc = "exit"
    BY <2>1, <2>2, <2>3, ShellReaps
  <2> QED BY <2>4, LostStays DEF Quiet, MainPcs
<1>8. CASE RunExits(Sh) \/ ProgramEnds(Sh)
  <2>1. \E status : Exit(Sh, status, open)
    BY <1>8, Zenon DEF RunExits, ProgramEnds, Exits
  <2> QED BY <2>1, ShellExits
<1>9. CASE ProgramWrites(Sh) \/ ProgramReads(Sh)
  <2>1. r.pc = "program" /\ (Exit(Sh, 1, open) \/ \E t : Become(Sh, [r EXCEPT !.text = t]))
    BY <1>9, Zenon DEF ProgramWrites, ProgramReads
  <2>2. ASSUME NEW t, Become(Sh, [r EXCEPT !.text = t])
        PROVE  proc'[Sh].rightpipe = 0 /\ proc'[Sh].pc = r.pc
    BY <1>0, <2>2 DEF Become, IsImage
  <2> QED BY <2>1, <2>2, ShellExits, LostStays DEF Quiet, MainPcs
<1>10. CASE ParseTooMany(Sh)
  <2>1. r.pc = "parse" /\ Return(Sh, r, -1, fd[Sh], open)
    BY <1>10, Zenon DEF ParseTooMany
  <2> QED BY <2>1, ShellReturns DEF Quiet
<1> QED BY <1>1, <1>2, <1>3, <1>4, <1>5, <1>6, <1>7, <1>8, <1>9, <1>10 DEF Runcmd, Program

(* A process that has written past an array waits for those it waited for, *)
(* and the shell does not come back to its prompt.                         *)
LEMMA OverrunStops ==
  ASSUME NEW p \in Procs, ImagesOk, FdsOk, Overrun(p)
  PROVE  /\ Kin(p) /\ FdsOk' /\ Apart(p)
         /\ (p = Sh /\ ShellOk(proc[Sh], fd[Sh]) => ShellOk(proc'[Sh], fd'[Sh]))
<1> DEFINE r == proc[p]
           n == [r EXCEPT !.pc = "overrun"]
<1>1. r.pc \in {"parse", "backtick", "run"} /\ Become(p, n) /\ UNCHANGED <<fd, open>>
  BY Zenon DEF Overrun, Overruns, Local
<1>2. ImageOk(r)
  BY DEF ImagesOk
<1>3. IsImage(n) /\ n.pc = "overrun" /\ n.child = r.child /\ n.rightpipe = r.rightpipe
  BY <1>2 DEF ImageOk, IsImage
<1>4. r.child = 0 /\ (r.pc # "run" => r.rightpipe = 0)
  BY <1>1, <1>2 DEF ImageOk, WaitsRight
<1>5. proc'[p] = n
  BY <1>1 DEF Become, ImagesOk
<1> HIDE DEF n
<1>6. ImageOk(n) /\ Waited(n) = Waited(r)
  BY <1>1, <1>2, <1>3, <1>4 DEF ImageOk, RunPcs, Waited, WaitsRight
<1>7. Kin(p)
  BY <1>1, <1>3, <1>6, KinOfEdit
<1>8. FdsOk' /\ Apart(p)
  BY <1>1, SameFds
<1>9. ASSUME p = Sh, ShellOk(proc[Sh], fd[Sh]) PROVE ShellOk(proc'[Sh], fd'[Sh])
  <2>1. n.rightpipe = 0
    BY <1>3, <1>9 DEF ShellOk
  <2> QED BY <1>3, <1>5, <1>9, <2>1, LostStays DEF Quiet, MainPcs
<1> QED BY <1>7, <1>8, <1>9

-----------------------------------------------------------------------------
(* The invariants.                                                         *)

LEMMA SafeInit == Init => SafeInv
<1> SUFFICES ASSUME Init PROVE SafeInv
  OBVIOUS
<1> DEFINE s == [NoImage EXCEPT !.pc = "prompt"]
<1>1. IsImage(s) /\ s.pc = "prompt" /\ s.child = 0 /\ s.rightpipe = 0
  BY DEF NoImage, IsImage
<1>2. DOMAIN proc = Procs /\ \A p \in Procs : proc[p] = s \/ proc[p] = NoImage
  BY DEF Init
<1>3. proc[Sh] = s
  BY ShIs DEF Init
<1> HIDE DEF s
<1>4. ImageOk(s) /\ Waited(s) = {}
  BY <1>1 DEF ImageOk, MainPcs, Waited, WaitsRight
<1>5. ImagesOk /\ WaitedOk
  BY <1>1, <1>2, <1>3, <1>4, NoImageIs DEF ImagesOk, WaitedOk
<1>6. OpensOk(open)
  BY NotOpenIs DEF Init, OpensOk
<1>7. TableOk(fd, open)
  BY DEF Init, TableOk, StdFds, AllClosed, Console, Closed, Opens
<1> QED BY <1>5, <1>6, <1>7 DEF SafeInv, FdsOk

LEMMA SafeNext == SafeInv /\ [Next]_vars => SafeInv'
<1> SUFFICES ASSUME SafeInv, [Next]_vars PROVE SafeInv'
  OBVIOUS
<1> USE DEF SafeInv
<1>1. ASSUME NEW p \in Procs, ReadLine(p) \/ Main(p)
      PROVE  SafeInv'
  BY <1>1, MainKin, MainFds, KinKeeps DEF WaitedOk
<1>2. ASSUME NEW p \in Procs, Runcmd(p) \/ Program(p)
      PROVE  SafeInv'
  BY <1>2, RunKin, RunFds, KinKeeps DEF WaitedOk
<1>3. ASSUME NEW p \in Procs, Overrun(p)
      PROVE  SafeInv'
  BY <1>3, OverrunStops, KinKeeps
<1>4. CASE UNCHANGED vars
  BY <1>4 DEF vars, ImagesOk, WaitedOk, FdsOk, OpensOk, TableOk, EndOk
<1> QED BY <1>1, <1>2, <1>3, <1>4 DEF Next, ProcStep

THEOREM ShellInvariant == Spec => []SafeInv
<1> QED BY SafeInit, SafeNext, PTL DEF Spec

(* Descriptors are open, a pipe has two ends that know each other and      *)
(* holds at most PIPE_SIZE, and whoever is waited for is there.            *)
THEOREM ShellTypes == Spec => []TypeOK
<1>1. SafeInv => TypeOK
  <2> SUFFICES ASSUME SafeInv PROVE TypeOK
    OBVIOUS
  <2>1. \A p \in Procs, n \in 0 .. MAXFD - 1 :
          fd[p][n] \in Opens => open[fd[p][n]].dev \in {"file", "pipe"}
    BY DEF SafeInv, FdsOk, TableOk
  <2>2. \A o \in Opens : open[o].dev = "pipe" =>
          open[open[o].peer].peer = o /\ Len(open[o].data) <= PIPE_SIZE
    BY DEF SafeInv, FdsOk, OpensOk, EndOk
  <2>3. \A p \in Procs : /\ proc[p].child # 0 => proc[proc[p].child].pc # "free"
                         /\ proc[p].pc \in {"run", "failed", "waitright"} /\ proc[p].rightpipe # 0
                              => proc[proc[p].rightpipe].pc # "free"
    <3>1. \A p \in Procs : /\ proc[p].child # 0 => proc[p].child \in Waited(proc[p])
                           /\ proc[p].pc \in {"run", "failed", "waitright"} /\ proc[p].rightpipe # 0
                                => proc[p].rightpipe \in Waited(proc[p])
      BY DEF Waited, WaitsRight
    <3> QED BY <3>1 DEF SafeInv, WaitedOk
  <2> QED BY <2>1, <2>2, <2>3 DEF TypeOK
<1> QED BY <1>1, ShellInvariant, PTL

LEMMA LeftInit == Init => LeftInv
<1> SUFFICES ASSUME Init PROVE LeftInv
  OBVIOUS
<1> DEFINE s == [NoImage EXCEPT !.pc = "prompt"]
           rank == [p \in Procs |-> 0]
<1>1. s.pc = "prompt" /\ s.child = 0 /\ s.rightpipe = 0
  BY DEF NoImage
<1>2. \A p \in Procs : proc[p] = s \/ proc[p] = NoImage
  BY DEF Init
<1>3. proc[Sh] = s /\ fd[Sh] = StdFds /\ \A p \in Procs \ {Sh} : proc[p] = NoImage
  BY ShIs DEF Init
<1> HIDE DEF s
<1>4. Waited(s) = {}
  BY <1>1 DEF Waited, WaitsRight
<1>5. Adopted
  BY <1>3, NoImageIs DEF Adopted
<1>6. rank \in [Procs -> Nat] /\ Ranked(rank)
  BY <1>2, <1>4, NoImageIs DEF Ranked
<1>7. ShellOk(proc[Sh], fd[Sh])
  BY <1>1, <1>3 DEF ShellOk
<1> QED BY <1>5, <1>6, <1>7 DEF LeftInv, Rooted

LEMMA LeftNext == SafeInv /\ LeftInv /\ BuiltinsAlone /\ [Next]_vars => LeftInv'
<1> SUFFICES ASSUME SafeInv, LeftInv, BuiltinsAlone, [Next]_vars PROVE LeftInv'
  OBVIOUS
<1>0. \A p \in Procs : Alone(p)
  BY DEF BuiltinsAlone, Alone
<1>1. ASSUME NEW p \in Procs, ReadLine(p) \/ ProcStep(p)
      PROVE  LeftInv'
  <2>1. ImagesOk /\ WaitedOk /\ FdsOk /\ proc[Sh].pc # "free"
    BY DEF SafeInv, WaitedOk
  <2>2. Kin(p) /\ Apart(p)
    BY <1>1, <2>1, MainKin, RunKin, MainFds, RunFds, OverrunStops DEF ProcStep
  <2>3. Rooted' /\ (p # Sh => proc'[Sh] = proc[Sh])
    BY <1>0, <2>1, <2>2, KinKeeps DEF LeftInv
  <2>4. ShellOk(proc'[Sh], fd'[Sh])
    <3>1. CASE p = Sh
      BY <1>1, <2>1, <3>1, ShellMain, ShellRuns, OverrunStops DEF LeftInv, ProcStep
    <3>2. CASE p # Sh
      BY <2>2, <2>3, <3>2 DEF Apart, LeftInv
    <3> QED BY <3>1, <3>2
  <2>5. ShellOk(proc[Sh], fd[Sh])'
    BY <2>4, Zenon DEF ShellOk
  <2> QED BY <2>3, <2>5 DEF LeftInv
<1>2. CASE UNCHANGED vars
  BY <1>2 DEF vars, LeftInv, Rooted, Adopted, Ranked, ShellOk
<1> QED BY <1>1, <1>2 DEF Next

(* A process that is left, and is left by one of least rank: the one that  *)
(* waits for it is the shell, which waits for nobody at its prompt.        *)
LEMMA NobodyLeft ==
  ASSUME SafeInv, Rooted, Waited(proc[Sh]) = {}
  PROVE  \A p \in Procs \ {Sh} : proc[p].pc = "free"
<1> DEFINE there == {p \in Procs \ {Sh} : proc[p].pc # "free"}
<1> SUFFICES ASSUME there # {} PROVE FALSE
  OBVIOUS
<1>1. PICK rank \in [Procs -> Nat] : Ranked(rank)
  BY DEF Rooted
<1> DEFINE R == {rank[p] : p \in there}
<1>2. R \in SUBSET Nat /\ R # {}
  OBVIOUS
<1>3. PICK c \in there : rank[c] = Min(R)
  <2> HIDE DEF there
  <2> QED BY <1>2, Least
<1>4. \A p \in there : Min(R) <= rank[p]
  <2>1. \A y \in R : Min(R) <= y
    BY <1>2, Least
  <2> QED BY <2>1
<1>5. PICK p \in Procs : c \in Waited(proc[p])
  BY <1>3 DEF Rooted, Adopted
<1>6. p # Sh /\ proc[p].pc # "free"
  BY <1>5, GoneWaits DEF SafeInv, ImagesOk
<1>7. rank[p] < rank[c]
  BY <1>1, <1>5 DEF Ranked
<1>8. rank[c] <= rank[p] /\ rank[p] \in Nat /\ rank[c] \in Nat
  BY <1>1, <1>3, <1>4, <1>5, <1>6
<1> QED BY <1>7, <1>8

(* When the shell asks for the next line, no process of the line before is *)
(* left, zombies included, and nothing is open but the console.            *)
THEOREM PromptIsClean == Spec /\ []BuiltinsAlone => []CleanPrompt
<1>1. SafeInv /\ LeftInv => CleanPrompt
  <2> SUFFICES ASSUME SafeInv, LeftInv, AtPrompt PROVE CleanPrompt
    BY DEF CleanPrompt
  <2>1. Waited(proc[Sh]) = {}
    BY ShIs, Idle DEF SafeInv, AtPrompt, WaitsRight
  <2>2. \A p \in Procs \ {Sh} : proc[p].pc = "free"
    BY <2>1, NobodyLeft DEF LeftInv
  <2>3. fd[Sh] = StdFds
    BY DEF LeftInv, ShellOk, AtPrompt, MainPcs
  <2> QED BY <2>2, <2>3 DEF CleanPrompt
<1>2. Spec /\ []BuiltinsAlone => []LeftInv
  BY LeftInit, LeftNext, ShellInvariant, PTL DEF Spec
<1> QED BY <1>1, <1>2, ShellInvariant, PTL
=============================================================================
