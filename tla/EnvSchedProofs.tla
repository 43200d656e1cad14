--------------------------- MODULE EnvSchedProofs ---------------------------
EXTENDS EnvSched, FiniteSetTheorems, SequenceTheorems, TLAPS

(* A chain of distinct slots is no longer than the array envs.             *)
LEMMA ChainBound ==
  ASSUME NEW q, NEW n \in Nat, NEW s, Chain(q, s, n)
  PROVE  n \in 0 .. NENV
<1>1. IsFiniteSet(Env) /\ Cardinality(Env) = NENV
  <2>1. NENV \in Nat \ {0}
    BY EnvAssumption
  <2>2. IsFiniteSet(0 .. NENV - 1) /\ Cardinality(0 .. NENV - 1) = (NENV - 1) - 0 + 1
    BY <2>1, FS_Interval
  <2> QED BY <2>1, <2>2 DEF Env
<1>2. IsFiniteSet(1 .. n) /\ Cardinality(1 .. n) = n
  BY FS_Interval
<1>3. s \in [1 .. n -> Env] /\ \A i, j \in 1 .. n : s[i] = s[j] => i = j
  BY DEF Chain
<1>4. s \in Injection(1 .. n, Env)
  BY <1>3 DEF Injection, IsInjective
<1>5. Cardinality(1 .. n) <= Cardinality(Env)
  BY <1>1, <1>2, <1>4, FS_Injection DEF ExistsInjection
<1> QED BY <1>1, <1>2, <1>5

(* TAILQ_INSERT_TAIL writes only slots, HEAD and NULL into the links.      *)
LEMMA InsertTailType ==
  ASSUME NEW q \in TailqType, NEW e \in Env
  PROVE  TAILQ_INSERT_TAIL(q, e) \in TailqType
BY PtrAssumption DEF TAILQ_INSERT_TAIL, TailqType, Addr

(* What TAILQ_REMOVE writes when the element's back link is HEAD.          *)
LEMMA RemoveType ==
  ASSUME NEW q \in TailqType, NEW e \in Env, q.prev[e] = HEAD
  PROVE  /\ TAILQ_REMOVE(q, e) \in TailqType
         /\ TAILQ_REMOVE(q, e).first = q.next[e]
         /\ TAILQ_REMOVE(q, e).last = IF q.next[e] = NULL THEN HEAD ELSE q.last
         /\ TAILQ_REMOVE(q, e).next = q.next
         /\ \A x \in Env : TAILQ_REMOVE(q, e).prev[x]
                             = IF x = q.next[e] THEN HEAD ELSE q.prev[x]
BY PtrAssumption DEF TAILQ_REMOVE, TailqType, Addr

(* TAILQ_INSERT_TAIL appends to a chain of any length but zero.            *)
LEMMA InsertTailChain ==
  ASSUME NEW q \in TailqType, NEW e \in Env, NEW n \in Nat \ {0}, NEW s,
         Chain(q, s, n), \A i \in 1 .. n : s[i] # e
  PROVE  Chain(TAILQ_INSERT_TAIL(q, e), [i \in 1 .. n + 1 |-> IF i = n + 1 THEN e ELSE s[i]], n + 1)
<1> DEFINE t == [i \in 1 .. n + 1 |-> IF i = n + 1 THEN e ELSE s[i]]
           r == TAILQ_INSERT_TAIL(q, e)
<1>1. t \in [1 .. n + 1 -> Env]
  BY DEF Chain
<1>2. \A i, j \in 1 .. n + 1 : t[i] = t[j] => i = j
  BY DEF Chain
<1>3. r.last = e /\ r.next = [x \in Env |-> IF x = s[n] THEN e
                                 ELSE IF x = e THEN NULL ELSE q.next[x]]
  BY DEF Chain, TAILQ_INSERT_TAIL
<1>4. \A i \in 1 .. (n + 1) - 1 : r.next[t[i]] = t[i + 1]
  BY <1>3 DEF Chain
<1>5. r.next[t[n + 1]] = NULL /\ r.last = t[n + 1]
  BY <1>3 DEF Chain
<1> QED BY <1>1, <1>2, <1>4, <1>5 DEF Chain

(* schedule(0) or schedule(1) called with curenv RUNNABLE.                 *)
LEMMA RotateQueue ==
  ASSUME NEW q \in TailqType, NEW st \in [Env -> Status], curenv \in Env,
         QueueInv(q, st, curenv)
  PROVE  /\ Rotate(q, st) \in TailqType
         /\ Rotate(q, st).first \in Env
         /\ st[Rotate(q, st).first] = "RUNNABLE"
         /\ QueueInv(Rotate(q, st), st, Rotate(q, st).first)
<1>0. PICK n \in 1 .. NENV : \E s \in [1 .. n -> Env] :
         s[1] = curenv /\ IsRunQueue(q, st, s, n)
  BY DEF QueueInv, RunQueueFrom
<1>1. PICK s \in [1 .. n -> Env] : s[1] = curenv /\ IsRunQueue(q, st, s, n)
  BY <1>0
<1> DEFINE m == TAILQ_REMOVE(q, curenv)
           r == TAILQ_INSERT_TAIL(m, curenv)
<1>2. n \in Nat \ {0} /\ Chain(q, s, n) /\ NENV \in Nat
  BY <1>1, EnvAssumption DEF IsRunQueue
<1>3. st[curenv] = "RUNNABLE"
  BY <1>1, <1>2 DEF IsRunQueue
<1>4. Rotate(q, st) = r
  BY <1>3, PtrAssumption DEF Rotate
<1>5. /\ m \in TailqType /\ m.first = q.next[curenv]
      /\ m.last = IF q.next[curenv] = NULL THEN HEAD ELSE q.last
      /\ m.next = q.next
      /\ \A x \in Env : m.prev[x] = IF x = q.next[curenv] THEN HEAD ELSE q.prev[x]
  BY RemoveType DEF QueueInv
<1>6. r \in TailqType
  BY <1>5, InsertTailType
<1>7. \A e \in Env : st[e] = "ZOMBIE" => r.prev[e] = HEAD /\ r.next[e] \in Env
  <2> SUFFICES ASSUME NEW e \in Env, st[e] = "ZOMBIE"
               PROVE  r.prev[e] = HEAD /\ r.next[e] \in Env
    OBVIOUS
  <2>1. e # curenv /\ e # s[n]
    BY <1>1, <1>2, <1>3 DEF IsRunQueue
  <2>2. q.prev[e] = HEAD /\ q.next[e] \in Env
    BY DEF QueueInv
  <2>3. m.last \in {HEAD, s[n]} /\ e # m.last
    BY <1>2, <1>5, <2>1, PtrAssumption DEF Chain
  <2>4. r.prev[e] = m.prev[e] /\ r.next[e] = m.next[e]
    BY <2>1, <2>3 DEF TAILQ_INSERT_TAIL
  <2> QED BY <2>2, <2>4, <1>5
<1>8. CASE n = 1
  <2>1. q.next[curenv] = NULL
    BY <1>1, <1>2, <1>8 DEF Chain
  <2>2. m.last = HEAD
    BY <2>1, <1>5
  <2>3. r.first = curenv /\ r.prev[curenv] = HEAD /\ r.last = curenv /\ r.next[curenv] = NULL
    BY <2>2, PtrAssumption DEF TAILQ_INSERT_TAIL
  <2>4. Chain(r, s, n)
    BY <2>3, <1>1, <1>2, <1>8 DEF Chain
  <2>5. IsRunQueue(r, st, s, n)
    BY <2>4, <1>1 DEF IsRunQueue
  <2> QED BY <2>3, <2>5, <1>1, <1>3, <1>4, <1>6, <1>7 DEF QueueInv, RunQueueFrom
<1>9. CASE n > 1
  <2> DEFINE t == [i \in 1 .. n |-> IF i = n THEN curenv ELSE s[i + 1]]
  <2>1. q.next[curenv] = s[2] /\ s[2] \in Env /\ s[2] # curenv
    BY <1>1, <1>2, <1>9 DEF Chain
  <2>2. m.last = s[n] /\ s[n] # curenv /\ s[n] \in Env
    BY <2>1, <1>1, <1>2, <1>5, <1>9, PtrAssumption DEF Chain
  <2>3. /\ r.first = s[2] /\ r.last = curenv
        /\ r.next = [x \in Env |-> IF x = s[n] THEN curenv
                                   ELSE IF x = curenv THEN NULL ELSE q.next[x]]
        /\ r.prev[s[2]] = HEAD
    BY <2>1, <2>2, <1>5, PtrAssumption DEF TAILQ_INSERT_TAIL
  <2>4. t \in [1 .. n -> Env] /\ t[1] = s[2] /\ t[n] = curenv
    BY <1>2, <1>9
  <2>5. \A i, j \in 1 .. n : t[i] = t[j] => i = j
    BY <1>1, <1>2 DEF Chain
  <2>6. \A i \in 1 .. n - 1 : r.next[t[i]] = t[i + 1]
    <3> SUFFICES ASSUME NEW i \in 1 .. n - 1 PROVE r.next[t[i]] = t[i + 1]
      OBVIOUS
    <3>1. t[i] = s[i + 1] /\ s[i + 1] # curenv /\ s[i + 1] \in Env
      BY <1>1, <1>2 DEF Chain
    <3>2. CASE i = n - 1
      BY <3>1, <3>2, <2>3, <2>4
    <3>3. CASE i # n - 1
      <4>1. s[i + 1] # s[n] /\ q.next[s[i + 1]] = s[i + 2] /\ t[i + 1] = s[i + 2]
        BY <3>3, <1>2 DEF Chain
      <4> QED BY <4>1, <3>1, <2>3
    <3> QED BY <3>2, <3>3
  <2>7. Chain(r, t, n)
    BY <2>2, <2>3, <2>4, <2>5, <2>6 DEF Chain
  <2>8. \A e \in Env : st[e] = "RUNNABLE" <=> \E i \in 1 .. n : t[i] = e
    <3>1. ASSUME NEW e \in Env PROVE (\E i \in 1 .. n : t[i] = e) <=> (\E i \in 1 .. n : s[i] = e)
      <4>1. ASSUME NEW i \in 1 .. n, t[i] = e PROVE \E j \in 1 .. n : s[j] = e
        <5>1. CASE i = n BY <5>1, <4>1, <2>4, <1>1, <1>2
        <5>2. CASE i # n
          <6>1. s[i + 1] = e /\ i + 1 \in 1 .. n BY <5>2, <4>1
          <6> QED BY <6>1
        <5> QED BY <5>1, <5>2
      <4>2. ASSUME NEW i \in 1 .. n, s[i] = e PROVE \E j \in 1 .. n : t[j] = e
        <5>1. CASE i = 1 BY <5>1, <4>2, <2>4, <1>1, <1>2
        <5>2. CASE i # 1
          <6>1. t[i - 1] = e /\ i - 1 \in 1 .. n BY <5>2, <4>2
          <6> QED BY <6>1
        <5> QED BY <5>1, <5>2
      <4> QED BY <4>1, <4>2
    <3> QED BY <3>1, <1>1 DEF IsRunQueue
  <2>9. IsRunQueue(r, st, t, n) /\ st[s[2]] = "RUNNABLE"
    <3>1. IsRunQueue(r, st, t, n)
      <4> HIDE DEF t, r
      <4> QED BY <2>7, <2>8 DEF IsRunQueue
    <3>2. 2 \in 1 .. n
      BY <1>9
    <3> QED BY <3>1, <3>2, <2>1, <1>1 DEF IsRunQueue
  <2>10. RunQueueFrom(r, st, r.first)
    BY <2>9, <2>3, <2>4 DEF RunQueueFrom
  <2> QED BY <2>1, <2>3, <2>9, <2>10, <1>4, <1>6, <1>7 DEF QueueInv
<1> QED BY <1>2, <1>8, <1>9

(* The running env blocks or exits: it leaves the queue, and the next one, *)
(* if there is one, is at its head.                                        *)
LEMMA BlockQueue ==
  ASSUME NEW q \in TailqType, NEW st \in [Env -> Status], NEW p \in Env,
         QueueInv(q, st, p), NEW new \in {"NOT_RUNNABLE", "ZOMBIE"}
  PROVE  /\ TAILQ_REMOVE(q, p) \in TailqType
         /\ TAILQ_REMOVE(q, p).first # NULL =>
              /\ TAILQ_REMOVE(q, p).first \in Env
              /\ st[TAILQ_REMOVE(q, p).first] = "RUNNABLE"
              /\ TAILQ_REMOVE(q, p).first # p
              /\ QueueInv(TAILQ_REMOVE(q, p), [st EXCEPT ![p] = new], TAILQ_REMOVE(q, p).first)
<1>0. PICK n \in 1 .. NENV : \E s \in [1 .. n -> Env] : s[1] = p /\ IsRunQueue(q, st, s, n)
  BY DEF QueueInv, RunQueueFrom
<1>1. PICK s \in [1 .. n -> Env] : s[1] = p /\ IsRunQueue(q, st, s, n)
  BY <1>0
<1> DEFINE m == TAILQ_REMOVE(q, p)
           st2 == [st EXCEPT ![p] = new]
<1>2. n \in Nat \ {0} /\ Chain(q, s, n) /\ NENV \in Nat
  BY <1>1, EnvAssumption DEF IsRunQueue
<1>3. /\ m \in TailqType /\ m.first = q.next[p]
      /\ m.last = IF q.next[p] = NULL THEN HEAD ELSE q.last
      /\ m.next = q.next
      /\ \A x \in Env : m.prev[x] = IF x = q.next[p] THEN HEAD ELSE q.prev[x]
  BY RemoveType DEF QueueInv
<1> HIDE DEF m
<1>4. SUFFICES ASSUME m.first # NULL
               PROVE  /\ m.first \in Env /\ st[m.first] = "RUNNABLE" /\ m.first # p
                      /\ QueueInv(m, st2, m.first)
  BY <1>3 DEF m
<1>5. n > 1
  BY <1>1, <1>2, <1>3, <1>4 DEF Chain
<1> DEFINE t == [i \in 1 .. n - 1 |-> s[i + 1]]
<1>6. /\ m.first = s[2] /\ s[2] \in Env /\ s[2] # p /\ m.last = s[n]
      /\ 2 \in 1 .. n
  BY <1>1, <1>2, <1>3, <1>4, <1>5 DEF Chain
<1>7. st[s[2]] = "RUNNABLE" /\ st[p] = "RUNNABLE"
  BY <1>1, <1>2, <1>6 DEF IsRunQueue
<1>8. t \in [1 .. n - 1 -> Env] /\ t[1] = s[2] /\ t[n - 1] = s[n]
  BY <1>2, <1>5
<1>9. Chain(m, t, n - 1)
  BY <1>2, <1>3, <1>5, <1>6, <1>8 DEF Chain
<1>10. \A e \in Env : st2[e] = "RUNNABLE" <=> \E i \in 1 .. n - 1 : t[i] = e
  <2> SUFFICES ASSUME NEW e \in Env
               PROVE  st2[e] = "RUNNABLE" <=> \E i \in 1 .. n - 1 : t[i] = e
    OBVIOUS
  <2>1. ASSUME NEW i \in 1 .. n - 1, t[i] = e PROVE st2[e] = "RUNNABLE"
    <3>1. s[i + 1] = e /\ i + 1 \in 1 .. n /\ e # p
      BY <2>1, <1>1, <1>2 DEF Chain
    <3> QED BY <3>1, <1>1 DEF IsRunQueue
  <2>2. ASSUME st2[e] = "RUNNABLE" PROVE \E i \in 1 .. n - 1 : t[i] = e
    <3>1. e # p /\ st[e] = "RUNNABLE"
      BY <2>2
    <3>2. PICK j \in 1 .. n : s[j] = e
      BY <3>1, <1>1 DEF IsRunQueue
    <3>3. j - 1 \in 1 .. n - 1 /\ t[j - 1] = e
      BY <3>1, <3>2, <1>1, <1>2
    <3> QED BY <3>3
  <2> QED BY <2>1, <2>2
<1>11. RunQueueFrom(m, st2, m.first)
  <2> HIDE DEF t, st2
  <2>1. IsRunQueue(m, st2, t, n - 1) /\ n - 1 \in 1 .. NENV
    BY <1>2, <1>5, <1>9, <1>10 DEF IsRunQueue
  <2> QED BY <2>1, <1>6, <1>8 DEF RunQueueFrom
<1>12. m.prev[m.first] = HEAD
  BY <1>3, <1>6
<1>13. \A e \in Env : st2[e] = "ZOMBIE" => m.prev[e] = HEAD /\ m.next[e] \in Env
  BY <1>3, <1>4, <1>6 DEF QueueInv
<1> QED BY <1>6, <1>7, <1>11, <1>12, <1>13 DEF QueueInv

(* An env that is not in the queue is made RUNNABLE: fork's child or the   *)
(* receiver of a message.                                                  *)
LEMMA WakeQueue ==
  ASSUME NEW q \in TailqType, NEW st \in [Env -> Status], NEW p \in Env,
         QueueInv(q, st, p), NEW e \in Env, st[e] = "NOT_RUNNABLE"
  PROVE  /\ TAILQ_INSERT_TAIL(q, e) \in TailqType
         /\ QueueInv(TAILQ_INSERT_TAIL(q, e), [st EXCEPT ![e] = "RUNNABLE"], p)
<1>0. PICK n \in 1 .. NENV : \E s \in [1 .. n -> Env] : s[1] = p /\ IsRunQueue(q, st, s, n)
  BY DEF QueueInv, RunQueueFrom
<1>1. PICK s \in [1 .. n -> Env] : s[1] = p /\ IsRunQueue(q, st, s, n)
  BY <1>0
<1> DEFINE r == TAILQ_INSERT_TAIL(q, e)
           st2 == [st EXCEPT ![e] = "RUNNABLE"]
           t == [i \in 1 .. n + 1 |-> IF i = n + 1 THEN e ELSE s[i]]
<1>2. n \in Nat \ {0} /\ Chain(q, s, n) /\ NENV \in Nat
  BY <1>1, EnvAssumption DEF IsRunQueue
<1>3. r \in TailqType
  BY InsertTailType
<1>4. \A i \in 1 .. n : s[i] # e
  BY <1>1 DEF IsRunQueue
<1>5. Chain(r, t, n + 1)
  BY <1>2, <1>4, InsertTailChain
<1>6. n + 1 \in 1 .. NENV
  <2>1. n + 1 \in 0 .. NENV
    <3> HIDE DEF r, t
    <3> QED BY <1>2, <1>5, ChainBound
  <2> QED BY <1>2, <2>1
<1>7. \A x \in Env : st2[x] = "RUNNABLE" <=> \E i \in 1 .. n + 1 : t[i] = x
  <2> SUFFICES ASSUME NEW x \in Env
               PROVE  st2[x] = "RUNNABLE" <=> \E i \in 1 .. n + 1 : t[i] = x
    OBVIOUS
  <2>1. CASE x = e
    <3>1. t[n + 1] = x /\ n + 1 \in 1 .. n + 1
      BY <2>1, <1>2
    <3> QED BY <3>1, <2>1
  <2>2. CASE x # e
    <3>1. (\E i \in 1 .. n + 1 : t[i] = x) <=> (\E i \in 1 .. n : s[i] = x)
      BY <2>2, <1>2
    <3> QED BY <3>1, <2>2, <1>1 DEF IsRunQueue
  <2> QED BY <2>1, <2>2
<1>8. t \in [1 .. n + 1 -> Env] /\ t[1] = p
  BY <1>1, <1>2
<1>9. RunQueueFrom(r, st2, p)
  <2> HIDE DEF r, t, st2
  <2> QED BY <1>5, <1>6, <1>7, <1>8 DEF RunQueueFrom, IsRunQueue
<1>10. p # e /\ q.last \in Env /\ st[q.last] = "RUNNABLE"
  BY <1>1, <1>2, <1>4 DEF Chain, IsRunQueue
<1>11. r.prev[p] = HEAD
  BY <1>10 DEF QueueInv, TAILQ_INSERT_TAIL
<1>12. \A x \in Env : st2[x] = "ZOMBIE" => r.prev[x] = HEAD /\ r.next[x] \in Env
  BY <1>10 DEF QueueInv, TAILQ_INSERT_TAIL
<1> QED BY <1>3, <1>9, <1>11, <1>12 DEF QueueInv

(* A zombie is reaped: TAILQ_REMOVE runs on links it no longer has.        *)
LEMMA ReapQueue ==
  ASSUME NEW q \in TailqType, NEW st \in [Env -> Status], NEW p \in Env,
         QueueInv(q, st, p), NEW z \in Env, st[z] = "ZOMBIE"
  PROVE  /\ TAILQ_REMOVE(q, z) \in TailqType
         /\ QueueInv(TAILQ_REMOVE(q, z), [st EXCEPT ![z] = "FREE"], p)
<1>0. PICK n \in 1 .. NENV : \E s \in [1 .. n -> Env] : s[1] = p /\ IsRunQueue(q, st, s, n)
  BY DEF QueueInv, RunQueueFrom
<1>1. PICK s \in [1 .. n -> Env] : s[1] = p /\ IsRunQueue(q, st, s, n)
  BY <1>0
<1> DEFINE m == TAILQ_REMOVE(q, z)
           st2 == [st EXCEPT ![z] = "FREE"]
<1>2. q.prev[z] = HEAD /\ q.next[z] \in Env /\ q.next[z] # NULL
  BY PtrAssumption DEF QueueInv
<1>3. /\ m \in TailqType /\ m.last = q.last /\ m.next = q.next
      /\ \A x \in Env : m.prev[x] = IF x = q.next[z] THEN HEAD ELSE q.prev[x]
  BY <1>2, RemoveType
<1> HIDE DEF m
<1>4. Chain(m, s, n)
  BY <1>1, <1>3 DEF Chain, IsRunQueue
<1>5. \A e \in Env : st2[e] = "RUNNABLE" <=> st[e] = "RUNNABLE"
  OBVIOUS
<1>6. RunQueueFrom(m, st2, p)
  <2> HIDE DEF st2
  <2> QED BY <1>1, <1>4, <1>5 DEF RunQueueFrom, IsRunQueue
<1>7. m.prev[p] = HEAD
  BY <1>3 DEF QueueInv
<1>8. \A e \in Env : st2[e] = "ZOMBIE" => m.prev[e] = HEAD /\ m.next[e] \in Env
  BY <1>3 DEF QueueInv
<1> QED BY <1>3, <1>6, <1>7, <1>8 DEF QueueInv, m

(* schedule as the tail of a handler that leaves curenv RUNNABLE, or as    *)
(* the first call, with curenv NULL.                                       *)
LEMMA ScheduleQueue ==
  ASSUME NEW q \in TailqType, NEW st \in [Env -> Status], NEW yield \in BOOLEAN,
         curenv \in Env \cup {NULL}, count \in Nat, panic = "none",
         \A e \in Env : st[e] = "RUNNABLE" => env_pri[e] \in Nat \ {0},
         IF curenv = NULL THEN BootInv(q, st) ELSE QueueInv(q, st, curenv),
         Schedule(yield, q, st)
  PROVE  /\ env_sched_list' \in TailqType /\ count' \in Nat
         /\ curenv' \in Env \cup {NULL}
         /\ panic' \in {"none", "schedule: no runnable envs"}
         /\ panic' = "none" => curenv' \in Env /\ QueueInv(env_sched_list', st, curenv')
<1>1. CASE curenv = NULL
  <2>1. Switches(yield, st) /\ Rotate(q, st) = q
    BY <1>1 DEF Switches, Rotate
  <2>2. env_sched_list' = q /\
        IF q.first = NULL
        THEN panic' = "schedule: no runnable envs" /\ UNCHANGED <<curenv, count>>
        ELSE EnvRun(q.first, st) /\ count' = env_pri[q.first] - 1
    BY <2>1 DEF Schedule
  <2>3. CASE q.first = NULL
    BY <2>2, <2>3
  <2>4. CASE q.first # NULL
    <3>1. q.first \in Env /\ QueueInv(q, st, q.first)
      BY <2>4, <1>1 DEF BootInv, TailqType
    <3>2. st[q.first] = "RUNNABLE"
      BY <3>1 DEF QueueInv, RunQueueFrom, IsRunQueue
    <3> QED BY <2>2, <2>4, <3>1, <3>2 DEF EnvRun
  <2> QED BY <2>3, <2>4
<1>2. CASE curenv # NULL
  <2>1. curenv \in Env /\ QueueInv(q, st, curenv)
    BY <1>2
  <2>2. st[curenv] = "RUNNABLE"
    BY <2>1 DEF QueueInv, RunQueueFrom, IsRunQueue
  <2>3. CASE Switches(yield, st)
    <3>1. /\ Rotate(q, st) \in TailqType /\ Rotate(q, st).first \in Env
          /\ st[Rotate(q, st).first] = "RUNNABLE"
          /\ QueueInv(Rotate(q, st), st, Rotate(q, st).first)
      BY <2>1, RotateQueue
    <3>2. env_sched_list' = Rotate(q, st) /\ EnvRun(Rotate(q, st).first, st)
          /\ count' = env_pri[Rotate(q, st).first] - 1
      BY <2>3, <3>1, PtrAssumption DEF Schedule
    <3> QED BY <3>1, <3>2 DEF EnvRun
  <2>4. CASE ~Switches(yield, st)
    <3>1. count # 0
      BY <2>4 DEF Switches
    <3>2. env_sched_list' = q /\ EnvRun(curenv, st) /\ count' = count - 1
      BY <2>4 DEF Schedule
    <3> QED BY <2>1, <2>2, <3>1, <3>2 DEF EnvRun
  <2> QED BY <2>3, <2>4
<1> QED BY <1>1, <1>2

(* schedule(1) after the running env has blocked or exited.                *)
LEMMA ScheduleBlocked ==
  ASSUME NEW q \in TailqType, NEW st \in [Env -> Status], NEW p \in Env,
         NEW new \in {"NOT_RUNNABLE", "ZOMBIE"},
         curenv = p, count \in Nat, panic = "none",
         \A e \in Env : st[e] = "RUNNABLE" => env_pri[e] \in Nat \ {0},
         QueueInv(q, st, p),
         Schedule(TRUE, TAILQ_REMOVE(q, p), [st EXCEPT ![p] = new])
  PROVE  /\ env_sched_list' \in TailqType /\ count' \in Nat
         /\ curenv' \in Env
         /\ panic' \in {"none", "schedule: no runnable envs"}
         /\ panic' = "none" => QueueInv(env_sched_list', [st EXCEPT ![p] = new], curenv')
<1> DEFINE m == TAILQ_REMOVE(q, p)
           st2 == [st EXCEPT ![p] = new]
<1>1. /\ m \in TailqType
      /\ m.first # NULL => /\ m.first \in Env /\ st[m.first] = "RUNNABLE" /\ m.first # p
                           /\ QueueInv(m, st2, m.first)
  BY BlockQueue
<1> HIDE DEF m
<1>2. st2[p] = new /\ new # "RUNNABLE"
  OBVIOUS
<1>3. Rotate(m, st2) = m
  BY <1>2 DEF Rotate
<1>4. env_sched_list' = m /\
      IF m.first = NULL
      THEN panic' = "schedule: no runnable envs" /\ UNCHANGED <<curenv, count>>
      ELSE EnvRun(m.first, st2) /\ count' = env_pri[m.first] - 1
  BY <1>3 DEF Schedule, Switches, m
<1>5. CASE m.first = NULL
  BY <1>1, <1>4, <1>5
<1>6. CASE m.first # NULL
  <2>1. st2[m.first] = "RUNNABLE"
    BY <1>1, <1>6
  <2>2. curenv' = m.first /\ UNCHANGED panic
    BY <2>1, <1>4, <1>6 DEF EnvRun
  <2> QED BY <2>2, <1>1, <1>4, <1>6
<1> QED BY <1>5, <1>6

(* env_create puts a new env at the head of the queue.                     *)
LEMMA BootQueue ==
  ASSUME NEW q \in TailqType, NEW st \in [Env -> Status], BootInv(q, st),
         NEW e \in Env, st[e] = "FREE"
  PROVE  /\ TAILQ_INSERT_HEAD(q, e) \in TailqType
         /\ BootInv(TAILQ_INSERT_HEAD(q, e), [st EXCEPT ![e] = "RUNNABLE"])
<1> DEFINE r == TAILQ_INSERT_HEAD(q, e)
           st2 == [st EXCEPT ![e] = "RUNNABLE"]
<1>1. r \in TailqType
  BY PtrAssumption DEF TAILQ_INSERT_HEAD, TailqType, Addr
<1>2. r.first = e /\ e # NULL /\ r.prev[e] = HEAD /\ r.next[e] = q.first
  BY PtrAssumption DEF TAILQ_INSERT_HEAD
<1>3. \A x \in Env : st2[x] \in {"FREE", "RUNNABLE"}
  BY DEF BootInv
<1>4. RunQueueFrom(r, st2, e)
  <2>1. CASE q.first = NULL
    <3> DEFINE t == [i \in 1 .. 1 |-> e]
    <3>1. r.next[e] = NULL /\ r.last = e
      BY <2>1 DEF TAILQ_INSERT_HEAD
    <3>2. Chain(r, t, 1)
      BY <3>1 DEF Chain
    <3>3. \A x \in Env : st2[x] = "RUNNABLE" <=> x = e
      BY <2>1 DEF BootInv
    <3>4. t \in [1 .. 1 -> Env] /\ t[1] = e /\ 1 \in 1 .. NENV
      BY EnvAssumption
    <3>5. \A x \in Env : x = e <=> \E i \in 1 .. 1 : t[i] = x
      BY <3>4
    <3> QED BY <3>2, <3>3, <3>4, <3>5 DEF RunQueueFrom, IsRunQueue
  <2>2. CASE q.first # NULL
    <3>1. q.first \in Env /\ QueueInv(q, st, q.first)
      BY <2>2 DEF BootInv, TailqType
    <3>2. PICK n \in 1 .. NENV : \E s \in [1 .. n -> Env] :
            s[1] = q.first /\ IsRunQueue(q, st, s, n)
      BY <3>1 DEF QueueInv, RunQueueFrom
    <3>3. PICK s \in [1 .. n -> Env] : s[1] = q.first /\ IsRunQueue(q, st, s, n)
      BY <3>2
    <3>4. n \in Nat \ {0} /\ Chain(q, s, n) /\ NENV \in Nat
      BY <3>3, EnvAssumption DEF IsRunQueue
    <3>5. \A i \in 1 .. n : s[i] # e
      BY <3>3 DEF IsRunQueue
    <3> DEFINE t == [i \in 1 .. n + 1 |-> IF i = 1 THEN e ELSE s[i - 1]]
    <3>6. t \in [1 .. n + 1 -> Env] /\ t[1] = e
      BY <3>4
    <3>7. \A i, j \in 1 .. n + 1 : t[i] = t[j] => i = j
      BY <3>4, <3>5 DEF Chain
    <3>8. r.last = q.last /\ r.next = [x \in Env |-> IF x = e THEN q.first ELSE q.next[x]]
      BY <2>2 DEF TAILQ_INSERT_HEAD
    <3>9. \A i \in 1 .. (n + 1) - 1 : r.next[t[i]] = t[i + 1]
      <4> SUFFICES ASSUME NEW i \in 1 .. (n + 1) - 1 PROVE r.next[t[i]] = t[i + 1]
        OBVIOUS
      <4>0. i \in 1 .. n
        BY <3>4
      <4>1. CASE i = 1
        BY <4>0, <4>1, <3>3, <3>4, <3>6, <3>8
      <4>2. CASE i # 1
        <5>1. t[i] = s[i - 1] /\ t[i + 1] = s[i] /\ s[i - 1] # e /\ s[i - 1] \in Env
          BY <4>0, <4>2, <3>4, <3>5
        <5>2. q.next[s[i - 1]] = s[(i - 1) + 1]
          BY <4>0, <4>2, <3>4 DEF Chain
        <5> QED BY <5>1, <5>2, <3>8
      <4> QED BY <4>1, <4>2
    <3>10. r.next[t[n + 1]] = NULL /\ r.last = t[n + 1]
      <4>1. t[n + 1] = s[n] /\ s[n] # e /\ s[n] \in Env
        BY <3>4, <3>5
      <4> QED BY <4>1, <3>4, <3>8 DEF Chain
    <3>11. Chain(r, t, n + 1)
      BY <3>6, <3>7, <3>9, <3>10 DEF Chain
    <3>12. n + 1 \in 1 .. NENV
      <4>1. n + 1 \in 0 .. NENV
        <5> HIDE DEF t, r
        <5> QED BY <3>4, <3>11, ChainBound
      <4> QED BY <4>1, <3>4
    <3>13. \A x \in Env : st2[x] = "RUNNABLE" <=> \E i \in 1 .. n + 1 : t[i] = x
      <4> SUFFICES ASSUME NEW x \in Env
                   PROVE  st2[x] = "RUNNABLE" <=> \E i \in 1 .. n + 1 : t[i] = x
        OBVIOUS
      <4>1. CASE x = e
        BY <4>1, <3>4, <3>6
      <4>2. CASE x # e
        <5>1. ASSUME NEW i \in 1 .. n + 1, t[i] = x PROVE \E j \in 1 .. n : s[j] = x
          <6>1. i - 1 \in 1 .. n /\ s[i - 1] = x BY <5>1, <4>2, <3>4
          <6> QED BY <6>1
        <5>2. ASSUME NEW i \in 1 .. n, s[i] = x PROVE \E j \in 1 .. n + 1 : t[j] = x
          <6>1. i + 1 \in 1 .. n + 1 /\ t[i + 1] = x BY <5>2, <3>4
          <6> QED BY <6>1
        <5> QED BY <5>1, <5>2, <4>2, <3>3 DEF IsRunQueue
      <4> QED BY <4>1, <4>2
    <3> HIDE DEF t, r, st2
    <3> QED BY <3>6, <3>11, <3>12, <3>13 DEF RunQueueFrom, IsRunQueue
  <2> QED BY <2>1, <2>2
<1>5. \A x \in Env : st2[x] # "ZOMBIE"
  BY <1>3
<1> HIDE DEF r, st2
<1>6. QueueInv(r, st2, r.first)
  BY <1>2, <1>4, <1>5 DEF QueueInv
<1>7. BootInv(r, st2)
  BY <1>2, <1>3, <1>6 DEF BootInv
<1> QED BY <1>1, <1>7 DEF r, st2

-----------------------------------------------------------------------------
(* The booted kernel, before the first ENV_CREATE of init.c.               *)
LEMMA InitSchedInv == Init => SchedInv
<1> SUFFICES ASSUME Init PROVE SchedInv
  OBVIOUS
<1>0. NENV \in Nat \ {0} /\ NASID \in Nat \ {0} /\ NPAGE \in Nat /\ MaxAlloc \in Nat
  BY EnvAssumption
<1>1. env_free_list \in [1 .. NENV -> Env]
  BY <1>0 DEF Init, Env
<1>2. env_free_list \in Seq(Env) /\ Len(env_free_list) = NENV
  BY <1>0, <1>1, SeqDef, LenProperties
<1>3. env_sched_list \in TailqType
  BY DEF Init, TAILQ_INIT, TailqType, Addr
<1>4. TypeOK
  <2>1. 0 \in Env /\ 0 \in 0 .. NASID - 1 /\ 0 \in 0 .. MaxAlloc
    BY <1>0 DEF Env
  <2>2. /\ env_id \in [Env -> EnvId \cup {NoId}] /\ env_parent_id \in [Env -> EnvId \cup {NoId}]
        /\ env_ipc_from \in [Env -> EnvId \cup {NoId}] /\ uarg \in [Env -> EnvId \cup {NoId}]
        /\ kids \in [Env -> SUBSET EnvId]
    BY DEF Init
  <2>3. /\ env_exit_status \in [Env -> Statuses \cup {0, 1}]
        /\ env_ipc_value \in [Env -> Word] /\ uval \in [Env -> Word]
    BY DEF Init, Word
  <2>4. inbox \in [Env -> [from : EnvId \cup {NoId}, value : Word]]
    BY DEF Init, NoMsg, Word
  <2> QED BY <1>0, <1>2, <1>3, <2>1, <2>2, <2>3, <2>4 DEF Init, TypeOK, Status, PanicReason
<1>5. IdsOk
  BY DEF Init, IdsOk
<1>6. FreeListOk
  BY <1>0, <1>1, <1>2 DEF Init, FreeListOk
<1>7. SetupOk /\ RecvingMeansBlocked
  BY DEF Init, SetupOk, RecvingMeansBlocked
<1>8. QueueOk
  BY DEF Init, QueueOk, BootInv, TAILQ_INIT
<1>9. EnvRunAssertHolds
  BY DEF Init, EnvRunAssertHolds
<1> QED BY <1>4, <1>5, <1>6, <1>7, <1>8, <1>9 DEF SchedInv

(* schedule never loads count with a priority of zero.                     *)
LEMMA PriorityOfRunnable ==
  SchedInv => \A e \in Env : env_status[e] = "RUNNABLE" => env_pri[e] \in Nat \ {0}
<1> SUFFICES ASSUME SchedInv, NEW e \in Env, env_status[e] = "RUNNABLE"
             PROVE  env_pri[e] \in Nat \ {0}
  OBVIOUS
<1>1. env_pri[e] \in Nat
  BY DEF SchedInv, TypeOK
<1>2. env_pri[e] >= 1
  BY DEF SchedInv, IdsOk
<1> QED BY <1>1, <1>2

(* The steps that only call schedule: Tick and the polling loops.          *)
LEMMA YieldStep ==
  ASSUME SchedInv, NEW yield \in BOOLEAN, panic = "none",
         Schedule(yield, env_sched_list, env_status),
         UNCHANGED <<envVars, ipcVars, allocVars, userVars>>
  PROVE  SchedInv'
<1> USE DEF SchedInv, envVars, ipcVars, allocVars, userVars
<1>1. /\ env_sched_list' \in TailqType /\ count' \in Nat
      /\ curenv' \in Env \cup {NULL}
      /\ panic' \in {"none", "schedule: no runnable envs"}
      /\ panic' = "none" => curenv' \in Env /\ QueueInv(env_sched_list', env_status, curenv')
  <2>1. \A e \in Env : env_status[e] = "RUNNABLE" => env_pri[e] \in Nat \ {0}
    BY PriorityOfRunnable
  <2>2. IF curenv = NULL THEN BootInv(env_sched_list, env_status)
                         ELSE QueueInv(env_sched_list, env_status, curenv)
    BY DEF QueueOk
  <2> QED BY <2>1, <2>2, ScheduleQueue DEF TypeOK
<1>2. TypeOK'
  BY <1>1 DEF TypeOK, PanicReason
<1>3. IdsOk' /\ FreeListOk' /\ SetupOk' /\ RecvingMeansBlocked'
  BY DEF IdsOk, FreeListOk, SetupOk, RecvingMeansBlocked
<1>4. QueueOk' /\ EnvRunAssertHolds'
  BY <1>1, PtrAssumption DEF QueueOk, EnvRunAssertHolds
<1> QED BY <1>2, <1>3, <1>4

(* The steps that only change the library state of the running env, to     *)
(* anything but "setup".                                                   *)
LEMMA LocalStep ==
  ASSUME SchedInv, NEW p \in Env, Runs(p),
         NEW where \in {"run", "dying", "wait", "reap", "send"},
         upc' = [upc EXCEPT ![p] = where], TypeOK',
         UNCHANGED <<envVars, ipcVars, allocVars, schedVars, panic>>,
         \A q \in Env \ {p} : uarg'[q] = uarg[q]
  PROVE  SchedInv'
<1> USE DEF SchedInv, envVars, ipcVars, allocVars, schedVars
<1>1. IdsOk' /\ FreeListOk'
  BY DEF IdsOk, FreeListOk
<1>2. QueueOk' /\ EnvRunAssertHolds'
  BY PtrAssumption DEF QueueOk, EnvRunAssertHolds, Runs
<1>3. env_status[p] = "RUNNABLE"
  BY PtrAssumption DEF Runs, QueueOk, QueueInv, RunQueueFrom, IsRunQueue
<1>4. RecvingMeansBlocked'
  BY <1>3 DEF RecvingMeansBlocked, TypeOK
<1>5. SetupOk'
  BY <1>3 DEF SetupOk, TypeOK
<1> QED BY <1>1, <1>2, <1>4, <1>5

(* The env that runs is RUNNABLE and heads the chain of the queue.         *)
LEMMA RunningIsRunnable ==
  ASSUME SchedInv, NEW p \in Env, Runs(p)
  PROVE  /\ env_status[p] = "RUNNABLE"
         /\ QueueInv(env_sched_list, env_status, p)
BY PtrAssumption DEF SchedInv, Runs, QueueOk, QueueInv, RunQueueFrom, IsRunQueue

(* The steps of library code that change no kernel state.                  *)
LEMMA UserOnlySteps ==
  ASSUME SchedInv, NEW p \in Env,
         \/ AbandonChild(p) \/ WaitCall(p) \/ WaitDone(p) \/ IpcRecvReturn(p)
         \/ IpcSendCall(p) \/ IpcSendBadEnv(p)
  PROVE  SchedInv'
<1> USE DEF In, Goto, Return, envVars, ipcVars, allocVars, schedVars
<1>0. TypeOK
  BY DEF SchedInv
<1>1. CASE AbandonChild(p)
  <2>1. PICK where \in {"run", "dying"} : Return(p, where)
    BY <1>1 DEF AbandonChild
  <2>2. TypeOK'
    BY <1>0, <1>1, <2>1 DEF AbandonChild, TypeOK, Word
  <2> QED BY <1>0, <1>1, <2>1, <2>2, LocalStep DEF AbandonChild, TypeOK
<1>2. CASE WaitCall(p)
  <2>1. TypeOK'
    BY <1>0, <1>2 DEF WaitCall, TypeOK
  <2> QED BY <1>0, <1>2, <2>1, LocalStep DEF WaitCall, TypeOK
<1>3. CASE WaitDone(p)
  <2>1. ENVX(uarg[p]) \in Env
    BY <1>0, EnvAssumption DEF TypeOK, ENVX, EnvId, NoId, Env
  <2>2. CASE Goto(p, "reap") /\ uval' = [uval EXCEPT ![p] = env_exit_status[ENVX(uarg[p])]] /\ UNCHANGED uarg
    <3>1. TypeOK'
      BY <1>0, <1>3, <2>1, <2>2 DEF WaitDone, TypeOK, Word
    <3> QED BY <1>0, <1>3, <2>2, <3>1, LocalStep DEF WaitDone, TypeOK
  <2>3. CASE Return(p, "run")
    <3>1. TypeOK'
      BY <1>0, <1>3, <2>3 DEF WaitDone, TypeOK, Word
    <3> QED BY <1>0, <1>3, <2>3, <3>1, LocalStep DEF WaitDone, TypeOK
  <2> QED BY <1>3, <2>2, <2>3 DEF WaitDone
<1>4. CASE IpcRecvReturn(p)
  <2>1. TypeOK'
    BY <1>0, <1>4 DEF IpcRecvReturn, TypeOK, Word
  <2> QED BY <1>0, <1>4, <2>1, LocalStep DEF IpcRecvReturn, TypeOK
<1>5. CASE IpcSendCall(p)
  <2>1. PICK e \in Env \ {p}, v \in Vals :
          /\ uarg' = [uarg EXCEPT ![p] = env_id[e]]
          /\ uval' = [uval EXCEPT ![p] = v]
    BY <1>5 DEF IpcSendCall
  <2>2. TypeOK'
    BY <1>0, <1>5, <2>1 DEF IpcSendCall, TypeOK, Word
  <2> QED BY <1>0, <1>5, <2>1, <2>2, LocalStep DEF IpcSendCall, TypeOK
<1>6. CASE IpcSendBadEnv(p)
  <2>1. TypeOK'
    BY <1>0, <1>6 DEF IpcSendBadEnv, TypeOK, Word
  <2> QED BY <1>0, <1>6, <2>1, LocalStep DEF IpcSendBadEnv, TypeOK
<1> QED BY <1>1, <1>2, <1>3, <1>4, <1>5, <1>6

(* The running env becomes a zombie.                                       *)
LEMMA ExitStep ==
  ASSUME SchedInv, NEW p \in Env, NEW status \in Statuses \cup {1}, SysExit(p, status)
  PROVE  SchedInv'
<1> USE DEF In, envVars, ipcVars, allocVars, userVars
<1>0. TypeOK /\ Runs(p) /\ panic = "none" /\ curenv = p
  BY DEF SchedInv, SysExit, Runs
<1>1. env_status[p] = "RUNNABLE" /\ QueueInv(env_sched_list, env_status, p)
  BY <1>0, RunningIsRunnable
<1> DEFINE st == [env_status EXCEPT ![p] = "ZOMBIE"]
<1>2. env_status' = st /\ st \in [Env -> Status]
  BY <1>0 DEF SysExit, TypeOK, Status
<1>3. Schedule(TRUE, TAILQ_REMOVE(env_sched_list, p), st)
  BY <1>2 DEF SysExit
<1>4. /\ env_sched_list' \in TailqType /\ count' \in Nat
      /\ curenv' \in Env
      /\ panic' \in {"none", "schedule: no runnable envs"}
      /\ panic' = "none" => QueueInv(env_sched_list', st, curenv')
  <2> HIDE DEF st
  <2>1. \A e \in Env : env_status[e] = "RUNNABLE" => env_pri[e] \in Nat \ {0}
    BY PriorityOfRunnable
  <2> QED BY <2>1, <1>0, <1>1, <1>3, ScheduleBlocked DEF TypeOK, st
<1>5. TypeOK'
  BY <1>0, <1>2, <1>4 DEF SysExit, TypeOK, PanicReason
<1>6. IdsOk' /\ FreeListOk'
  BY <1>0, <1>1, <1>2 DEF SysExit, SchedInv, IdsOk, FreeListOk, TypeOK
<1>7. SetupOk'
  BY <1>0, <1>1, <1>2 DEF SysExit, SchedInv, SetupOk, TypeOK
<1>8. RecvingMeansBlocked'
  BY <1>0, <1>1, <1>2 DEF SysExit, SchedInv, RecvingMeansBlocked, TypeOK
<1>9. QueueOk' /\ EnvRunAssertHolds'
  BY <1>2, <1>4, PtrAssumption DEF QueueOk, EnvRunAssertHolds
<1> QED BY <1>5, <1>6, <1>7, <1>8, <1>9 DEF SchedInv

(* The running env blocks in sys_ipc_recv.                                 *)
LEMMA RecvStep ==
  ASSUME SchedInv, NEW p \in Env, SysIpcRecv(p)
  PROVE  SchedInv'
<1> USE DEF In, envVars, ipcVars, allocVars, userVars
<1>0. TypeOK /\ Runs(p) /\ panic = "none" /\ curenv = p
  BY DEF SchedInv, SysIpcRecv, Runs
<1>1. env_status[p] = "RUNNABLE" /\ QueueInv(env_sched_list, env_status, p)
  BY <1>0, RunningIsRunnable
<1> DEFINE st == [env_status EXCEPT ![p] = "NOT_RUNNABLE"]
<1>2. env_status' = st /\ st \in [Env -> Status]
  BY <1>0 DEF SysIpcRecv, TypeOK, Status
<1>3. Schedule(TRUE, TAILQ_REMOVE(env_sched_list, p), st)
  BY <1>2 DEF SysIpcRecv
<1>4. /\ env_sched_list' \in TailqType /\ count' \in Nat
      /\ curenv' \in Env
      /\ panic' \in {"none", "schedule: no runnable envs"}
      /\ panic' = "none" => QueueInv(env_sched_list', st, curenv')
  <2> HIDE DEF st
  <2>1. \A e \in Env : env_status[e] = "RUNNABLE" => env_pri[e] \in Nat \ {0}
    BY PriorityOfRunnable
  <2> QED BY <2>1, <1>0, <1>1, <1>3, ScheduleBlocked DEF TypeOK, st
<1>5. TypeOK'
  <2>1. inbox' \in [Env -> [from : EnvId \cup {NoId}, value : Word]]
    BY <1>0 DEF SysIpcRecv, TypeOK, NoMsg, Word
  <2> QED BY <1>0, <1>2, <1>4, <2>1 DEF SysIpcRecv, TypeOK, PanicReason, Goto
<1>6. IdsOk' /\ FreeListOk'
  BY <1>0, <1>1, <1>2 DEF SysIpcRecv, SchedInv, IdsOk, FreeListOk, TypeOK
<1>7. SetupOk'
  <2> SUFFICES ASSUME NEW q \in Env, env_status'[q] = "RUNNABLE", upc'[q] = "setup"
               PROVE  LET c == ENVX(uarg'[q])
                      IN  /\ env_id'[c] = uarg'[q] /\ env_parent_id'[c] = env_id'[q]
                          /\ env_status'[c] = "NOT_RUNNABLE" /\ upc'[c] = "run"
    BY DEF SetupOk
  <2>1. q # p /\ env_status[q] = "RUNNABLE" /\ upc[q] = "setup"
    BY <1>0, <1>2 DEF SysIpcRecv, Goto, TypeOK
  <2>2. ENVX(uarg[q]) # p
    BY <2>1, <1>1 DEF SchedInv, SetupOk
  <2> QED BY <2>1, <2>2, <1>0, <1>2 DEF SysIpcRecv, SchedInv, SetupOk, TypeOK, Goto
<1>8. RecvingMeansBlocked'
  BY <1>0, <1>1, <1>2 DEF SysIpcRecv, SchedInv, RecvingMeansBlocked, TypeOK, Goto
<1>9. QueueOk' /\ EnvRunAssertHolds'
  BY <1>2, <1>4, PtrAssumption DEF QueueOk, EnvRunAssertHolds
<1> QED BY <1>5, <1>6, <1>7, <1>8, <1>9 DEF SchedInv

(* What env_alloc hands to its callers: a slot that was free and is on the *)
(* free list no more, with a new id.                                       *)
LEMMA AllocFacts ==
  ASSUME TypeOK, FreeListOk, NEW e \in Env, NEW parent, EnvAlloc(e, parent)
  PROVE  /\ env_status[e] = "FREE"
         /\ env_free_list' \in Seq(Env)
         /\ \A i \in 1 .. Len(env_free_list') :
              env_free_list'[i] # e /\ env_status[env_free_list'[i]] = "FREE"
         /\ \A i, j \in 1 .. Len(env_free_list') :
              env_free_list'[i] = env_free_list'[j] => i = j
         /\ mkenvid(e) \in EnvId /\ ENVX(mkenvid(e)) = e
         /\ env_id' = [env_id EXCEPT ![e] = mkenvid(e)]
         /\ idcount' \in 0 .. MaxAlloc /\ freePages' \in Nat
         /\ asid_bitmap' \subseteq 0 .. NASID - 1
         /\ env_asid' \in [Env -> 0 .. NASID - 1]
         /\ env_parent_id' = [env_parent_id EXCEPT ![e] = parent]
<1>1. env_free_list \in Seq(Env) /\ env_free_list # <<>> /\ freePages \in Nat
      /\ freePages # 0 /\ freePages # 1 /\ e = Head(env_free_list)
      /\ env_free_list' = Tail(env_free_list)
  BY DEF EnvAlloc, EnvAllocResult, TypeOK
<1>2. Len(env_free_list) \in Nat \ {0}
  BY <1>1, EmptySeq
<1>3. e = env_free_list[1] /\ Len(env_free_list') = Len(env_free_list) - 1
      /\ env_free_list' \in Seq(Env)
      /\ \A i \in 1 .. Len(env_free_list') : env_free_list'[i] = env_free_list[i + 1]
  BY <1>1, <1>2, HeadTailProperties
<1>4. env_status[e] = "FREE"
  BY <1>2, <1>3 DEF FreeListOk
<1>5. \A i \in 1 .. Len(env_free_list') :
         env_free_list'[i] # e /\ env_status[env_free_list'[i]] = "FREE"
  BY <1>2, <1>3 DEF FreeListOk
<1>6. \A i, j \in 1 .. Len(env_free_list') : env_free_list'[i] = env_free_list'[j] => i = j
  BY <1>2, <1>3 DEF FreeListOk
<1>7. mkenvid(e) \in EnvId /\ ENVX(mkenvid(e)) = e /\ idcount' \in 0 .. MaxAlloc
  BY EnvAssumption DEF mkenvid, EnvId, ENVX, EnvAlloc, TypeOK
<1>8. asid_bitmap' \subseteq 0 .. NASID - 1 /\ env_asid' \in [Env -> 0 .. NASID - 1]
  BY DEF EnvAlloc, AsidAlloc, FreeAsids, TypeOK
<1>9. freePages' \in Nat
  BY <1>1 DEF EnvAlloc
<1> QED BY <1>3, <1>4, <1>5, <1>6, <1>7, <1>8, <1>9 DEF EnvAlloc

(* The error paths of env_alloc.                                           *)
LEMMA AllocFailsFacts ==
  ASSUME TypeOK, EnvAllocFails
  PROVE  freePages' \in Nat /\ UNCHANGED <<env_free_list, asid_bitmap, idcount>>
         /\ EnvAllocResult \in PanicReason \ {"none", "env_run: not runnable"}
<1>1. freePages \in Nat
  BY DEF TypeOK
<1> QED BY <1>1 DEF EnvAllocFails, EnvAllocResult, PanicReason

(* ENV_CREATE at boot.                                                     *)
LEMMA CreateStep ==
  ASSUME SchedInv, EnvCreate
  PROVE  SchedInv'
<1> USE DEF envVars, ipcVars, schedVars, userVars
<1>0. TypeOK /\ FreeListOk /\ IdsOk /\ panic = "none" /\ curenv = NULL
      /\ BootInv(env_sched_list, env_status) /\ (\A e \in Env : upc[e] = "run")
      /\ idcount \in Nat /\ idcount < Len(BootPri)
  BY EnvAssumption DEF SchedInv, EnvCreate, Booting, QueueOk, TypeOK
<1>1. CASE EnvAllocResult # "ok"
  <2>1. EnvAllocFails /\ panic' = EnvAllocResult /\ UNCHANGED <<envVars, schedVars, ipcVars, userVars>>
    BY <1>1 DEF EnvCreate
  <2>2. freePages' \in Nat /\ UNCHANGED <<env_free_list, asid_bitmap, idcount>>
        /\ panic' \in PanicReason \ {"none", "env_run: not runnable"}
    BY <2>1, <1>0, AllocFailsFacts
  <2>3. TypeOK'
    BY <2>1, <2>2, <1>0 DEF TypeOK
  <2>4. IdsOk' /\ FreeListOk' /\ SetupOk' /\ RecvingMeansBlocked'
    <3>1. IdsOk' /\ FreeListOk'
      BY <2>1, <2>2, <1>0 DEF IdsOk, FreeListOk
    <3>2. SetupOk' /\ RecvingMeansBlocked'
      BY <2>1 DEF SchedInv, SetupOk, RecvingMeansBlocked
    <3> QED BY <3>1, <3>2
  <2>5. QueueOk' /\ EnvRunAssertHolds'
    BY <2>2 DEF QueueOk, EnvRunAssertHolds
  <2> QED BY <2>3, <2>4, <2>5 DEF SchedInv
<1>2. CASE EnvAllocResult = "ok"
  <2>1. PICK e \in Env :
          /\ EnvAlloc(e, NoId)
          /\ env_pri' = [env_pri EXCEPT ![e] = BootPri[idcount + 1]]
          /\ env_status' = [env_status EXCEPT ![e] = "RUNNABLE"]
          /\ env_sched_list' = TAILQ_INSERT_HEAD(env_sched_list, e)
          /\ UNCHANGED <<curenv, count, panic, env_exit_status, ipcVars, userVars>>
    BY <1>2 DEF EnvCreate
  <2>2. /\ env_status[e] = "FREE"
        /\ env_free_list' \in Seq(Env)
        /\ \A i \in 1 .. Len(env_free_list') :
             env_free_list'[i] # e /\ env_status[env_free_list'[i]] = "FREE"
        /\ \A i, j \in 1 .. Len(env_free_list') :
             env_free_list'[i] = env_free_list'[j] => i = j
        /\ mkenvid(e) \in EnvId /\ ENVX(mkenvid(e)) = e
        /\ env_id' = [env_id EXCEPT ![e] = mkenvid(e)]
        /\ idcount' \in 0 .. MaxAlloc /\ freePages' \in Nat
        /\ asid_bitmap' \subseteq 0 .. NASID - 1
        /\ env_asid' \in [Env -> 0 .. NASID - 1]
        /\ env_parent_id' = [env_parent_id EXCEPT ![e] = NoId]
    BY <2>1, <1>0, AllocFacts
  <2>3. BootPri[idcount + 1] \in Nat \ {0}
    <3>1. idcount + 1 \in 1 .. Len(BootPri)
      BY <1>0, EnvAssumption
    <3> QED BY <3>1, EnvAssumption, ElementOfSeq
  <2>4. env_sched_list' \in TailqType /\ BootInv(env_sched_list', env_status')
    BY <2>1, <2>2, <1>0, BootQueue DEF TypeOK
  <2>5. TypeOK'
    BY <2>1, <2>2, <2>3, <2>4, <1>0 DEF TypeOK, Status
  <2>6. IdsOk'
    BY <2>1, <2>2, <2>3, <1>0 DEF IdsOk, TypeOK
  <2>7. FreeListOk'
    <3>1. \A i \in 1 .. Len(env_free_list') : env_free_list'[i] \in Env
      BY <2>2, ElementOfSeq
    <3> QED BY <3>1, <2>1, <2>2, <1>0 DEF FreeListOk, TypeOK
  <2>8. SetupOk'
    BY <2>1, <1>0 DEF SetupOk
  <2>9. RecvingMeansBlocked'
    BY <2>1, <2>2, <1>0 DEF SchedInv, RecvingMeansBlocked, TypeOK
  <2>10. QueueOk' /\ EnvRunAssertHolds'
    BY <2>1, <2>4, <1>0 DEF QueueOk, EnvRunAssertHolds
  <2> QED BY <2>5, <2>6, <2>7, <2>8, <2>9, <2>10 DEF SchedInv
<1> QED BY <1>1, <1>2

(* sys_exofork: the new env is NOT_RUNNABLE, so the queue is untouched.    *)
LEMMA ExoforkStep ==
  ASSUME SchedInv, NEW p \in Env, SysExofork(p)
  PROVE  SchedInv'
<1> USE DEF envVars, ipcVars, schedVars, In
<1>0. TypeOK /\ FreeListOk /\ IdsOk /\ SetupOk /\ Runs(p) /\ panic = "none" /\ curenv = p
  BY DEF SchedInv, SysExofork, Runs
<1>1. env_status[p] = "RUNNABLE" /\ QueueInv(env_sched_list, env_status, p)
      /\ curenv # NULL
  BY <1>0, RunningIsRunnable, PtrAssumption
<1>2. CASE EnvAllocFails
  <2>1. CASE /\ panic' = IF EnvAllocResult = "page_free: pp_ref is not 0" THEN EnvAllocResult ELSE panic
             /\ \E where \in {"run", "dying"} : Goto(p, where)
             /\ UNCHANGED <<envVars, uarg, uval, kids, schedVars, ipcVars>>
    <3>1. freePages' \in Nat /\ UNCHANGED <<env_free_list, asid_bitmap, idcount>>
      BY <1>0, <1>2, AllocFailsFacts
    <3>2. panic' \in {"none", "page_free: pp_ref is not 0"}
      BY <2>1, <1>0
    <3>3. PICK where \in {"run", "dying"} : upc' = [upc EXCEPT ![p] = where]
      BY <2>1 DEF Goto
    <3>4. TypeOK'
      BY <3>1, <3>2, <3>3, <2>1, <1>0 DEF TypeOK, PanicReason
    <3>5. IdsOk' /\ FreeListOk'
      BY <3>1, <2>1, <1>0 DEF IdsOk, FreeListOk
    <3>6. SetupOk'
      <4> SUFFICES ASSUME NEW q \in Env, env_status'[q] = "RUNNABLE", upc'[q] = "setup"
                   PROVE  LET c == ENVX(uarg'[q])
                          IN  /\ env_id'[c] = uarg'[q] /\ env_parent_id'[c] = env_id'[q]
                              /\ env_status'[c] = "NOT_RUNNABLE" /\ upc'[c] = "run"
        BY DEF SetupOk
      <4>1. q # p /\ env_status[q] = "RUNNABLE" /\ upc[q] = "setup" /\ uarg'[q] = uarg[q]
        BY <3>3, <2>1, <1>0 DEF TypeOK
      <4>2. ENVX(uarg[q]) # p
        BY <4>1, <1>0, <1>1 DEF SetupOk
      <4>3. upc'[ENVX(uarg[q])] = upc[ENVX(uarg[q])]
        BY <4>2, <3>3
      <4> QED BY <4>1, <4>3, <2>1, <1>0 DEF SetupOk
    <3>7. RecvingMeansBlocked'
      BY <3>3, <2>1, <1>0, <1>1 DEF SchedInv, RecvingMeansBlocked, TypeOK
    <3>8. QueueOk' /\ EnvRunAssertHolds'
      BY <3>2, <2>1, <1>0, <1>1 DEF QueueOk, EnvRunAssertHolds
    <3> QED BY <3>4, <3>5, <3>6, <3>7, <3>8 DEF SchedInv
  <2>2. ~ \E e \in Env : EnvAlloc(e, env_id[p])
    BY <1>2 DEF EnvAllocFails, EnvAlloc
  <2> QED BY <2>1, <2>2 DEF SysExofork
<1>3. CASE ~EnvAllocFails
  <2>1. PICK e \in Env :
          /\ EnvAlloc(e, env_id[p])
          /\ env_status' = [env_status EXCEPT ![e] = "NOT_RUNNABLE"]
          /\ env_pri' = [env_pri EXCEPT ![e] = env_pri[p]]
          /\ upc' = [upc EXCEPT ![p] = "setup", ![e] = "run"]
          /\ uarg' = [uarg EXCEPT ![p] = mkenvid(e)]
          /\ kids' = [kids EXCEPT ![e] = {}]
          /\ UNCHANGED <<uval, panic, env_exit_status, schedVars, ipcVars>>
    BY <1>3 DEF SysExofork
  <2>2. /\ env_status[e] = "FREE"
        /\ env_free_list' \in Seq(Env)
        /\ \A i \in 1 .. Len(env_free_list') :
             env_free_list'[i] # e /\ env_status[env_free_list'[i]] = "FREE"
        /\ \A i, j \in 1 .. Len(env_free_list') :
             env_free_list'[i] = env_free_list'[j] => i = j
        /\ mkenvid(e) \in EnvId /\ ENVX(mkenvid(e)) = e
        /\ env_id' = [env_id EXCEPT ![e] = mkenvid(e)]
        /\ idcount' \in 0 .. MaxAlloc /\ freePages' \in Nat
        /\ asid_bitmap' \subseteq 0 .. NASID - 1
        /\ env_asid' \in [Env -> 0 .. NASID - 1]
        /\ env_parent_id' = [env_parent_id EXCEPT ![e] = env_id[p]]
    BY <2>1, <1>0, AllocFacts
  <2>3. e # p /\ env_pri[p] \in Nat \ {0}
    BY <2>2, <1>1, PriorityOfRunnable
  <2>4. TypeOK'
    BY <2>1, <2>2, <2>3, <1>0 DEF TypeOK, Status
  <2>5. IdsOk'
    BY <2>1, <2>2, <2>3, <1>0 DEF IdsOk, TypeOK
  <2>6. FreeListOk'
    <3>1. \A i \in 1 .. Len(env_free_list') : env_free_list'[i] \in Env
      BY <2>2, ElementOfSeq
    <3> QED BY <3>1, <2>1, <2>2, <1>0 DEF FreeListOk, TypeOK
  <2>7. SetupOk'
    <3> SUFFICES ASSUME NEW q \in Env, env_status'[q] = "RUNNABLE", upc'[q] = "setup"
                 PROVE  LET c == ENVX(uarg'[q])
                        IN  /\ env_id'[c] = uarg'[q] /\ env_parent_id'[c] = env_id'[q]
                            /\ env_status'[c] = "NOT_RUNNABLE" /\ upc'[c] = "run"
      BY DEF SetupOk
    <3>1. q # e
      BY <2>1, <1>0 DEF TypeOK
    <3>2. CASE q = p
      BY <3>2, <2>1, <2>2, <2>3, <1>0 DEF TypeOK
    <3>3. CASE q # p
      <4>1. env_status[q] = "RUNNABLE" /\ upc[q] = "setup" /\ uarg'[q] = uarg[q]
            /\ env_id'[q] = env_id[q]
        BY <3>1, <3>3, <2>1, <2>2, <1>0 DEF TypeOK
      <4>2. ENVX(uarg[q]) # e /\ ENVX(uarg[q]) # p
        BY <4>1, <2>2, <1>0, <1>1 DEF SetupOk
      <4>3. ENVX(uarg[q]) \in Env
        BY <1>0, EnvAssumption DEF TypeOK, ENVX, EnvId, NoId, Env
      <4> QED BY <4>1, <4>2, <4>3, <2>1, <2>2, <1>0 DEF SetupOk, TypeOK
    <3> QED BY <3>2, <3>3
  <2>8. RecvingMeansBlocked'
    BY <2>1, <2>2, <2>3, <1>0, <1>1 DEF SchedInv, RecvingMeansBlocked, TypeOK
  <2>9. QueueOk' /\ EnvRunAssertHolds'
    <3>1. \A x \in Env : (env_status'[x] = "RUNNABLE" <=> env_status[x] = "RUNNABLE")
                        /\ (env_status'[x] = "ZOMBIE" => env_status[x] = "ZOMBIE")
      BY <2>1, <2>2, <1>0 DEF TypeOK
    <3>2. QueueInv(env_sched_list, env_status', p)
      BY <3>1, <1>1 DEF QueueInv, RunQueueFrom, IsRunQueue
    <3> QED BY <3>2, <2>1, <1>0, <1>1 DEF QueueOk, EnvRunAssertHolds
  <2> QED BY <2>4, <2>5, <2>6, <2>7, <2>8, <2>9 DEF SchedInv
<1> QED BY <1>2, <1>3

(* The end of fork or spawn.                                               *)
LEMMA StartStep ==
  ASSUME SchedInv, NEW p \in Env, StartChild(p)
  PROVE  SchedInv'
<1> USE DEF ipcVars, allocVars, In
<1> DEFINE c == ENVX(uarg[p])
<1>0. TypeOK /\ FreeListOk /\ IdsOk /\ SetupOk /\ RecvingMeansBlocked
      /\ Runs(p) /\ panic = "none" /\ curenv = p /\ upc[p] = "setup" /\ curenv # NULL
  BY PtrAssumption DEF SchedInv, StartChild, Runs
<1>1. env_status[p] = "RUNNABLE" /\ QueueInv(env_sched_list, env_status, p)
  BY <1>0, RunningIsRunnable
<1>2. /\ env_status[c] = "NOT_RUNNABLE" /\ env_id[c] = uarg[p] /\ upc[c] = "run"
      /\ env_parent_id[c] = env_id[p]
  BY <1>0, <1>1 DEF SetupOk
<1>3. c \in Env /\ c # p
  BY <1>0, <1>1, <1>2, EnvAssumption DEF TypeOK, ENVX, EnvId, NoId, Env
<1>4. /\ env_sched_list' = TAILQ_INSERT_TAIL(env_sched_list, c)
      /\ env_status' = [env_status EXCEPT ![c] = "RUNNABLE"]
  BY <1>2 DEF StartChild, SysSetEnvStatus
<1>5. env_sched_list' \in TailqType /\ QueueInv(env_sched_list', env_status', p)
  BY <1>0, <1>1, <1>2, <1>3, <1>4, WakeQueue DEF TypeOK
<1>6. uarg[p] \in EnvId
  BY <1>0, <1>2, <1>3 DEF IdsOk
<1>7. /\ upc' = [upc EXCEPT ![p] = "run"]
      /\ uarg' = [uarg EXCEPT ![p] = NoId]
      /\ uval' = [uval EXCEPT ![p] = 0]
      /\ kids' = [kids EXCEPT ![p] = kids[p] \cup {uarg[p]}]
      /\ UNCHANGED <<env_id, env_parent_id, env_pri, env_asid, env_exit_status,
                     ipcVars, allocVars, curenv, count, panic>>
  BY DEF StartChild, Return, Goto
<1> HIDE DEF c
<1>8. TypeOK'
  BY <1>0, <1>3, <1>4, <1>5, <1>6, <1>7 DEF TypeOK, Status, Word
<1>9. IdsOk' /\ FreeListOk'
  <2>1. IdsOk'
    BY <1>0, <1>2, <1>3, <1>4, <1>7 DEF IdsOk, TypeOK
  <2>2. \A i \in 1 .. Len(env_free_list) : env_free_list[i] \in Env
    BY <1>0, ElementOfSeq DEF TypeOK
  <2>3. FreeListOk'
    BY <2>2, <1>0, <1>2, <1>3, <1>4, <1>7 DEF FreeListOk, TypeOK
  <2> QED BY <2>1, <2>3
<1>10. SetupOk'
  <2> SUFFICES ASSUME NEW q \in Env, env_status'[q] = "RUNNABLE", upc'[q] = "setup"
               PROVE  LET d == ENVX(uarg'[q])
                      IN  /\ env_id'[d] = uarg'[q] /\ env_parent_id'[d] = env_id'[q]
                          /\ env_status'[d] = "NOT_RUNNABLE" /\ upc'[d] = "run"
    BY DEF SetupOk
  <2>1. q # p /\ q # c /\ uarg'[q] = uarg[q] /\ upc[q] = "setup" /\ env_status[q] = "RUNNABLE"
    BY <1>0, <1>2, <1>3, <1>4, <1>7 DEF TypeOK
  <2>2. ENVX(uarg[q]) \in Env
    BY <1>0, EnvAssumption DEF TypeOK, ENVX, EnvId, NoId, Env
  <2>3. ENVX(uarg[q]) # c
    <3> SUFFICES ASSUME ENVX(uarg[q]) = c PROVE FALSE
      OBVIOUS
    <3>1. env_parent_id[c] = env_id[q]
      BY <2>1, <1>0 DEF SetupOk
    <3>2. ENVX(env_id[q]) = q /\ ENVX(env_id[p]) = p
      BY <2>1, <1>0, <1>1 DEF IdsOk
    <3> QED BY <3>1, <3>2, <2>1, <1>2
  <2>4. ENVX(uarg[q]) # p
    BY <2>1, <1>0, <1>1 DEF SetupOk
  <2> QED BY <2>1, <2>2, <2>3, <2>4, <1>0, <1>4, <1>7 DEF SetupOk, TypeOK
<1>11. RecvingMeansBlocked'
  BY <1>0, <1>1, <1>2, <1>3, <1>4, <1>7 DEF RecvingMeansBlocked, TypeOK
<1>12. QueueOk' /\ EnvRunAssertHolds'
  BY <1>0, <1>5, <1>7 DEF QueueOk, EnvRunAssertHolds
<1> QED BY <1>8, <1>9, <1>10, <1>11, <1>12 DEF SchedInv

(* wait reaps the zombie, or sys_env_destroy refuses.                      *)
LEMMA ReapStep ==
  ASSUME SchedInv, NEW p \in Env, WaitReap(p)
  PROVE  SchedInv'
<1> USE DEF ipcVars, In
<1> DEFINE z == ENVX(uarg[p])
<1>0. TypeOK /\ FreeListOk /\ IdsOk /\ SetupOk /\ RecvingMeansBlocked
      /\ Runs(p) /\ panic = "none" /\ curenv = p /\ curenv # NULL
  BY PtrAssumption DEF SchedInv, WaitReap, Runs
<1>1. env_status[p] = "RUNNABLE" /\ QueueInv(env_sched_list, env_status, p)
  BY <1>0, RunningIsRunnable
<1>2. z \in Env
  BY <1>0, EnvAssumption DEF TypeOK, ENVX, EnvId, NoId, Env
<1>3. /\ upc' = [upc EXCEPT ![p] = "run"]
      /\ uarg' = [uarg EXCEPT ![p] = NoId]
      /\ uval' = [uval EXCEPT ![p] = 0]
      /\ UNCHANGED <<env_id, env_parent_id, env_pri, env_asid, env_exit_status,
                     ipcVars, idcount, curenv, count, panic, kids>>
  BY DEF WaitReap, Return, Goto
<1>4. CASE MayReap(uarg[p])
  <2>1. /\ env_status[z] = "ZOMBIE"
        /\ freePages' = freePages + 2
        /\ asid_bitmap' = asid_bitmap \ {env_asid[z]}
        /\ env_status' = [env_status EXCEPT ![z] = "FREE"]
        /\ env_free_list' = <<z>> \o env_free_list
        /\ env_sched_list' = TAILQ_REMOVE(env_sched_list, z)
    BY <1>4 DEF WaitReap, MayReap, EnvFree
  <2>2. env_sched_list' \in TailqType /\ QueueInv(env_sched_list', env_status', p)
    BY <2>1, <1>0, <1>1, <1>2, ReapQueue DEF TypeOK
  <2>3. /\ env_free_list' \in Seq(Env)
        /\ Len(env_free_list') = Len(env_free_list) + 1
        /\ \A i \in 1 .. Len(env_free_list') :
             env_free_list'[i] = IF i = 1 THEN z ELSE env_free_list[i - 1]
    <3> HIDE DEF z
    <3>1. env_free_list \in Seq(Env) /\ <<z>> \in Seq(Env) /\ Len(<<z>>) = 1
      BY <1>0, <1>2 DEF TypeOK
    <3>2. Len(env_free_list) \in Nat
      BY <3>1, LenProperties
    <3> QED BY <3>1, <3>2, <2>1, ConcatProperties
  <2> HIDE DEF z
  <2>4. TypeOK'
    <3>1. freePages' \in Nat /\ asid_bitmap' \subseteq 0 .. NASID - 1
      <4>1. freePages \in Nat /\ asid_bitmap \subseteq 0 .. NASID - 1
        BY <1>0 DEF TypeOK
      <4>2. freePages' \in Nat
        BY <4>1, <2>1
      <4> QED BY <4>1, <4>2, <2>1
    <3>2. env_status' \in [Env -> Status]
      BY <2>1, <1>0 DEF TypeOK, Status
    <3>3. uval' \in [Env -> Word] /\ uarg' \in [Env -> EnvId \cup {NoId}]
      BY <1>0, <1>3 DEF TypeOK, Word
    <3>4. upc' \in [Env -> {"run", "setup", "dying", "wait", "reap", "recv", "send"}]
      BY <1>0, <1>3 DEF TypeOK
    <3> QED BY <3>1, <3>2, <3>3, <3>4, <2>2, <2>3, <1>0, <1>3 DEF TypeOK
  <2>5. IdsOk'
    BY <2>1, <1>0, <1>2, <1>3 DEF IdsOk, TypeOK
  <2>6. FreeListOk'
    <3>1. Len(env_free_list) \in Nat
      BY <1>0, LenProperties DEF TypeOK
    <3>2. \A i \in 1 .. Len(env_free_list) : env_free_list[i] \in Env /\ env_free_list[i] # z
      BY <2>1, <1>0, ElementOfSeq DEF TypeOK, FreeListOk
    <3>3. \A i \in 1 .. Len(env_free_list') : env_status'[env_free_list'[i]] = "FREE"
      <4> SUFFICES ASSUME NEW i \in 1 .. Len(env_free_list')
                   PROVE  env_status'[env_free_list'[i]] = "FREE"
        OBVIOUS
      <4>1. CASE i = 1
        BY <4>1, <2>1, <2>3, <1>0, <1>2 DEF TypeOK
      <4>2. CASE i # 1
        <5>1. i - 1 \in 1 .. Len(env_free_list)
          BY <4>2, <2>3, <3>1
        <5> QED BY <5>1, <4>2, <3>2, <2>1, <2>3, <1>0 DEF FreeListOk, TypeOK
      <4> QED BY <4>1, <4>2
    <3>4. \A i, j \in 1 .. Len(env_free_list') : env_free_list'[i] = env_free_list'[j] => i = j
      <4>1. \A i \in 1 .. Len(env_free_list') : i # 1 => i - 1 \in 1 .. Len(env_free_list)
        BY <2>3, <3>1
      <4> SUFFICES ASSUME NEW i \in 1 .. Len(env_free_list'), NEW j \in 1 .. Len(env_free_list'),
                          env_free_list'[i] = env_free_list'[j]
                   PROVE  i = j
        OBVIOUS
      <4>2. CASE i = 1 \/ j = 1
        BY <4>1, <4>2, <3>2, <2>3
      <4>3. CASE i # 1 /\ j # 1
        <5>1. env_free_list[i - 1] = env_free_list[j - 1]
          BY <4>3, <2>3
        <5>2. i - 1 = j - 1
          BY <5>1, <4>1, <4>3, <1>0 DEF FreeListOk
        <5> QED BY <5>2, <3>1, <2>3
      <4> QED BY <4>2, <4>3
    <3> QED BY <3>3, <3>4 DEF FreeListOk
  <2>7. SetupOk'
    <3> SUFFICES ASSUME NEW q \in Env, env_status'[q] = "RUNNABLE", upc'[q] = "setup"
                 PROVE  LET c == ENVX(uarg'[q])
                        IN  /\ env_id'[c] = uarg'[q] /\ env_parent_id'[c] = env_id'[q]
                            /\ env_status'[c] = "NOT_RUNNABLE" /\ upc'[c] = "run"
      BY DEF SetupOk
    <3>1. q # p /\ q # z /\ env_status[q] = "RUNNABLE" /\ upc[q] = "setup" /\ uarg'[q] = uarg[q]
      BY <2>1, <1>0, <1>2, <1>3 DEF TypeOK
    <3>2. ENVX(uarg[q]) # p /\ ENVX(uarg[q]) # z
      BY <3>1, <2>1, <1>0, <1>1 DEF SetupOk
    <3>3. upc'[ENVX(uarg[q])] = upc[ENVX(uarg[q])]
          /\ env_status'[ENVX(uarg[q])] = env_status[ENVX(uarg[q])]
      BY <3>2, <2>1, <1>3
    <3> QED BY <3>1, <3>3, <1>0, <1>3 DEF SetupOk
  <2>8. RecvingMeansBlocked'
    BY <2>1, <1>0, <1>1, <1>2, <1>3 DEF RecvingMeansBlocked, TypeOK
  <2>9. QueueOk' /\ EnvRunAssertHolds'
    BY <2>2, <1>0, <1>3 DEF QueueOk, EnvRunAssertHolds
  <2> QED BY <2>4, <2>5, <2>6, <2>7, <2>8, <2>9 DEF SchedInv
<1>5. CASE ~MayReap(uarg[p])
  <2>1. UNCHANGED <<env_status, env_sched_list, env_free_list, asid_bitmap, freePages>>
    BY <1>5 DEF WaitReap
  <2>2. TypeOK'
    BY <2>1, <1>0, <1>3 DEF TypeOK, Word
  <2>3. \A q \in Env \ {p} : uarg'[q] = uarg[q]
    BY <1>0, <1>3 DEF TypeOK
  <2>4. UNCHANGED <<envVars, ipcVars, allocVars, schedVars, panic>>
    BY <2>1, <1>3 DEF envVars, allocVars, schedVars
  <2> QED BY <2>2, <2>3, <2>4, <1>0, <1>3, LocalStep
<1> QED BY <1>4, <1>5

(* sys_ipc_try_send wakes an env that is blocked in sys_ipc_recv.          *)
LEMMA SendStep ==
  ASSUME SchedInv, NEW p \in Env, IpcTrySend(p)
  PROVE  SchedInv'
<1> USE DEF allocVars, In
<1> DEFINE e == ENVX(uarg[p])
<1>0. TypeOK /\ FreeListOk /\ IdsOk /\ SetupOk /\ RecvingMeansBlocked
      /\ Runs(p) /\ panic = "none" /\ curenv = p /\ curenv # NULL
  BY PtrAssumption DEF SchedInv, IpcTrySend, Runs
<1>1. env_status[p] = "RUNNABLE" /\ QueueInv(env_sched_list, env_status, p)
  BY <1>0, RunningIsRunnable
<1>2. e \in Env
  BY <1>0, EnvAssumption DEF TypeOK, ENVX, EnvId, NoId, Env
<1>3. env_ipc_recving[e] = 1
  BY DEF IpcTrySend, IpcReady
<1>4. env_status[e] = "NOT_RUNNABLE" /\ upc[e] = "recv" /\ e # p
  BY <1>0, <1>1, <1>2, <1>3 DEF RecvingMeansBlocked
<1>5. PICK where \in {"run", "dying"} : Return(p, where)
  BY DEF IpcTrySend
<1>6. /\ upc' = [upc EXCEPT ![p] = where]
      /\ uarg' = [uarg EXCEPT ![p] = NoId]
      /\ uval' = [uval EXCEPT ![p] = 0]
      /\ env_status' = [env_status EXCEPT ![e] = "RUNNABLE"]
      /\ env_sched_list' = TAILQ_INSERT_TAIL(env_sched_list, e)
      /\ env_ipc_value' = [env_ipc_value EXCEPT ![e] = uval[p]]
      /\ env_ipc_from' = [env_ipc_from EXCEPT ![e] = env_id[p]]
      /\ env_ipc_recving' = [env_ipc_recving EXCEPT ![e] = 0]
      /\ inbox' = [inbox EXCEPT ![e] = IF inbox[e] = NoMsg
                                       THEN [from |-> env_id[p], value |-> uval[p]]
                                       ELSE inbox[e]]
      /\ UNCHANGED <<env_id, env_parent_id, env_pri, env_asid, env_exit_status,
                     allocVars, curenv, count, panic, kids>>
  BY <1>5 DEF IpcTrySend, Return, Goto, Deliver
<1>7. env_sched_list' \in TailqType /\ QueueInv(env_sched_list', env_status', p)
  BY <1>0, <1>1, <1>2, <1>4, <1>6, WakeQueue DEF TypeOK
<1> HIDE DEF e
<1>8. TypeOK'
  <2>1. env_status' \in [Env -> Status]
    BY <1>0, <1>6 DEF TypeOK, Status
  <2>2. uval' \in [Env -> Word] /\ uarg' \in [Env -> EnvId \cup {NoId}]
        /\ upc' \in [Env -> {"run", "setup", "dying", "wait", "reap", "recv", "send"}]
    BY <1>0, <1>6 DEF TypeOK, Word
  <2>3. /\ env_ipc_value' \in [Env -> Word]
        /\ env_ipc_from' \in [Env -> EnvId \cup {NoId}]
        /\ env_ipc_recving' \in [Env -> {0, 1}]
    BY <1>0, <1>6 DEF TypeOK
  <2>4. inbox' \in [Env -> [from : EnvId \cup {NoId}, value : Word]]
    <3>1. [from |-> env_id[p], value |-> uval[p]] \in [from : EnvId \cup {NoId}, value : Word]
      BY <1>0 DEF TypeOK
    <3>2. inbox \in [Env -> [from : EnvId \cup {NoId}, value : Word]]
      BY <1>0 DEF TypeOK
    <3> QED BY <3>1, <3>2, <1>2, <1>6
  <2> QED BY <2>1, <2>2, <2>3, <2>4, <1>0, <1>6, <1>7 DEF TypeOK
<1>9. IdsOk' /\ FreeListOk'
  <2>1. IdsOk'
    BY <1>0, <1>2, <1>4, <1>6 DEF IdsOk, TypeOK
  <2>2. \A i \in 1 .. Len(env_free_list) : env_free_list[i] \in Env
    BY <1>0, ElementOfSeq DEF TypeOK
  <2>3. FreeListOk'
    BY <2>2, <1>0, <1>2, <1>4, <1>6 DEF FreeListOk, TypeOK
  <2> QED BY <2>1, <2>3
<1>10. SetupOk'
  <2> SUFFICES ASSUME NEW q \in Env, env_status'[q] = "RUNNABLE", upc'[q] = "setup"
               PROVE  LET d == ENVX(uarg'[q])
                      IN  /\ env_id'[d] = uarg'[q] /\ env_parent_id'[d] = env_id'[q]
                          /\ env_status'[d] = "NOT_RUNNABLE" /\ upc'[d] = "run"
    BY DEF SetupOk
  <2>1. q # p /\ q # e /\ uarg'[q] = uarg[q] /\ upc[q] = "setup" /\ env_status[q] = "RUNNABLE"
    BY <1>0, <1>2, <1>4, <1>6 DEF TypeOK
  <2>2. ENVX(uarg[q]) # e /\ ENVX(uarg[q]) # p
    BY <2>1, <1>0, <1>1, <1>4 DEF SetupOk
  <2>3. upc'[ENVX(uarg[q])] = upc[ENVX(uarg[q])]
        /\ env_status'[ENVX(uarg[q])] = env_status[ENVX(uarg[q])]
    BY <2>2, <1>6
  <2> QED BY <2>1, <2>3, <1>0, <1>6 DEF SetupOk
<1>11. RecvingMeansBlocked'
  BY <1>0, <1>1, <1>2, <1>4, <1>6 DEF RecvingMeansBlocked, TypeOK
<1>12. QueueOk' /\ EnvRunAssertHolds'
  BY <1>0, <1>6, <1>7 DEF QueueOk, EnvRunAssertHolds
<1> QED BY <1>8, <1>9, <1>10, <1>11, <1>12 DEF SchedInv

(* Every step of the system preserves SchedInv.                            *)
LEMMA NextSchedInv ==
  ASSUME SchedInv, [Next]_vars
  PROVE  SchedInv'
<1>1. CASE EnvCreate
  BY <1>1, CreateStep
<1>2. CASE Tick
  BY <1>2, YieldStep DEF Tick
<1>3. ASSUME NEW p \in Env, UserStep(p) PROVE SchedInv'
  <2>1. CASE SysYield(p) \/ WaitYield(p) \/ IpcSendRetry(p)
    BY <2>1, YieldStep DEF SysYield, WaitYield, IpcSendRetry, In, Runs
  <2>2. CASE \E status \in Statuses \cup {1} : SysExit(p, status)
    BY <2>2, ExitStep
  <2>3. CASE SysExofork(p)
    BY <2>3, ExoforkStep
  <2>4. CASE StartChild(p)
    BY <2>4, StartStep
  <2>5. CASE WaitReap(p)
    BY <2>5, ReapStep
  <2>6. CASE SysIpcRecv(p)
    BY <2>6, RecvStep
  <2>7. CASE IpcTrySend(p)
    BY <2>7, SendStep
  <2>8. CASE \/ AbandonChild(p) \/ WaitCall(p) \/ WaitDone(p) \/ IpcRecvReturn(p)
             \/ IpcSendCall(p) \/ IpcSendBadEnv(p)
    BY <2>8, UserOnlySteps
  <2> QED BY <1>3, <2>1, <2>2, <2>3, <2>4, <2>5, <2>6, <2>7, <2>8 DEF UserStep
<1>4. CASE Halted \/ UNCHANGED vars
  <2>1. UNCHANGED vars
    BY <1>4 DEF Halted
  <2>2. TypeOK' /\ IdsOk' /\ FreeListOk'
    BY <2>1 DEF SchedInv, TypeOK, IdsOk, FreeListOk, vars, envVars, ipcVars, allocVars, schedVars, userVars
  <2>3. SetupOk' /\ RecvingMeansBlocked'
    BY <2>1 DEF SchedInv, SetupOk, RecvingMeansBlocked, vars, envVars, ipcVars, userVars
  <2>4. QueueOk' /\ EnvRunAssertHolds'
    BY <2>1 DEF SchedInv, QueueOk, EnvRunAssertHolds, vars, envVars, schedVars, userVars
  <2> QED BY <2>2, <2>3, <2>4 DEF SchedInv
<1> QED BY <1>1, <1>2, <1>3, <1>4 DEF Next

(* SchedInv is an invariant of the kernel, for any number of slots, ASIDs, *)
(* pages and environments created.                                         *)
THEOREM SchedInvariant == Spec => []SchedInv
BY InitSchedInv, NextSchedInv, PTL DEF Spec, TimerSpec

(* The variables keep their types: in particular every pointer of the run  *)
(* queue stays a slot, &tqh_first or NULL.                                 *)
THEOREM TypeCorrect == Spec => []TypeOK
<1>1. SchedInv => TypeOK
  BY DEF SchedInv
<1> QED BY <1>1, SchedInvariant, PTL

(* The assertion at env.c:503 never fails.                                 *)
THEOREM EnvRunSafe == Spec => []EnvRunAssertHolds
<1>1. SchedInv => EnvRunAssertHolds
  BY DEF SchedInv
<1> QED BY <1>1, SchedInvariant, PTL

(* From curenv on, the run queue links every RUNNABLE env once and nothing *)
(* else, although reaping a zombie runs TAILQ_REMOVE on its stale links.   *)
THEOREM NoRunnableLost == Spec => []RunQueueComplete
<1>1. SchedInv => RunQueueComplete
  BY DEF SchedInv, QueueOk, QueueInv, RunQueueComplete
<1> QED BY <1>1, SchedInvariant, PTL

(* env_ipc_recving is set only while its env is blocked in sys_ipc_recv.   *)
THEOREM OnlyBlockedReceive == Spec => []RecvingMeansBlocked
<1>1. SchedInv => RecvingMeansBlocked
  BY DEF SchedInv
<1> QED BY <1>1, SchedInvariant, PTL

(* The head of the queue after schedule has moved curenv to its tail.      *)
LEMMA RotateFirst ==
  ASSUME NEW q \in TailqType, NEW st \in [Env -> Status], curenv \in Env,
         QueueInv(q, st, curenv),
         NEW e \in Env \ {curenv}, st[e] = "RUNNABLE"
  PROVE  Rotate(q, st).first \in Env \ {curenv}
<1>0. PICK n \in 1 .. NENV : \E s \in [1 .. n -> Env] :
         s[1] = curenv /\ IsRunQueue(q, st, s, n)
  BY DEF QueueInv, RunQueueFrom
<1>1. PICK s \in [1 .. n -> Env] : s[1] = curenv /\ IsRunQueue(q, st, s, n)
  BY <1>0
<1>2. n \in Nat \ {0} /\ Chain(q, s, n)
  BY <1>1, EnvAssumption DEF IsRunQueue
<1>3. PICK i \in 1 .. n : s[i] = e
  BY <1>1 DEF IsRunQueue
<1>4. 1 < n /\ i # 1
  BY <1>1, <1>2, <1>3
<1>5. q.next[curenv] = s[2] /\ s[2] # curenv /\ s[2] \in Env
  <2>1. 1 \in 1 .. n - 1 /\ 1 \in 1 .. n /\ 2 \in 1 .. n
    BY <1>2, <1>4
  <2> QED BY <1>1, <1>2, <2>1 DEF Chain
<1>6. st[curenv] = "RUNNABLE"
  BY <1>1, <1>2 DEF IsRunQueue
<1> DEFINE m == TAILQ_REMOVE(q, curenv)
<1>7. m.first = s[2] /\ m.last # HEAD
  <2>1. q.prev[curenv] = HEAD /\ s[2] # NULL
    BY <1>5, PtrAssumption DEF QueueInv
  <2>2. q.last = s[n] /\ s[n] \in Env
    BY <1>2 DEF Chain
  <2> QED BY <2>1, <2>2, <1>5, PtrAssumption DEF TAILQ_REMOVE
<1>8. Rotate(q, st) = TAILQ_INSERT_TAIL(m, curenv)
  BY <1>6, PtrAssumption DEF Rotate
<1> HIDE DEF m
<1>9. TAILQ_INSERT_TAIL(m, curenv).first = s[2]
  BY <1>7 DEF TAILQ_INSERT_TAIL
<1> QED BY <1>5, <1>8, <1>9

(* The step property under YieldGivesWay.                                  *)
YieldStepGivesWay ==
  \A p \in Env :
    /\ SysYield(p) \/ WaitYield(p) \/ IpcSendRetry(p)
    /\ \E e \in Env \ {p} : env_status[e] = "RUNNABLE"
    => curenv' # p

(* schedule(1) runs another env if there is one.                           *)
LEMMA YieldSwitches == SchedInv => YieldStepGivesWay
<1> SUFFICES ASSUME SchedInv, NEW p \in Env,
                    SysYield(p) \/ WaitYield(p) \/ IpcSendRetry(p),
                    NEW e \in Env \ {p}, env_status[e] = "RUNNABLE"
             PROVE  curenv' # p
  BY DEF YieldStepGivesWay
<1>1. Runs(p) /\ curenv = p /\ Schedule(TRUE, env_sched_list, env_status)
  BY DEF SysYield, WaitYield, IpcSendRetry, In, Runs
<1>2. QueueInv(env_sched_list, env_status, p)
  BY <1>1, RunningIsRunnable
<1> DEFINE r == Rotate(env_sched_list, env_status)
<1>3. r.first \in Env \ {p}
  BY <1>1, <1>2, RotateFirst DEF SchedInv, TypeOK
<1>4. r.first \in Env /\ env_status[r.first] = "RUNNABLE"
  BY <1>1, <1>2, RotateQueue DEF SchedInv, TypeOK
<1> HIDE DEF r
<1>5. curenv' = r.first
  BY <1>1, <1>4, PtrAssumption DEF Schedule, Switches, EnvRun, r
<1> QED BY <1>3, <1>5

(* An env that yields makes way for another RUNNABLE one (sched.c:8-10).   *)
THEOREM YieldIsFair == Spec => YieldGivesWay
<1>1. SchedInv /\ [Next]_vars => [YieldStepGivesWay]_vars
  BY YieldSwitches
<1>2. YieldGivesWay <=> [][YieldStepGivesWay]_vars
  BY DEF YieldGivesWay, YieldStepGivesWay
<1> QED BY SchedInvariant, <1>1, <1>2, PTL DEF Spec, TimerSpec

-----------------------------------------------------------------------------
(* The life of an environment: its ASID, its message, its parent that      *)
(* waits for it.  These proofs rest on SchedInv and on LifeInv, which is   *)
(* inductive together with it.                                             *)

(* ENVX of any id a library routine may hold is a slot.                    *)
LEMMA EnvxType ==
  ASSUME NEW id \in EnvId \cup {NoId}
  PROVE  ENVX(id) \in Env
BY EnvAssumption DEF ENVX, EnvId, NoId, Env

(* schedule never takes the CPU away from everyone.                        *)
LEMMA ScheduleKeepsRunning ==
  ASSUME NEW yield, NEW q, NEW st, curenv # NULL, Schedule(yield, q, st)
  PROVE  curenv' # NULL
BY DEF Schedule, EnvRun

(* Two slots in use have different ids, so an env has one parent at most.  *)
LEMMA IdsDistinct ==
  ASSUME IdsOk, NEW d \in Env, NEW e \in Env,
         env_status[d] # "FREE", env_status[e] # "FREE", env_id[d] = env_id[e]
  PROVE  d = e
<1>1. ENVX(env_id[d]) = d /\ ENVX(env_id[e]) = e
  BY DEF IdsOk
<1> QED BY <1>1

-----------------------------------------------------------------------------
(* Steps after which each conjunct of LifeInv holds because nothing it     *)
(* depends on has changed.                                                 *)

(* Neither an ASID nor the set of slots in use changes.                    *)
LEMMA AsidsFrame ==
  ASSUME AsidsExclusive, UNCHANGED <<env_asid, asid_bitmap>>,
         \A e \in Env : env_status'[e] = "FREE" <=> env_status[e] = "FREE"
  PROVE  AsidsExclusive'
<1>1. {e \in Env : env_status'[e] # "FREE"} = {e \in Env : env_status[e] # "FREE"}
  OBVIOUS
<1> QED BY <1>1 DEF AsidsExclusive

(* No env is freed, no zombie changes, no env enters or continues a        *)
(* routine of its parent with another child.                               *)
LEMMA KidsFrame ==
  ASSUME TypeOK, KidsOk, UNCHANGED <<env_id, env_parent_id, kids>>,
         \A e \in Env : env_status'[e] = "FREE" <=> env_status[e] = "FREE",
         \A e \in Env : env_status[e] = "ZOMBIE" =>
            env_status'[e] = "ZOMBIE" /\ env_exit_status'[e] = env_exit_status[e],
         \A p \in Env : upc'[p] \in {"setup", "wait", "reap"} =>
            upc'[p] = upc[p] /\ uarg'[p] = uarg[p] /\ uval'[p] = uval[p]
  PROVE  KidsOk'
<1> SUFFICES ASSUME NEW p \in Env, env_status'[p] # "FREE"
             PROVE  /\ \A id \in kids[p] : ChildOf(p, id)'
                    /\ upc'[p] \in {"setup", "wait", "reap"} =>
                         ChildOf(p, uarg[p])' /\ uarg'[p] \notin kids[p]
                    /\ upc'[p] = "reap" =>
                         LET c == ENVX(uarg'[p])
                         IN  env_status'[c] = "ZOMBIE" /\ env_exit_status'[c] = uval'[p]
  BY DEF KidsOk, ChildOf
<1>1. \A id \in EnvId \cup {NoId} : ChildOf(p, id) => ChildOf(p, id)'
  <2> SUFFICES ASSUME NEW id \in EnvId \cup {NoId}, ChildOf(p, id) PROVE ChildOf(p, id)'
    OBVIOUS
  <2>1. ENVX(id) \in Env
    BY EnvxType
  <2> QED BY <2>1 DEF ChildOf, ENVX
<1>2. kids[p] \subseteq EnvId /\ uarg[p] \in EnvId \cup {NoId}
  BY DEF TypeOK
<1>3. ENVX(uarg[p]) \in Env
  BY <1>2, EnvxType
<1> QED BY <1>1, <1>2, <1>3 DEF KidsOk

(* No message is delivered and no env starts to receive.                   *)
LEMMA InboxFrame ==
  ASSUME InboxOk, DeliveredIntact, UNCHANGED ipcVars,
         \A e \in Env : env_status'[e] = "RUNNABLE" /\ upc'[e] = "recv" =>
            env_status[e] = "RUNNABLE" /\ upc[e] = "recv"
  PROVE  InboxOk' /\ DeliveredIntact'
BY DEF InboxOk, DeliveredIntact, ipcVars

(* The steps that only call schedule.                                      *)
LEMMA YieldLife ==
  ASSUME SchedInv, LifeInv, UNCHANGED <<envVars, ipcVars, allocVars, userVars>>,
         curenv' = NULL => curenv = NULL
  PROVE  LifeInv'
<1> USE DEF envVars, allocVars, userVars
<1>1. KidsOk'
  BY KidsFrame DEF SchedInv, LifeInv
<1>2. BootKidsOk'
  BY DEF LifeInv, BootKidsOk
<1>3. InboxOk' /\ DeliveredIntact'
  BY InboxFrame DEF LifeInv
<1>4. AsidsExclusive'
  BY AsidsFrame DEF LifeInv
<1> QED BY <1>1, <1>2, <1>3, <1>4 DEF LifeInv

(* The library routines that end, or go to a loop of ipc_send.             *)
LEMMA LocalLife ==
  ASSUME SchedInv, LifeInv, NEW p \in Env, Runs(p),
         NEW where \in {"run", "dying", "send"},
         upc' = [upc EXCEPT ![p] = where],
         \A q \in Env \ {p} : uarg'[q] = uarg[q] /\ uval'[q] = uval[q],
         UNCHANGED <<env_status, env_id, env_parent_id, env_asid, env_exit_status, ipcVars,
                     asid_bitmap, curenv, kids>>
  PROVE  LifeInv'
<1>0. TypeOK /\ curenv # NULL
  BY PtrAssumption DEF SchedInv, Runs
<1>1. \A q \in Env : upc'[q] = IF q = p THEN where ELSE upc[q]
  BY <1>0 DEF TypeOK
<1>2. KidsOk'
  <2>1. \A q \in Env : upc'[q] \in {"setup", "wait", "reap"} =>
           upc'[q] = upc[q] /\ uarg'[q] = uarg[q] /\ uval'[q] = uval[q]
    BY <1>1
  <2> QED BY <1>0, <2>1, KidsFrame DEF LifeInv
<1>3. BootKidsOk'
  BY <1>0 DEF BootKidsOk
<1>4. InboxOk' /\ DeliveredIntact'
  BY <1>1, InboxFrame DEF LifeInv
<1>5. AsidsExclusive'
  BY AsidsFrame DEF LifeInv
<1> QED BY <1>2, <1>3, <1>4, <1>5 DEF LifeInv

(* exit(status): the env becomes a zombie and keeps its slot.              *)
LEMMA ExitLife ==
  ASSUME SchedInv, LifeInv, NEW p \in Env, NEW status, SysExit(p, status)
  PROVE  LifeInv'
<1>0. TypeOK /\ Runs(p) /\ curenv # NULL /\ curenv = p /\ upc[p] \in {"run", "dying"}
  BY PtrAssumption DEF SchedInv, SysExit, In, Runs
<1>1. env_status[p] = "RUNNABLE"
  BY <1>0, RunningIsRunnable
<1>2. /\ env_status' = [env_status EXCEPT ![p] = "ZOMBIE"]
      /\ env_exit_status' = [env_exit_status EXCEPT ![p] = status]
      /\ UNCHANGED <<env_id, env_parent_id, env_asid, ipcVars, asid_bitmap, userVars>>
      /\ curenv' # NULL
  BY <1>0, ScheduleKeepsRunning DEF SysExit, allocVars
<1>3. KidsOk'
  BY <1>0, <1>1, <1>2, KidsFrame DEF LifeInv, TypeOK, userVars
<1>4. BootKidsOk'
  BY <1>2 DEF BootKidsOk
<1>5. InboxOk' /\ DeliveredIntact'
  BY <1>0, <1>1, <1>2, InboxFrame DEF LifeInv, TypeOK, userVars
<1>6. AsidsExclusive'
  BY <1>0, <1>1, <1>2, AsidsFrame DEF LifeInv, TypeOK
<1> QED BY <1>3, <1>4, <1>5, <1>6 DEF LifeInv

(* sys_ipc_recv: the receiver's inbox is empty until it is woken.          *)
LEMMA RecvLife ==
  ASSUME SchedInv, LifeInv, NEW p \in Env, SysIpcRecv(p)
  PROVE  LifeInv'
<1>0. TypeOK /\ Runs(p) /\ curenv # NULL /\ curenv = p /\ upc[p] = "run"
  BY PtrAssumption DEF SchedInv, SysIpcRecv, In, Runs
<1>1. env_status[p] = "RUNNABLE"
  BY <1>0, RunningIsRunnable
<1>2. /\ env_status' = [env_status EXCEPT ![p] = "NOT_RUNNABLE"]
      /\ env_ipc_recving' = [env_ipc_recving EXCEPT ![p] = 1]
      /\ inbox' = [inbox EXCEPT ![p] = NoMsg]
      /\ upc' = [upc EXCEPT ![p] = "recv"]
      /\ UNCHANGED <<env_id, env_parent_id, env_asid, env_exit_status, env_ipc_from,
                     env_ipc_value, asid_bitmap, uarg, uval, kids>>
      /\ curenv' # NULL
  BY <1>0, ScheduleKeepsRunning DEF SysIpcRecv, allocVars, Goto
<1>3. KidsOk'
  BY <1>0, <1>1, <1>2, KidsFrame DEF LifeInv, TypeOK
<1>4. BootKidsOk'
  BY <1>2 DEF BootKidsOk
<1>5. InboxOk' /\ DeliveredIntact'
  <2>1. InboxOk'
    BY <1>0, <1>2 DEF LifeInv, InboxOk, TypeOK
  <2>2. DeliveredIntact'
    BY <1>0, <1>2 DEF LifeInv, DeliveredIntact, TypeOK
  <2> QED BY <2>1, <2>2
<1>6. AsidsExclusive'
  BY <1>0, <1>1, <1>2, AsidsFrame DEF LifeInv, TypeOK
<1> QED BY <1>3, <1>4, <1>5, <1>6 DEF LifeInv

(* sys_ipc_try_send: the receiver had no message, so this is the first.    *)
LEMMA SendLife ==
  ASSUME SchedInv, LifeInv, NEW p \in Env, IpcTrySend(p)
  PROVE  LifeInv'
<1> DEFINE e == ENVX(uarg[p])
<1>0. TypeOK /\ RecvingMeansBlocked /\ Runs(p) /\ curenv # NULL /\ curenv = p
  BY PtrAssumption DEF SchedInv, IpcTrySend, In, Runs
<1>1. env_status[p] = "RUNNABLE"
  BY <1>0, RunningIsRunnable
<1>2. e \in Env
  BY <1>0, EnvxType DEF TypeOK
<1>3. env_ipc_recving[e] = 1 /\ inbox[e] = NoMsg
  BY <1>2 DEF IpcTrySend, IpcReady, LifeInv, InboxOk
<1>4. env_status[e] = "NOT_RUNNABLE" /\ upc[e] = "recv" /\ e # p
  BY <1>0, <1>1, <1>2, <1>3 DEF RecvingMeansBlocked
<1>5. PICK where \in {"run", "dying"} : Return(p, where)
  BY DEF IpcTrySend
<1>6. /\ upc' = [upc EXCEPT ![p] = where]
      /\ uarg' = [uarg EXCEPT ![p] = NoId]
      /\ uval' = [uval EXCEPT ![p] = 0]
      /\ env_status' = [env_status EXCEPT ![e] = "RUNNABLE"]
      /\ env_ipc_value' = [env_ipc_value EXCEPT ![e] = uval[p]]
      /\ env_ipc_from' = [env_ipc_from EXCEPT ![e] = env_id[p]]
      /\ env_ipc_recving' = [env_ipc_recving EXCEPT ![e] = 0]
      /\ inbox' = [inbox EXCEPT ![e] = [from |-> env_id[p], value |-> uval[p]]]
      /\ UNCHANGED <<env_id, env_parent_id, env_asid, env_exit_status, asid_bitmap,
                     curenv, kids>>
  BY <1>3, <1>5 DEF IpcTrySend, Return, Goto, Deliver, allocVars
<1> HIDE DEF e
<1>7. KidsOk'
  BY <1>0, <1>2, <1>4, <1>6, KidsFrame DEF LifeInv, TypeOK
<1>8. BootKidsOk'
  BY <1>0, <1>6 DEF BootKidsOk
<1>9. InboxOk'
  BY <1>0, <1>2, <1>6 DEF LifeInv, InboxOk, TypeOK
<1>10. DeliveredIntact'
  <2> SUFFICES ASSUME NEW d \in Env, env_status'[d] = "RUNNABLE", upc'[d] = "recv"
               PROVE  inbox'[d] = [from |-> env_ipc_from'[d], value |-> env_ipc_value'[d]]
    BY DEF DeliveredIntact
  <2>1. CASE d = e
    BY <2>1, <1>0, <1>2, <1>6 DEF TypeOK
  <2>2. CASE d # e
    <3>1. env_status[d] = "RUNNABLE" /\ upc[d] = "recv"
      BY <2>2, <1>0, <1>6 DEF TypeOK
    <3> QED BY <3>1, <2>2, <1>0, <1>6 DEF LifeInv, DeliveredIntact, TypeOK
  <2> QED BY <2>1, <2>2
<1>11. AsidsExclusive'
  BY <1>0, <1>2, <1>4, <1>6, AsidsFrame DEF LifeInv, TypeOK
<1> QED BY <1>7, <1>8, <1>9, <1>10, <1>11 DEF LifeInv

(* The end of fork or spawn: the child joins the ids to wait for.          *)
LEMMA StartLife ==
  ASSUME SchedInv, LifeInv, NEW p \in Env, StartChild(p)
  PROVE  LifeInv'
<1> DEFINE c == ENVX(uarg[p])
<1>0. TypeOK /\ SetupOk /\ Runs(p) /\ curenv # NULL /\ curenv = p /\ upc[p] = "setup"
  BY PtrAssumption DEF SchedInv, StartChild, In, Runs
<1>1. env_status[p] = "RUNNABLE"
  BY <1>0, RunningIsRunnable
<1>2. c \in Env /\ env_status[c] = "NOT_RUNNABLE" /\ upc[c] = "run"
  BY <1>0, <1>1, EnvxType DEF SetupOk, TypeOK
<1>3. /\ env_status' = [env_status EXCEPT ![c] = "RUNNABLE"]
      /\ upc' = [upc EXCEPT ![p] = "run"]
      /\ uarg' = [uarg EXCEPT ![p] = NoId]
      /\ uval' = [uval EXCEPT ![p] = 0]
      /\ kids' = [kids EXCEPT ![p] = kids[p] \cup {uarg[p]}]
      /\ UNCHANGED <<env_id, env_parent_id, env_asid, env_exit_status, ipcVars,
                     asid_bitmap, curenv>>
  BY DEF StartChild, SysSetEnvStatus, Return, Goto, allocVars
<1> HIDE DEF c
<1>4. KidsOk'
  <2> SUFFICES ASSUME NEW q \in Env, env_status'[q] # "FREE"
               PROVE  /\ \A id \in kids'[q] : ChildOf(q, id)'
                      /\ upc'[q] \in {"setup", "wait", "reap"} =>
                           ChildOf(q, uarg[q])' /\ uarg'[q] \notin kids'[q]
                      /\ upc'[q] = "reap" =>
                           LET d == ENVX(uarg'[q])
                           IN  env_status'[d] = "ZOMBIE" /\ env_exit_status'[d] = uval'[q]
    BY DEF KidsOk, ChildOf
  <2>1. env_status[q] # "FREE"
    BY <1>0, <1>2, <1>3 DEF TypeOK
  <2>2. \A id \in EnvId \cup {NoId} : ChildOf(q, id) => ChildOf(q, id)'
    <3> SUFFICES ASSUME NEW id \in EnvId \cup {NoId}, ChildOf(q, id) PROVE ChildOf(q, id)'
      OBVIOUS
    <3>1. ENVX(id) \in Env
      BY EnvxType
    <3> QED BY <3>1, <1>0, <1>2, <1>3 DEF ChildOf, ENVX, TypeOK
  <2>3. kids[q] \subseteq EnvId /\ uarg[q] \in EnvId \cup {NoId}
    BY <1>0 DEF TypeOK
  <2>4. CASE q = p
    <3>1. kids'[q] = kids[q] \cup {uarg[q]} /\ upc'[q] = "run"
      BY <2>4, <1>0, <1>3 DEF TypeOK
    <3>2. ChildOf(q, uarg[q]) /\ \A id \in kids[q] : ChildOf(q, id)
      BY <2>1, <2>4, <1>0 DEF LifeInv, KidsOk
    <3> QED BY <3>1, <3>2, <2>2, <2>3
  <2>5. CASE q # p
    <3>1. kids'[q] = kids[q] /\ upc'[q] = upc[q] /\ uarg'[q] = uarg[q] /\ uval'[q] = uval[q]
      BY <2>5, <1>0, <1>3 DEF TypeOK
    <3>2. ENVX(uarg[q]) \in Env
      BY <2>3, EnvxType
    <3>3. upc[q] = "reap" => env_status'[ENVX(uarg[q])] = env_status[ENVX(uarg[q])]
      BY <2>1, <3>2, <1>0, <1>2, <1>3 DEF LifeInv, KidsOk, TypeOK
    <3>4. ChildOf(q, uarg[q]) => ChildOf(q, uarg[q])'
      BY <3>1, <3>2, <1>0, <1>2, <1>3 DEF ChildOf, TypeOK
    <3> QED BY <3>1, <3>3, <3>4, <2>1, <2>2, <2>3, <1>3 DEF LifeInv, KidsOk
  <2> QED BY <2>4, <2>5
<1>5. BootKidsOk'
  BY <1>0, <1>3 DEF BootKidsOk
<1>6. InboxOk' /\ DeliveredIntact'
  <2>1. \A e \in Env : env_status'[e] = "RUNNABLE" /\ upc'[e] = "recv" =>
           env_status[e] = "RUNNABLE" /\ upc[e] = "recv"
    BY <1>0, <1>2, <1>3 DEF TypeOK
  <2> QED BY <2>1, <1>3, InboxFrame DEF LifeInv
<1>7. AsidsExclusive'
  BY <1>0, <1>2, <1>3, AsidsFrame DEF LifeInv, TypeOK
<1> QED BY <1>4, <1>5, <1>6, <1>7 DEF LifeInv

(* wait begins: the id leaves the ids to wait for.  wait sees the zombie:  *)
(* the status it remembers is that of the child.                           *)
LEMMA WaitLife ==
  ASSUME SchedInv, LifeInv, NEW p \in Env, WaitCall(p) \/ WaitDone(p)
  PROVE  LifeInv'
<1>0. TypeOK /\ Runs(p) /\ curenv # NULL /\ curenv = p
      /\ UNCHANGED <<env_status, env_id, env_parent_id, env_asid, env_exit_status, ipcVars,
                     asid_bitmap, curenv>>
  BY PtrAssumption DEF SchedInv, WaitCall, WaitDone, In, Runs, envVars, allocVars, schedVars
<1>1. env_status[p] = "RUNNABLE"
  BY <1>0, RunningIsRunnable
<1>2. PICK where \in {"run", "wait", "reap"} : upc' = [upc EXCEPT ![p] = where]
  BY DEF WaitCall, WaitDone, Goto, Return
<1>3. BootKidsOk'
  BY <1>0 DEF BootKidsOk
<1>4. InboxOk' /\ DeliveredIntact'
  BY <1>0, <1>2, InboxFrame DEF LifeInv, TypeOK
<1>5. AsidsExclusive'
  BY <1>0, AsidsFrame DEF LifeInv
<1>6. KidsOk'
  <2> SUFFICES ASSUME NEW q \in Env, env_status[q] # "FREE"
               PROVE  /\ \A id \in kids'[q] : ChildOf(q, id)
                      /\ upc'[q] \in {"setup", "wait", "reap"} =>
                           ChildOf(q, uarg'[q]) /\ uarg'[q] \notin kids'[q]
                      /\ upc'[q] = "reap" =>
                           LET d == ENVX(uarg'[q])
                           IN  env_status[d] = "ZOMBIE" /\ env_exit_status[d] = uval'[q]
    BY <1>0 DEF KidsOk, ChildOf
  <2>1. CASE q # p
    <3>1. kids'[q] = kids[q] /\ upc'[q] = upc[q] /\ uarg'[q] = uarg[q] /\ uval'[q] = uval[q]
      BY <2>1, <1>0 DEF TypeOK, WaitCall, WaitDone, Return, Goto
    <3> QED BY <3>1 DEF LifeInv, KidsOk
  <2>2. CASE q = p /\ WaitCall(p)
    <3>1. PICK id \in kids[p] :
            /\ uarg' = [uarg EXCEPT ![p] = id]
            /\ kids' = [kids EXCEPT ![p] = kids[p] \ {id}]
            /\ upc' = [upc EXCEPT ![p] = "wait"]
      BY <2>2 DEF WaitCall, Goto
    <3>2. uarg'[q] = id /\ kids'[q] = kids[q] \ {id} /\ upc'[q] = "wait"
      BY <3>1, <2>2, <1>0 DEF TypeOK
    <3>3. \A i \in kids[q] : ChildOf(q, i)
      BY DEF LifeInv, KidsOk
    <3> QED BY <3>1, <3>2, <3>3, <2>2
  <2>3. CASE q = p /\ WaitDone(p)
    <3>1. kids' = kids /\ upc[q] = "wait"
      BY <2>3 DEF WaitDone, In
    <3>2. /\ \A i \in kids[q] : ChildOf(q, i)
          /\ ChildOf(q, uarg[q]) /\ uarg[q] \notin kids[q]
      BY <3>1 DEF LifeInv, KidsOk
    <3>3. CASE env_id[ENVX(uarg[p])] = uarg[p] /\ env_status[ENVX(uarg[p])] = "ZOMBIE"
      <4>1. /\ upc' = [upc EXCEPT ![p] = "reap"] /\ uarg' = uarg
            /\ uval' = [uval EXCEPT ![p] = env_exit_status[ENVX(uarg[p])]]
        BY <2>3, <3>3 DEF WaitDone, Goto
      <4> QED BY <4>1, <3>1, <3>2, <3>3, <2>3, <1>0 DEF TypeOK
    <3>4. CASE ~(env_id[ENVX(uarg[p])] = uarg[p] /\ env_status[ENVX(uarg[p])] = "ZOMBIE")
      <4>1. upc' = [upc EXCEPT ![p] = "run"]
        BY <2>3, <3>4 DEF WaitDone, Return, Goto
      <4> QED BY <4>1, <3>1, <3>2, <2>3, <1>0 DEF TypeOK
    <3> QED BY <3>3, <3>4
  <2> QED BY <2>1, <2>2, <2>3
<1> QED BY <1>3, <1>4, <1>5, <1>6 DEF LifeInv

(* A parent reaps: the slot and the ASID it frees are those of the child   *)
(* it waited for, which nobody else holds an id of.                        *)
LEMMA ReapLife ==
  ASSUME SchedInv, LifeInv, NEW p \in Env, WaitReap(p)
  PROVE  LifeInv'
<1> DEFINE z == ENVX(uarg[p])
<1>0. TypeOK /\ IdsOk /\ KidsOk /\ Runs(p) /\ curenv # NULL /\ curenv = p /\ upc[p] = "reap"
  BY PtrAssumption DEF SchedInv, LifeInv, WaitReap, In, Runs
<1>1. env_status[p] = "RUNNABLE"
  BY <1>0, RunningIsRunnable
<1>2. /\ z \in Env /\ env_status[z] = "ZOMBIE" /\ uarg[p] \notin kids[p]
      /\ env_id[z] = uarg[p] /\ env_parent_id[z] = env_id[p]
  BY <1>0, <1>1, EnvxType DEF KidsOk, ChildOf, TypeOK
<1>3. MayReap(uarg[p])
  BY <1>0, <1>2 DEF MayReap, Envid2envOk
<1>4. /\ env_status' = [env_status EXCEPT ![z] = "FREE"]
      /\ asid_bitmap' = asid_bitmap \ {env_asid[z]}
      /\ upc' = [upc EXCEPT ![p] = "run"]
      /\ uarg' = [uarg EXCEPT ![p] = NoId]
      /\ uval' = [uval EXCEPT ![p] = 0]
      /\ UNCHANGED <<env_id, env_parent_id, env_asid, env_exit_status, ipcVars, curenv, kids>>
  BY <1>3 DEF WaitReap, EnvFree, Return, Goto
<1> HIDE DEF z
<1>5. KidsOk'
  <2> SUFFICES ASSUME NEW q \in Env, env_status'[q] # "FREE"
               PROVE  /\ \A id \in kids[q] : ChildOf(q, id)'
                      /\ upc'[q] \in {"setup", "wait", "reap"} =>
                           ChildOf(q, uarg[q])' /\ uarg'[q] \notin kids[q]
                      /\ upc'[q] = "reap" =>
                           LET d == ENVX(uarg'[q])
                           IN  env_status'[d] = "ZOMBIE" /\ env_exit_status'[d] = uval'[q]
    BY <1>4 DEF KidsOk, ChildOf
  <2>1. env_status[q] # "FREE" /\ q # z
    BY <1>0, <1>2, <1>4 DEF TypeOK
  <2>2. \A id \in EnvId \cup {NoId} : ChildOf(q, id) /\ id # env_id[z] => ChildOf(q, id)'
    <3> SUFFICES ASSUME NEW id \in EnvId \cup {NoId}, ChildOf(q, id), id # env_id[z]
                 PROVE  ChildOf(q, id)'
      OBVIOUS
    <3>1. ENVX(id) \in Env /\ ENVX(id) # z
      BY EnvxType DEF ChildOf
    <3> QED BY <3>1, <1>0, <1>4 DEF ChildOf, ENVX, TypeOK
  <2>3. kids[q] \subseteq EnvId /\ uarg[q] \in EnvId \cup {NoId}
    BY <1>0 DEF TypeOK
  <2>4. \A id \in EnvId \cup {NoId} : ChildOf(q, id) /\ id = env_id[z] => q = p
    <3> SUFFICES ASSUME NEW id \in EnvId \cup {NoId}, ChildOf(q, id), id = env_id[z]
                 PROVE  q = p
      OBVIOUS
    <3>1. ENVX(id) = z
      BY <1>0, <1>2 DEF IdsOk
    <3>2. env_id[q] = env_id[p]
      BY <3>1, <1>2 DEF ChildOf
    <3> QED BY <3>2, <2>1, <1>0, <1>1, IdsDistinct
  <2>5. CASE q = p
    <3>1. upc'[q] = "run"
      BY <2>5, <1>0, <1>4 DEF TypeOK
    <3>2. \A id \in kids[q] : ChildOf(q, id) /\ id # env_id[z]
      BY <2>1, <2>5, <1>0, <1>2 DEF KidsOk
    <3> QED BY <3>1, <3>2, <2>2, <2>3
  <2>6. CASE q # p
    <3>1. upc'[q] = upc[q] /\ uarg'[q] = uarg[q] /\ uval'[q] = uval[q]
      BY <2>6, <1>0, <1>4 DEF TypeOK
    <3>2. \A id \in kids[q] : ChildOf(q, id) /\ id # env_id[z]
      BY <2>1, <2>3, <2>4, <2>6, <1>0 DEF KidsOk
    <3>3. CASE upc[q] \in {"setup", "wait", "reap"}
      <4>1. ChildOf(q, uarg[q]) /\ uarg[q] \notin kids[q] /\ uarg[q] # env_id[z]
        BY <3>3, <2>1, <2>3, <2>4, <2>6, <1>0 DEF KidsOk
      <4>2. ENVX(uarg[q]) \in Env /\ ENVX(uarg[q]) # z
        BY <4>1, <2>3, EnvxType DEF ChildOf
      <4>3. ChildOf(q, uarg[q])'
        BY <4>1, <4>2, <3>1, <1>0, <1>4 DEF ChildOf, TypeOK
      <4>4. env_status'[ENVX(uarg[q])] = env_status[ENVX(uarg[q])]
        BY <4>2, <1>0, <1>4 DEF TypeOK
      <4> QED BY <4>1, <4>3, <4>4, <3>1, <3>2, <2>1, <2>2, <2>3, <1>0, <1>4 DEF KidsOk
    <3>4. CASE upc[q] \notin {"setup", "wait", "reap"}
      BY <3>1, <3>2, <3>4, <2>2, <2>3
    <3> QED BY <3>3, <3>4
  <2> QED BY <2>5, <2>6
<1>6. BootKidsOk'
  BY <1>0, <1>4 DEF BootKidsOk
<1>7. InboxOk' /\ DeliveredIntact'
  <2>1. \A e \in Env : env_status'[e] = "RUNNABLE" /\ upc'[e] = "recv" =>
           env_status[e] = "RUNNABLE" /\ upc[e] = "recv"
    BY <1>0, <1>2, <1>4 DEF TypeOK
  <2> QED BY <2>1, <1>4, InboxFrame DEF LifeInv
<1>8. AsidsExclusive'
  <2>1. {e \in Env : env_status'[e] # "FREE"} = {e \in Env : env_status[e] # "FREE"} \ {z}
    BY <1>0, <1>2, <1>4 DEF TypeOK
  <2> DEFINE live == {e \in Env : env_status[e] # "FREE"}
  <2>2. z \in live /\ asid_bitmap = {env_asid[e] : e \in live}
        /\ \A d, e \in live : env_asid[d] = env_asid[e] => d = e
    BY <1>2 DEF LifeInv, AsidsExclusive
  <2> HIDE DEF live
  <2>3. {env_asid[e] : e \in live} \ {env_asid[z]} = {env_asid[e] : e \in live \ {z}}
    BY <2>2
  <2> QED BY <2>1, <2>2, <2>3, <1>4 DEF AsidsExclusive, live
<1> QED BY <1>5, <1>6, <1>7, <1>8 DEF LifeInv

(* env_alloc gives a slot an ASID no other one has.                        *)
LEMMA AllocAsids ==
  ASSUME TypeOK, FreeListOk, AsidsExclusive, NEW e \in Env, NEW parent, EnvAlloc(e, parent),
         NEW new \in {"RUNNABLE", "NOT_RUNNABLE"},
         env_status' = [env_status EXCEPT ![e] = new]
  PROVE  AsidsExclusive'
<1> DEFINE live == {d \in Env : env_status[d] # "FREE"}
<1>1. env_status[e] = "FREE"
  BY AllocFacts
<1>2. PICK a \in FreeAsids : asid_bitmap' = asid_bitmap \cup {a}
                             /\ env_asid' = [env_asid EXCEPT ![e] = a]
  BY DEF EnvAlloc, AsidAlloc
<1>3. a \notin asid_bitmap
  BY <1>2 DEF FreeAsids
<1>4. {d \in Env : env_status'[d] # "FREE"} = live \cup {e} /\ e \notin live
  BY <1>1 DEF TypeOK
<1>5. asid_bitmap = {env_asid[d] : d \in live}
      /\ \A c, d \in live : env_asid[c] = env_asid[d] => c = d
  BY DEF AsidsExclusive
<1>6. live \subseteq Env /\ \A d \in live : env_asid'[d] = env_asid[d]
  BY <1>2, <1>4 DEF TypeOK
<1>7. env_asid'[e] = a
  BY <1>2 DEF TypeOK
<1> HIDE DEF live
<1>8. {env_asid'[d] : d \in live \cup {e}} = asid_bitmap \cup {a}
  BY <1>5, <1>6, <1>7
<1>9. \A c, d \in live \cup {e} : env_asid'[c] = env_asid'[d] => c = d
  BY <1>3, <1>5, <1>6, <1>7
<1> QED BY <1>2, <1>4, <1>8, <1>9 DEF AsidsExclusive

(* env_alloc takes a slot that was free: no id in use names it.            *)
LEMMA AllocKids ==
  ASSUME SchedInv, NEW e \in Env, NEW parent, EnvAlloc(e, parent),
         \A d \in Env \ {e} : env_status'[d] = env_status[d]
  PROVE  \A q \in Env, id \in EnvId \cup {NoId} :
           q # e /\ ChildOf(q, id) =>
             /\ env_status'[ENVX(id)] = env_status[ENVX(id)]
             /\ env_status'[ENVX(id)] # "FREE"
             /\ env_id'[ENVX(id)] = id /\ env_parent_id'[ENVX(id)] = env_id'[q]
<1> SUFFICES ASSUME NEW q \in Env, NEW id \in EnvId \cup {NoId}, q # e, ChildOf(q, id)
             PROVE  /\ env_status'[ENVX(id)] = env_status[ENVX(id)]
                    /\ env_status'[ENVX(id)] # "FREE"
                    /\ env_id'[ENVX(id)] = id /\ env_parent_id'[ENVX(id)] = env_id'[q]
  OBVIOUS
<1>1. TypeOK /\ FreeListOk
  BY DEF SchedInv
<1>2. /\ env_status[e] = "FREE"
      /\ env_id' = [env_id EXCEPT ![e] = mkenvid(e)]
      /\ env_parent_id' = [env_parent_id EXCEPT ![e] = parent]
  BY <1>1, AllocFacts
<1>3. ENVX(id) \in Env /\ ENVX(id) # e
  BY <1>2, EnvxType DEF ChildOf
<1> QED BY <1>1, <1>2, <1>3 DEF ChildOf, TypeOK

(* sys_exofork: the new env has no children and no id in use names it.     *)
LEMMA ExoforkLife ==
  ASSUME SchedInv, LifeInv, NEW p \in Env, SysExofork(p)
  PROVE  LifeInv'
<1>0. TypeOK /\ FreeListOk /\ KidsOk /\ Runs(p) /\ curenv # NULL /\ curenv = p /\ upc[p] = "run"
  BY PtrAssumption DEF SchedInv, LifeInv, SysExofork, In, Runs
<1>1. env_status[p] = "RUNNABLE"
  BY <1>0, RunningIsRunnable
<1>2. CASE EnvAllocFails
  <2>1. ~ \E e \in Env : EnvAlloc(e, env_id[p])
    BY <1>2 DEF EnvAllocFails, EnvAlloc
  <2>2. PICK where \in {"run", "dying"} : upc' = [upc EXCEPT ![p] = where]
    BY <2>1 DEF SysExofork, Goto
  <2>3. UNCHANGED <<env_status, env_id, env_parent_id, env_asid, env_exit_status, ipcVars,
                    asid_bitmap, curenv, uarg, uval, kids>>
    BY <1>2, <2>1 DEF SysExofork, EnvAllocFails, envVars, schedVars
  <2> QED BY <2>2, <2>3, <1>0, LocalLife
<1>3. CASE ~EnvAllocFails
  <2>1. PICK e \in Env :
          /\ EnvAlloc(e, env_id[p])
          /\ env_status' = [env_status EXCEPT ![e] = "NOT_RUNNABLE"]
          /\ upc' = [upc EXCEPT ![p] = "setup", ![e] = "run"]
          /\ uarg' = [uarg EXCEPT ![p] = mkenvid(e)]
          /\ kids' = [kids EXCEPT ![e] = {}]
          /\ UNCHANGED <<uval, env_exit_status, curenv, ipcVars>>
    BY <1>3 DEF SysExofork, schedVars
  <2>2. /\ env_status[e] = "FREE"
        /\ mkenvid(e) \in EnvId /\ ENVX(mkenvid(e)) = e
        /\ env_id' = [env_id EXCEPT ![e] = mkenvid(e)]
        /\ env_parent_id' = [env_parent_id EXCEPT ![e] = env_id[p]]
    BY <2>1, <1>0, AllocFacts
  <2>3. e # p
    BY <2>2, <1>1
  <2>4. \A q \in Env, id \in EnvId \cup {NoId} :
           q # e /\ ChildOf(q, id) =>
             /\ env_status'[ENVX(id)] = env_status[ENVX(id)]
             /\ env_status'[ENVX(id)] # "FREE"
             /\ env_id'[ENVX(id)] = id /\ env_parent_id'[ENVX(id)] = env_id'[q]
    <3>1. \A d \in Env \ {e} : env_status'[d] = env_status[d]
      BY <2>1, <1>0 DEF TypeOK
    <3> QED BY <3>1, <2>1, AllocKids
  <2>5. KidsOk'
    <3> SUFFICES ASSUME NEW q \in Env, env_status'[q] # "FREE"
                 PROVE  /\ \A id \in kids'[q] : ChildOf(q, id)'
                        /\ upc'[q] \in {"setup", "wait", "reap"} =>
                             ChildOf(q, uarg[q])' /\ uarg'[q] \notin kids'[q]
                        /\ upc'[q] = "reap" =>
                             LET d == ENVX(uarg'[q])
                             IN  env_status'[d] = "ZOMBIE" /\ env_exit_status'[d] = uval'[q]
      BY DEF KidsOk, ChildOf
    <3>1. CASE q = e
      BY <3>1, <2>1, <2>3, <1>0 DEF TypeOK
    <3>2. CASE q # e
      <4>1. env_status[q] # "FREE" /\ kids'[q] = kids[q] /\ kids[q] \subseteq EnvId
            /\ uarg[q] \in EnvId \cup {NoId}
        BY <3>2, <2>1, <1>0 DEF TypeOK
      <4>2. \A id \in kids[q] : ChildOf(q, id)'
        <5> SUFFICES ASSUME NEW id \in kids[q] PROVE ChildOf(q, id)'
          OBVIOUS
        <5>1. ChildOf(q, id) /\ id \in EnvId \cup {NoId}
          BY <4>1, <1>0 DEF KidsOk
        <5>2. /\ env_status'[ENVX(id)] # "FREE"
              /\ env_id'[ENVX(id)] = id /\ env_parent_id'[ENVX(id)] = env_id'[q]
          BY <5>1, <3>2, <2>4
        <5> QED BY <5>2 DEF ChildOf, ENVX
      <4>3. CASE q = p
        <5>1. upc'[q] = "setup" /\ uarg'[q] = mkenvid(e) /\ env_id'[q] = env_id[q]
          BY <4>3, <2>1, <2>2, <2>3, <1>0 DEF TypeOK
        <5>2. ChildOf(q, uarg[q])'
          BY <5>1, <4>3, <2>1, <2>2, <1>0 DEF ChildOf, TypeOK
        <5>3. mkenvid(e) \notin kids[q]
          BY <4>1, <2>2, <1>0 DEF KidsOk, ChildOf
        <5> QED BY <5>1, <5>2, <5>3, <4>1, <4>2
      <4>4. CASE q # p
        <5>1. upc'[q] = upc[q] /\ uarg'[q] = uarg[q] /\ uval'[q] = uval[q]
          BY <4>4, <3>2, <2>1, <1>0 DEF TypeOK
        <5>2. CASE upc[q] \in {"setup", "wait", "reap"}
          <6>1. ChildOf(q, uarg[q]) /\ uarg[q] \notin kids[q]
            BY <5>2, <4>1, <1>0 DEF KidsOk
          <6>2. /\ env_status'[ENVX(uarg[q])] = env_status[ENVX(uarg[q])]
                /\ env_status'[ENVX(uarg[q])] # "FREE"
                /\ env_id'[ENVX(uarg[q])] = uarg[q]
                /\ env_parent_id'[ENVX(uarg[q])] = env_id'[q]
            BY <6>1, <4>1, <3>2, <2>4
          <6>3. ChildOf(q, uarg[q])'
            BY <6>2, <5>1 DEF ChildOf
          <6> QED BY <6>1, <6>2, <6>3, <5>1, <4>1, <4>2, <2>1, <1>0 DEF KidsOk
        <5>3. CASE upc[q] \notin {"setup", "wait", "reap"}
          BY <5>1, <5>3, <4>1, <4>2
        <5> QED BY <5>2, <5>3
      <4> QED BY <4>3, <4>4
    <3> QED BY <3>1, <3>2
  <2>6. BootKidsOk'
    BY <2>1, <1>0 DEF BootKidsOk
  <2>7. InboxOk' /\ DeliveredIntact'
    <3>1. \A d \in Env : env_status'[d] = "RUNNABLE" /\ upc'[d] = "recv" =>
             env_status[d] = "RUNNABLE" /\ upc[d] = "recv"
      BY <2>1, <1>0 DEF TypeOK
    <3> QED BY <3>1, <2>1, InboxFrame DEF LifeInv
  <2>8. AsidsExclusive'
    BY <2>1, <1>0, AllocAsids DEF LifeInv
  <2> QED BY <2>5, <2>6, <2>7, <2>8 DEF LifeInv
<1> QED BY <1>2, <1>3

(* ENV_CREATE at boot: no env has a child yet.                             *)
LEMMA CreateLife ==
  ASSUME SchedInv, LifeInv, EnvCreate
  PROVE  LifeInv'
<1>0. /\ TypeOK /\ FreeListOk /\ panic = "none" /\ curenv = NULL
      /\ \A e \in Env : upc[e] = "run" /\ kids[e] = {}
      /\ UNCHANGED <<ipcVars, userVars, curenv>>
  BY DEF SchedInv, LifeInv, EnvCreate, Booting, QueueOk, BootKidsOk, schedVars
<1>1. KidsOk'
  BY <1>0 DEF KidsOk, userVars
<1>2. BootKidsOk'
  BY <1>0 DEF BootKidsOk, userVars
<1>3. InboxOk' /\ DeliveredIntact'
  BY <1>0, InboxFrame DEF LifeInv, userVars
<1>4. AsidsExclusive'
  <2>1. CASE EnvAllocResult # "ok"
    <3>1. UNCHANGED <<env_status, env_asid, asid_bitmap>>
      BY <2>1 DEF EnvCreate, EnvAllocFails, envVars
    <3> QED BY <3>1, AsidsFrame DEF LifeInv
  <2>2. CASE EnvAllocResult = "ok"
    <3>1. PICK e \in Env : EnvAlloc(e, NoId)
                            /\ env_status' = [env_status EXCEPT ![e] = "RUNNABLE"]
      BY <2>2 DEF EnvCreate
    <3> QED BY <3>1, <1>0, AllocAsids DEF LifeInv
  <2> QED BY <2>1, <2>2
<1> QED BY <1>1, <1>2, <1>3, <1>4 DEF LifeInv

-----------------------------------------------------------------------------
(* Before the first ENV_CREATE all slots are free.                         *)
LEMMA InitLifeInv == Init => LifeInv
BY DEF Init, LifeInv, KidsOk, BootKidsOk, InboxOk, DeliveredIntact, AsidsExclusive

(* Every step of the system preserves LifeInv.                             *)
LEMMA NextLifeInv ==
  ASSUME SchedInv, LifeInv, [Next]_vars
  PROVE  LifeInv'
<1>1. CASE EnvCreate
  BY <1>1, CreateLife
<1>2. CASE Tick
  <2>1. curenv' = NULL => curenv = NULL
    BY <1>2, ScheduleKeepsRunning DEF Tick
  <2> QED BY <2>1, <1>2, YieldLife DEF Tick
<1>3. ASSUME NEW p \in Env, UserStep(p) PROVE LifeInv'
  <2>1. CASE SysYield(p) \/ WaitYield(p) \/ IpcSendRetry(p)
    <3>1. curenv' # NULL
      BY <2>1, PtrAssumption, ScheduleKeepsRunning
         DEF SysYield, WaitYield, IpcSendRetry, In, Runs
    <3> QED BY <3>1, <2>1, YieldLife DEF SysYield, WaitYield, IpcSendRetry
  <2>2. CASE \E status \in Statuses \cup {1} : SysExit(p, status)
    BY <2>2, ExitLife
  <2>3. CASE SysExofork(p)
    BY <2>3, ExoforkLife
  <2>4. CASE StartChild(p)
    BY <2>4, StartLife
  <2>5. CASE WaitReap(p)
    BY <2>5, ReapLife
  <2>6. CASE SysIpcRecv(p)
    BY <2>6, RecvLife
  <2>7. CASE IpcTrySend(p)
    BY <2>7, SendLife
  <2>8. CASE WaitCall(p) \/ WaitDone(p)
    BY <2>8, WaitLife
  <2>9. CASE AbandonChild(p) \/ IpcRecvReturn(p) \/ IpcSendCall(p) \/ IpcSendBadEnv(p)
    <3>1. TypeOK /\ Runs(p)
      BY <2>9 DEF SchedInv, AbandonChild, IpcRecvReturn, IpcSendCall, IpcSendBadEnv, In
    <3>2. PICK where \in {"run", "dying", "send"} : upc' = [upc EXCEPT ![p] = where]
      BY <2>9 DEF AbandonChild, IpcRecvReturn, IpcSendCall, IpcSendBadEnv, Return, Goto
    <3>3. \A q \in Env \ {p} : uarg'[q] = uarg[q] /\ uval'[q] = uval[q]
      BY <2>9, <3>1 DEF TypeOK, AbandonChild, IpcRecvReturn, IpcSendCall, IpcSendBadEnv, Return
    <3>4. UNCHANGED <<env_status, env_id, env_parent_id, env_asid, env_exit_status, ipcVars,
                      asid_bitmap, curenv, kids>>
      BY <2>9 DEF AbandonChild, IpcRecvReturn, IpcSendCall, IpcSendBadEnv,
                  envVars, allocVars, schedVars
    <3> QED BY <3>1, <3>2, <3>3, <3>4, LocalLife
  <2> QED BY <1>3, <2>1, <2>2, <2>3, <2>4, <2>5, <2>6, <2>7, <2>8, <2>9 DEF UserStep
<1>4. CASE Halted \/ UNCHANGED vars
  BY <1>4, YieldLife DEF Halted, vars, schedVars
<1> QED BY <1>1, <1>2, <1>3, <1>4 DEF Next

(* KernelInv is an invariant of the kernel, for any number of slots,       *)
(* ASIDs, pages and environments created.                                  *)
THEOREM KernelInvariant == Spec => []KernelInv
<1>1. Init => KernelInv
  BY InitSchedInv, InitLifeInv DEF KernelInv
<1>2. KernelInv /\ [Next]_vars => KernelInv'
  BY NextSchedInv, NextLifeInv DEF KernelInv
<1> QED BY <1>1, <1>2, PTL DEF Spec, TimerSpec

(* asid_alloc and asid_free (env.c): two envs in use never share an ASID,  *)
(* and no ASID is lost.                                                    *)
THEOREM AsidsAreExclusive == Spec => []AsidsExclusive
<1>1. KernelInv => AsidsExclusive
  BY DEF KernelInv, LifeInv
<1> QED BY <1>1, KernelInvariant, PTL

(* ipc_recv returns the message that woke it, whoever else is sending.     *)
THEOREM MessageIntact == Spec => []DeliveredIntact
<1>1. KernelInv => DeliveredIntact
  BY DEF KernelInv, LifeInv
<1> QED BY <1>1, KernelInvariant, PTL

(* wait finds the child it was called for, and the status it returns is    *)
(* that child's, however slots are reused meanwhile.                       *)
THEOREM WaitIsSound == Spec => []WaitFindsChild
<1>1. KernelInv => WaitFindsChild
  BY DEF KernelInv, LifeInv, KidsOk, ChildOf, WaitFindsChild
<1> QED BY <1>1, KernelInvariant, PTL
=============================================================================
