----------------------------- MODULE MemSpaces ------------------------------
(***************************************************************************)
(* What fork, spawn and the memory system calls promise to user programs:  *)
(* every env has memory of its own, except for objects that it shares with *)
(* its relatives on purpose.  space[e][v] is what env e has at address v:  *)
(* nothing, a private word, or a shared object; heap has the words of the  *)
(* objects in use.                                                         *)
(* live is the set of the envs that have been started.                     *)
(***************************************************************************)
CONSTANTS Envs, Addr, Words, Zero

VARIABLES space, heap, live

spaceVars == <<space, heap, live>>

Nothing == [kind |-> "none", word |-> Zero]
Private(w) == [kind |-> "private", word |-> w]
Shared(o) == [kind |-> "shared", obj |-> o]

InUse(s) == {s[x[1]][x[2]].obj : x \in {y \in Envs \X Addr : s[y[1]][y[2]].kind = "shared"}}

SpaceInit ==
  /\ space \in [Envs -> [Addr -> {Nothing} \cup {Private(w) : w \in Words}]]
  /\ heap = [o \in InUse(space) |-> Zero]
  /\ live \in SUBSET Envs

(* A new object has the word Zero; one that nobody shares is forgotten.    *)
Becomes(s) ==
  /\ space' = s
  /\ heap' = [o \in InUse(s) |-> IF o \in DOMAIN heap THEN heap[o] ELSE Zero]

(* A store changes the word of one env, or of one object.                  *)
Store(e, v) ==
  /\ e \in live
  /\ \/ /\ space[e][v].kind = "private"
        /\ \E w \in Words : space' = [space EXCEPT ![e][v] = Private(w)]
        /\ UNCHANGED heap
     \/ /\ space[e][v].kind = "shared"
        /\ \E w \in Words : heap' = [heap EXCEPT ![space[e][v].obj] = w]
        /\ UNCHANGED space

(* A new page of zeros or nothing in the place of what was there; a child  *)
(* that has not started may also be given a word.                          *)
Replace(e, v, new) ==
  /\ new.kind = "shared" => new.obj \notin InUse(space)
  /\ new.kind = "private" => new.word = Zero \/ e \notin live
  /\ Becomes([space EXCEPT ![e][v] = new])

(* A child that has not started gets the word or the object its parent has *)
(* at the same address.                                                    *)
Inherit(p, c, v) ==
  /\ p \in live /\ c \notin live
  /\ Becomes([space EXCEPT ![c][v] = space[p][v]])

(* Everything an env that does not run has is taken away.                  *)
Release(e) ==
  /\ e \notin live
  /\ Becomes([space EXCEPT ![e] = [v \in Addr |-> Nothing]])

MemoryStep ==
  /\ UNCHANGED live
  /\ space' # space \/ heap' # heap
  /\ \E e \in Envs :
       \/ Release(e)
       \/ \E v \in Addr :
            \/ Store(e, v)
            \/ Replace(e, v, space'[e][v])
            \/ \E c \in Envs : Inherit(e, c, v)

(* An env starts, or stops; neither changes any memory.                    *)
LifeStep ==
  /\ UNCHANGED <<space, heap>>
  /\ \E e \in Envs : live' \in {live \cup {e}, live \ {e}}

SpaceNext == MemoryStep \/ LifeStep

SpaceSpec == SpaceInit /\ [][SpaceNext]_spaceVars
=============================================================================
