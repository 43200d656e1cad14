------------------------------- MODULE Tailq -------------------------------
(***************************************************************************)
(* The doubly linked tail queue of include/queue.h at the level of its     *)
(* pointers.  A queue is the record                                        *)
(*                                                                         *)
(*    first   tqh_first, an element or NULL                                *)
(*    last    tqh_last, the address of a "next" cell                       *)
(*    next    the tqe_next field of every element                          *)
(*    prev    the tqe_prev field of every element: the address of the      *)
(*            "next" cell that points (or pointed) to the element          *)
(*                                                                         *)
(* The address of a "next" cell is HEAD for &head->tqh_first and the       *)
(* element e for &e->tqe_next.  The fields of an element that is not in    *)
(* the queue keep what the last operation left in them, as in C: nothing   *)
(* in TAILQ_REMOVE clears them.                                            *)
(***************************************************************************)
EXTENDS Integers

CONSTANTS Elem,   \* the elements that can be linked
          NULL,   \* the null pointer
          HEAD    \* the address of the queue's tqh_first

Addr == Elem \cup {HEAD}

(* All values of the record; a field that was never written is NULL.       *)
TailqType == [first : Elem \cup {NULL},
              last  : Addr,
              next  : [Elem -> Elem \cup {NULL}],
              prev  : [Elem -> Addr \cup {NULL}]]

(* The queue after TAILQ_INIT of a zeroed array of elements.               *)
TAILQ_INIT == [first |-> NULL,
               last  |-> HEAD,
               next  |-> [e \in Elem |-> NULL],
               prev  |-> [e \in Elem |-> NULL]]

TAILQ_INSERT_HEAD(q, e) ==
  LET n == q.first
  IN  [first |-> e,
       last  |-> IF n = NULL THEN e ELSE q.last,
       next  |-> [x \in Elem |-> IF x = e THEN n ELSE q.next[x]],
       prev  |-> [x \in Elem |-> IF x = e THEN HEAD
                                 ELSE IF x = n THEN e ELSE q.prev[x]]]

(* The cell at tqh_last, be it tqh_first or an element's tqe_next, is made *)
(* to point to e.                                                          *)
TAILQ_INSERT_TAIL(q, e) ==
  LET l == q.last
  IN  [first |-> IF l = HEAD THEN e ELSE q.first,
       last  |-> e,
       next  |-> [x \in Elem |-> IF x = l THEN e
                                 ELSE IF x = e THEN NULL ELSE q.next[x]],
       prev  |-> [x \in Elem |-> IF x = e THEN l ELSE q.prev[x]]]

(* The cell at the element's tqe_prev is made to point to its successor.   *)
(* The macro reads no other link of the queue than the element's own, so   *)
(* it runs to completion on an element that is not linked any more, with   *)
(* the links the element had when it was.                                  *)
TAILQ_REMOVE(q, e) ==
  LET n == q.next[e]
      p == q.prev[e]
  IN  [first |-> IF p = HEAD THEN n ELSE q.first,
       last  |-> IF n = NULL THEN p ELSE q.last,
       next  |-> [x \in Elem |-> IF x = p THEN n ELSE q.next[x]],
       prev  |-> [x \in Elem |-> IF x = n THEN p ELSE q.prev[x]]]

(* The forward links from s[1] on are exactly the n distinct elements of   *)
(* s, and tqh_last is the address of the last one's "next" cell.           *)
Chain(q, s, n) ==
  /\ s \in [1 .. n -> Elem]
  /\ \A i, j \in 1 .. n : s[i] = s[j] => i = j
  /\ \A i \in 1 .. n - 1 : q.next[s[i]] = s[i + 1]
  /\ q.next[s[n]] = NULL
  /\ q.last = s[n]
=============================================================================
