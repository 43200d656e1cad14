--------------------------- MODULE LineEditProofs ---------------------------
(***************************************************************************)
(* The line editor keeps its array, its lengths and its ring in order, and *)
(* the next shell finds the history, for every size of line and ring and   *)
(* every set of characters.                                                *)
(***************************************************************************)
EXTENDS LineEdit, SequenceTheorems, WellFoundedInduction, TLAPS

Char == Printable \cup {NUL}

-----------------------------------------------------------------------------
(* Numbers.                                                                *)

(* A set of numbers that is not empty has a least one.                     *)
LEMMA Least ==
  ASSUME NEW S \in SUBSET Nat, S # {}
  PROVE  Min(S) \in S /\ \A y \in S : Min(S) <= y
<1>1. PICK x \in S : \A y \in S : ~ (<<y, x>> \in OpToRel(<, Nat))
  BY NatLessThanWellFounded, WFMin, Zenon
<1>2. \A y \in S : ~ (y < x)
  BY <1>1, Zenon DEF OpToRel
<1>3. \E z \in S : \A y \in S : z =< y
  BY <1>2
<1> QED BY <1>3 DEF Min

(* A bounded one has a greatest.                                           *)
LEMMA Greatest ==
  ASSUME NEW n \in Nat, NEW S \in SUBSET (0 .. n), S # {}
  PROVE  Max(S) \in S /\ \A y \in S : y <= Max(S)
<1> DEFINE R == {k \in 0 .. n : n - k \in S}
           m == Min(R)
<1>1. PICK x \in S : TRUE
  OBVIOUS
<1>2. n - (n - x) = x /\ n - x \in 0 .. n
  BY <1>1
<1>3. n - x \in R
  BY <1>1, <1>2
<1>4. R \in SUBSET Nat
  OBVIOUS
<1> HIDE DEF m
<1>5. m \in R /\ \A y \in R : m <= y
  BY <1>3, <1>4, Least, Zenon DEF m
<1>6. n - m \in S
  BY <1>5
<1>7. \A y \in S : y <= n - m
  <2> TAKE y \in S
  <2>1. y \in 0 .. n /\ n - (n - y) = y
    OBVIOUS
  <2>2. n - y \in R
    BY <2>1
  <2>3. m <= n - y /\ m \in 0 .. n
    BY <2>2, <1>5
  <2> QED BY <2>1, <2>3
<1>8. \E z \in S : \A y \in S : z >= y
  <2>1. \A y \in S : n - m >= y
    BY <1>7, <1>5
  <2> QED BY <1>6, <2>1
<1>9. Max(S) \in S /\ \A y \in S : Max(S) >= y
  BY <1>8 DEF Max
<1> QED BY <1>9

(* A set of numbers that has 0 and the successor of every member below n   *)
(* has all numbers up to n.                                                *)
LEMMA UpTo ==
  ASSUME NEW n \in Nat, NEW S, 0 \in S, \A k \in 0 .. n - 1 : k \in S => k + 1 \in S
  PROVE  \A k \in 0 .. n : k \in S
<1> DEFINE Out == {k \in 0 .. n : k \notin S}
           m == Min(Out)
<1> SUFFICES ASSUME Out # {} PROVE FALSE
  OBVIOUS
<1>1. Out \in SUBSET Nat
  OBVIOUS
<1> HIDE DEF m
<1>2. m \in Out /\ \A y \in Out : m <= y
  BY <1>1, Least DEF m
<1>3. m \in 0 .. n /\ m # 0 /\ m \notin S
  BY <1>2
<1>4. m - 1 \in 0 .. n - 1 /\ (m - 1) + 1 = m
  BY <1>3
<1>5. m - 1 \notin Out
  BY <1>2, <1>3
<1> QED BY <1>3, <1>4, <1>5

(* Quotient and remainder.                                                 *)
LEMMA DivMod ==
  ASSUME NEW a \in Int, NEW w \in Nat \ {0}
  PROVE  a = w * (a \div w) + (a % w) /\ a % w \in 0 .. w - 1 /\ a \div w \in Int
OBVIOUS

(* A remainder is in range.                                                *)
LEMMA ModIn == \A w \in Nat \ {0} : \A a \in Int : a % w \in 0 .. w - 1
OBVIOUS

(* A greater quotient is at least one divisor more.                        *)
LEMMA TimesMono ==
  ASSUME NEW w \in Nat \ {0}, NEW x \in Int, NEW y \in Int, x < y
  PROVE  w * x + w <= w * y
<1>1. y - x - 1 \in Nat
  OBVIOUS
<1>2. w * (y - x - 1) >= 0
  BY <1>1
<1>3. w * (y - x - 1) = w * y - w * x - w
  OBVIOUS
<1> QED BY <1>2, <1>3

(* A quotient and a remainder are the only ones.                           *)
LEMMA ModOf ==
  ASSUME NEW w \in Nat \ {0}, NEW q \in Int, NEW r \in 0 .. w - 1, NEW a \in Int, a = w * q + r
  PROVE  a % w = r
<1> DEFINE q2 == a \div w
           r2 == a % w
<1>1. a = w * q2 + r2 /\ r2 \in 0 .. w - 1 /\ q2 \in Int
  BY DivMod
<1> HIDE DEF q2, r2
<1>2. w * q \in Int /\ w * q2 \in Int
  BY <1>1
<1>3. CASE q < q2
  <2>1. w * q + w <= w * q2
    BY <1>1, <1>3, TimesMono
  <2> QED BY <2>1, <1>1, <1>2
<1>4. CASE q2 < q
  <2>1. w * q2 + w <= w * q
    BY <1>1, <1>4, TimesMono
  <2> QED BY <2>1, <1>1, <1>2
<1>5. CASE q = q2
  BY <1>1, <1>2, <1>5 DEF r2
<1> QED BY <1>1, <1>3, <1>4, <1>5

(* A small number is its own remainder.                                    *)
LEMMA SmallMod ==
  ASSUME NEW w \in Nat \ {0}, NEW r \in 0 .. w - 1
  PROVE  r % w = r
<1>1. r = w * 0 + r
  OBVIOUS
<1> QED BY <1>1, ModOf

(* A remainder is not greater than the number.                             *)
LEMMA ModLeq ==
  ASSUME NEW w \in Nat \ {0}, NEW a \in Nat
  PROVE  a % w <= a
<1> DEFINE q == a \div w
           r == a % w
<1>1. a = w * q + r /\ r \in 0 .. w - 1 /\ q \in Int
  BY DivMod
<1> HIDE DEF q, r
<1>2. CASE q < 0
  <2>1. w * q + w <= w * 0
    BY <1>1, <1>2, TimesMono
  <2>2. w * q \in Int
    BY <1>1
  <2> QED BY <1>1, <2>1, <2>2
<1>3. CASE q >= 0
  <2>1. w * q >= 0 /\ w * q \in Int
    BY <1>1, <1>3
  <2>2. r <= a
    BY <1>1, <2>1
  <2> QED BY <2>2 DEF r
<1> QED BY <1>1, <1>2, <1>3

(* A counter that wraps counts on, or starts over after its last value.    *)
LEMMA ModStep ==
  ASSUME NEW w \in Nat \ {0}, NEW a \in Int
  PROVE  /\ a % w \in 0 .. w - 1
         /\ (a + 1) % w = IF a % w = w - 1 THEN 0 ELSE (a % w) + 1
<1> DEFINE q == a \div w
           r == a % w
<1>1. a = w * q + r /\ r \in 0 .. w - 1 /\ q \in Int
  BY DivMod
<1> HIDE DEF q, r
<1>2. w * q \in Int
  BY <1>1
<1>3. CASE r = w - 1
  <2>1. w * (q + 1) = w * q + w
    BY <1>1
  <2>2. a + 1 = w * (q + 1) + 0
    BY <1>1, <1>2, <1>3, <2>1
  <2>3. (a + 1) % w = 0
    BY <1>1, <2>2, ModOf
  <2> QED BY <1>1, <1>3, <2>3 DEF r
<1>4. CASE r # w - 1
  <2>1. r + 1 \in 0 .. w - 1 /\ a + 1 = w * q + (r + 1)
    BY <1>1, <1>2, <1>4
  <2>2. (a + 1) % w = r + 1
    BY <1>1, <2>1, ModOf
  <2> QED BY <1>1, <1>4, <2>2 DEF r
<1> QED BY <1>3, <1>4

-----------------------------------------------------------------------------
(* Arrays and strings.                                                     *)

(* The string in an array ends at its first NUL.                           *)
LEMMA StrLenIs ==
  ASSUME NEW a, NEW n \in Cells, EndsAt(a, n)
  PROVE  StrLen(a) = n
<1> DEFINE S == {j \in Cells : a[j] = NUL}
<1>1. S \in SUBSET Nat /\ n \in S
  BY LineAssumption DEF EndsAt, Cells
<1>2. Min(S) \in S /\ \A y \in S : Min(S) <= y
  BY <1>1, Least
<1>3. Min(S) \in Cells /\ a[Min(S)] = NUL /\ Min(S) <= n
  BY <1>1, <1>2
<1>4. Min(S) = n
  BY <1>3, LineAssumption DEF EndsAt, Cells
<1> QED BY <1>4 DEF StrLen

(* An array and a place where its string ends.                             *)
IsLine(a, n) == a \in [Cells -> Char] /\ n \in Cells /\ EndsAt(a, n)

(* The string of an array fits.                                            *)
LEMMA StringIs ==
  ASSUME NEW a, NEW n, IsLine(a, n)
  PROVE  /\ String(a) \in Fitting /\ Len(String(a)) = n
         /\ \A k \in 1 .. n : String(a)[k] = a[k - 1]
<1>1. StrLen(a) = n /\ n \in Nat /\ n < MAX_CMD_LEN
  BY StrLenIs, LineAssumption DEF IsLine, Cells
<1>2. String(a) = [k \in 1 .. n |-> a[k - 1]]
  BY <1>1 DEF String
<1>3. \A k \in 1 .. n : a[k - 1] \in Printable
  BY <1>1, LineAssumption DEF IsLine, EndsAt, Cells, Char
<1>4. String(a) \in Seq(Printable) /\ Len(String(a)) = n
  BY <1>1, <1>2, <1>3
<1> QED BY <1>1, <1>2, <1>4 DEF Fitting, Text

(* memmove of the end of the string, NUL and all, takes out what is        *)
(* between dst and src.                                                    *)
LEMMA MoveLeft ==
  ASSUME NEW a, NEW n, IsLine(a, n), NEW src \in 0 .. n, NEW dst \in 0 .. src
  PROVE  IsLine(Move(a, dst, src, n - src + 1), n - (src - dst))
<1> DEFINE b == Move(a, dst, src, n - src + 1)
<1>1. n \in Nat /\ n < MAX_CMD_LEN /\ MAX_CMD_LEN \in Nat
  BY LineAssumption DEF IsLine, Cells
<1>2. \A k \in Cells : b[k] = IF k \in dst .. dst + (n - src + 1) - 1 THEN a[src + k - dst] ELSE a[k]
  BY DEF Move
<1>3. b \in [Cells -> Char]
  <2>1. \A k \in Cells : k \in dst .. dst + (n - src + 1) - 1 => src + k - dst \in Cells
    BY <1>1 DEF Cells
  <2>2. \A k \in Cells : b[k] \in Char
    BY <1>2, <2>1 DEF IsLine
  <2>3. b = [k \in Cells |-> b[k]]
    BY DEF Move
  <2> HIDE DEF b
  <2> QED BY <2>2, <2>3
<1>4. n - (src - dst) \in Cells
  BY <1>1 DEF Cells
<1>5. b[n - (src - dst)] = NUL
  <2>1. src + (n - (src - dst)) - dst = n
    BY <1>1
  <2> QED BY <1>1, <1>2, <1>4, <2>1 DEF IsLine, EndsAt
<1>6. \A k \in 0 .. n - (src - dst) - 1 : b[k] # NUL
  <2> TAKE k \in 0 .. n - (src - dst) - 1
  <2>1. k \in Cells
    BY <1>1 DEF Cells
  <2>2. CASE k \in dst .. dst + (n - src + 1) - 1
    <3>1. src + k - dst \in 0 .. n - 1
      BY <1>1, <2>2
    <3> QED BY <1>2, <2>1, <2>2, <3>1 DEF IsLine, EndsAt
  <2>3. CASE k \notin dst .. dst + (n - src + 1) - 1
    <3>1. k \in 0 .. n - 1
      BY <1>1, <2>3
    <3> QED BY <1>2, <2>1, <2>3, <3>1 DEF IsLine, EndsAt
  <2> QED BY <2>2, <2>3
<1> QED BY <1>3, <1>4, <1>5, <1>6 DEF IsLine, EndsAt

(* memmove of the same one place to the right and a character in the gap.  *)
LEMMA Insert ==
  ASSUME NEW a, NEW n, IsLine(a, n), n < MAX_CMD_LEN - 1, NEW c \in Printable, NEW p \in 0 .. n
  PROVE  IsLine([Move(a, p + 1, p, n - p + 1) EXCEPT ![p] = c], n + 1)
<1> DEFINE m == Move(a, p + 1, p, n - p + 1)
           b == [m EXCEPT ![p] = c]
<1>1. n \in Nat /\ n < MAX_CMD_LEN - 1 /\ MAX_CMD_LEN \in Nat
  BY LineAssumption DEF IsLine, Cells
<1>2. \A k \in Cells : m[k] = IF k \in p + 1 .. p + 1 + (n - p + 1) - 1 THEN a[p + k - (p + 1)] ELSE a[k]
  BY DEF Move
<1>3. m = [k \in Cells |-> m[k]]
  BY DEF Move
<1> HIDE DEF m
<1>4. \A k \in Cells : b[k] = IF k = p THEN c ELSE m[k]
  BY <1>3
<1>5. \A k \in p + 1 .. n + 1 : p + k - (p + 1) = k - 1 /\ k - 1 \in Cells /\ k \in Cells
  BY <1>1 DEF Cells
<1>6. \A k \in Cells : m[k] = IF k \in p + 1 .. n + 1 THEN a[k - 1] ELSE a[k]
  <2>1. p + 1 + (n - p + 1) - 1 = n + 1
    BY <1>1
  <2> QED BY <1>2, <1>5, <2>1
<1>7. b \in [Cells -> Char]
  <2>1. \A k \in Cells : m[k] \in Char
    BY <1>5, <1>6 DEF IsLine
  <2>2. m \in [Cells -> Char]
    BY <1>3, <2>1
  <2>3. c \in Char
    BY DEF Char
  <2> QED BY <2>2, <2>3
<1>8. n + 1 \in Cells /\ n + 1 \in p + 1 .. n + 1 /\ n + 1 # p
  BY <1>1 DEF Cells
<1>9. b[n + 1] = NUL
  BY <1>1, <1>4, <1>6, <1>8 DEF IsLine, EndsAt
<1>10. \A k \in 0 .. n : b[k] # NUL
  <2> TAKE k \in 0 .. n
  <2>1. k \in Cells
    BY <1>1 DEF Cells
  <2>2. CASE k = p
    BY <1>4, <2>1, <2>2, LineAssumption
  <2>3. CASE k # p /\ k \in p + 1 .. n + 1
    <3>1. k - 1 \in 0 .. n - 1
      BY <1>1, <2>3
    <3> QED BY <1>4, <1>6, <2>1, <2>3, <3>1 DEF IsLine, EndsAt
  <2>4. CASE k # p /\ k \notin p + 1 .. n + 1
    <3>1. k \in 0 .. n - 1
      BY <1>1, <2>4
    <3> QED BY <1>4, <1>6, <2>1, <2>4, <3>1 DEF IsLine, EndsAt
  <2> QED BY <2>2, <2>3, <2>4
<1>11. \A k \in 0 .. (n + 1) - 1 : b[k] # NUL
  <2>1. (n + 1) - 1 = n
    BY <1>1
  <2> HIDE DEF b
  <2> QED BY <1>10, <2>1
<1> HIDE DEF b
<1>12. IsLine(b, n + 1)
  BY <1>7, <1>8, <1>9, <1>11, Zenon DEF IsLine, EndsAt
<1> QED BY <1>12 DEF b, m

(* strcpy of what fits.                                                    *)
LEMMA StrCpyIs ==
  ASSUME NEW a \in [Cells -> Char], NEW s \in Fitting
  PROVE  IsLine(StrCpy(a, s), Len(s))
<1> DEFINE b == StrCpy(a, s)
<1>1. Len(s) \in Nat /\ Len(s) \in Cells /\ \A k \in 1 .. Len(s) : s[k] \in Printable
  BY LineAssumption DEF Fitting, Text, Cells
<1>2. b = [k \in Cells |-> IF k < Len(s) THEN s[k + 1] ELSE IF k = Len(s) THEN NUL ELSE a[k]]
  BY DEF StrCpy
<1> HIDE DEF b
<1>3. \A k \in Cells : k < Len(s) => k + 1 \in 1 .. Len(s)
  BY <1>1, LineAssumption DEF Cells
<1>4. b \in [Cells -> Char]
  BY <1>1, <1>2, <1>3 DEF Char
<1>5. b[Len(s)] = NUL
  BY <1>1, <1>2
<1>6. \A k \in 0 .. Len(s) - 1 : b[k] # NUL
  <2> TAKE k \in 0 .. Len(s) - 1
  <2>1. k \in Cells /\ k < Len(s) /\ k + 1 \in 1 .. Len(s)
    BY <1>1, LineAssumption DEF Cells
  <2>2. b[k] = s[k + 1]
    BY <1>2, <2>1
  <2> QED BY <1>1, <2>1, <2>2, LineAssumption
<1>7. IsLine(b, Len(s))
  BY <1>1, <1>4, <1>5, <1>6 DEF IsLine, EndsAt
<1> QED BY <1>7 DEF b

(* Storing NUL cuts the line.                                              *)
LEMMA Cut ==
  ASSUME NEW a, NEW n, IsLine(a, n), NEW p \in 0 .. n
  PROVE  IsLine([a EXCEPT ![p] = NUL], p)
<1>1. p \in Cells /\ n \in Nat
  BY LineAssumption DEF IsLine, Cells
<1>2. [a EXCEPT ![p] = NUL] \in [Cells -> Char]
  BY <1>1 DEF IsLine, Char
<1>3. \A k \in 0 .. p - 1 : k \in Cells /\ k # p /\ k \in 0 .. n - 1
  BY <1>1, LineAssumption DEF IsLine, Cells
<1>4. \A k \in 0 .. p - 1 : [a EXCEPT ![p] = NUL][k] # NUL
  BY <1>3 DEF IsLine, EndsAt
<1>5. [a EXCEPT ![p] = NUL][p] = NUL
  BY <1>1 DEF IsLine
<1> QED BY <1>1, <1>2, <1>4, <1>5 DEF IsLine, EndsAt

(* The beginning of a command that fits is one.                            *)
LEMMA PrefixFits ==
  ASSUME NEW s \in Fitting, NEW n \in 0 .. Len(s)
  PROVE  SubSeq(s, 1, n) \in Fitting /\ Len(SubSeq(s, 1, n)) = n
<1>1. s \in Seq(Printable) /\ Len(s) \in Nat /\ Len(s) < MAX_CMD_LEN
  BY DEF Fitting, Text
<1>2. SubSeq(s, 1, n) \in Seq(Printable) /\ Len(SubSeq(s, 1, n)) = n
  BY <1>1, SubSeqProperties
<1> QED BY <1>1, <1>2, LineAssumption DEF Fitting, Text

(* main's cleaning keeps a beginning of the line.                          *)
LEMMA CleanedFits ==
  ASSUME NEW s \in Fitting
  PROVE  Cleaned(s) \in Fitting
<1> DEFINE C == {Len(s)} \cup {k - 1 : k \in {j \in 1 .. Len(s) : s[j] = Comment}}
           u == Uncommented(s)
           B == {0} \cup {k \in 1 .. Len(u) : u[k] # Blank}
<1>1. Len(s) \in Nat
  BY DEF Fitting, Text
<1>2. C \in SUBSET (0 .. Len(s)) /\ C # {}
  BY <1>1
<1>3. Min(C) \in C
  <2>1. C \in SUBSET Nat
    BY <1>1, <1>2
  <2> HIDE DEF C
  <2> QED BY <1>2, <2>1, Least
<1>4. u \in Fitting
  <2>1. Min(C) \in 0 .. Len(s)
    BY <1>2, <1>3
  <2> QED BY <2>1, PrefixFits DEF Uncommented
<1> HIDE DEF u
<1>5. Len(u) \in Nat
  BY <1>4 DEF Fitting, Text
<1>6. B \in SUBSET (0 .. Len(u)) /\ B # {}
  BY <1>5
<1>7. Max(B) \in 0 .. Len(u)
  BY <1>5, <1>6, Greatest
<1>8. Trimmed(u) \in Fitting
  BY <1>4, <1>7, PrefixFits DEF Trimmed
<1> QED BY <1>8 DEF Cleaned, u

-----------------------------------------------------------------------------
(* The two loops over data: that a function is defined by recursion is     *)
(* proved like anything else about it, by UpTo.                            *)

(* What history_load knows after k bytes, for every k.                     *)
IsLoad(load, bytes, n) ==
  load = [k \in 0 .. n |->
            IF k = 0 THEN [line_start |-> 0, ring |-> EmptyRing]
            ELSE LoadByte(bytes, load[k - 1], k)]

(* There is such a function.                                               *)
LEMMA LoadExists ==
  ASSUME NEW bytes, NEW n \in Nat
  PROVE  \E load : IsLoad(load, bytes, n)
<1> DEFINE S == {m \in 0 .. n : \E load : IsLoad(load, bytes, m)}
           start == [line_start |-> 0, ring |-> EmptyRing]
<1>1. 0 \in S
  <2> DEFINE f == [k \in 0 .. 0 |-> start]
  <2>1. f = [k \in 0 .. 0 |-> IF k = 0 THEN start ELSE LoadByte(bytes, f[k - 1], k)]
    <3>1. \A k \in 0 .. 0 : k = 0
      OBVIOUS
    <3> QED BY <3>1, Zenon
  <2>2. IsLoad(f, bytes, 0)
    BY <2>1, Zenon DEF IsLoad
  <2> QED BY <2>2
<1>2. ASSUME NEW m \in 0 .. n - 1, m \in S PROVE m + 1 \in S
  <2>1. PICK f : IsLoad(f, bytes, m)
    BY <1>2
  <2> DEFINE g == [k \in 0 .. m + 1 |-> IF k <= m THEN f[k] ELSE LoadByte(bytes, f[m], m + 1)]
             h == [k \in 0 .. m + 1 |-> IF k = 0 THEN start ELSE LoadByte(bytes, g[k - 1], k)]
  <2>2. ASSUME NEW k \in 0 .. m + 1 PROVE g[k] = h[k]
    <3>1. CASE k = 0
      BY <2>1, <3>1 DEF IsLoad
    <3>2. CASE k \in 1 .. m
      <4>1. g[k - 1] = f[k - 1] /\ g[k] = f[k] /\ k \in 0 .. m /\ k # 0
        BY <3>2
      <4>2. f[k] = LoadByte(bytes, f[k - 1], k)
        BY <2>1, <4>1 DEF IsLoad
      <4> QED BY <4>1, <4>2
    <3>3. CASE k = m + 1
      <4>1. g[k - 1] = f[m] /\ g[k] = LoadByte(bytes, f[m], m + 1) /\ k # 0
        BY <3>3
      <4> QED BY <3>3, <4>1
    <3> QED BY <3>1, <3>2, <3>3
  <2>3. g = h
    <3> HIDE DEF start
    <3> QED BY <2>2
  <2>4. IsLoad(g, bytes, m + 1)
    BY <2>3 DEF IsLoad
  <2> QED BY <2>4
<1>3. n \in S
  <2> HIDE DEF S
  <2> QED BY <1>1, <1>2, UpTo
<1> QED BY <1>3

(* history_load's result is the ring after the last byte.                  *)
LEMMA LoadIs ==
  ASSUME NEW bytes, Len(bytes) \in Nat
  PROVE  \E load : IsLoad(load, bytes, Len(bytes)) /\ HistoryLoad(bytes) = load[Len(bytes)].ring
<1> DEFINE n == Len(bytes)
           load == CHOOSE load : load = [k \in 0 .. n |->
                     IF k = 0 THEN [line_start |-> 0, ring |-> EmptyRing]
                     ELSE LoadByte(bytes, load[k - 1], k)]
<1>1. \E f : f = [k \in 0 .. n |-> IF k = 0 THEN [line_start |-> 0, ring |-> EmptyRing]
                                   ELSE LoadByte(bytes, f[k - 1], k)]
  BY LoadExists DEF IsLoad
<1>2. IsLoad(load, bytes, n)
  BY <1>1, Zenon DEF IsLoad
<1>3. HistoryLoad(bytes) = load[n].ring
  BY Zenon DEF HistoryLoad
<1> QED BY <1>2, <1>3, Zenon

(* What history_save has printed after n lines, for every n.               *)
OneLine(t, line) == t \o line \o <<NL>>
IsPrint(print, lines, n) ==
  print = [k \in 0 .. n |-> IF k = 0 THEN <<>> ELSE OneLine(print[k - 1], lines[k])]

(* There is such a function.                                               *)
LEMMA PrintExists ==
  ASSUME NEW lines, NEW n \in Nat
  PROVE  \E print : IsPrint(print, lines, n)
<1> DEFINE S == {m \in 0 .. n : \E print : IsPrint(print, lines, m)}
<1>1. 0 \in S
  <2> DEFINE f == [k \in 0 .. 0 |-> <<>>]
  <2>1. f = [k \in 0 .. 0 |-> IF k = 0 THEN <<>> ELSE OneLine(f[k - 1], lines[k])]
    <3>1. \A k \in 0 .. 0 : k = 0
      OBVIOUS
    <3> QED BY <3>1, Zenon
  <2>2. IsPrint(f, lines, 0)
    BY <2>1, Zenon DEF IsPrint
  <2> QED BY <2>2
<1>2. ASSUME NEW m \in 0 .. n - 1, m \in S PROVE m + 1 \in S
  <2>1. PICK f : IsPrint(f, lines, m)
    BY <1>2
  <2> DEFINE g == [k \in 0 .. m + 1 |-> IF k <= m THEN f[k] ELSE OneLine(f[m], lines[m + 1])]
             h == [k \in 0 .. m + 1 |-> IF k = 0 THEN <<>> ELSE OneLine(g[k - 1], lines[k])]
  <2>2. ASSUME NEW k \in 0 .. m + 1 PROVE g[k] = h[k]
    <3>1. CASE k = 0
      BY <2>1, <3>1 DEF IsPrint
    <3>2. CASE k \in 1 .. m
      <4>1. g[k - 1] = f[k - 1] /\ g[k] = f[k] /\ k \in 0 .. m /\ k # 0
        BY <3>2
      <4>2. f[k] = OneLine(f[k - 1], lines[k])
        BY <2>1, <4>1 DEF IsPrint
      <4> QED BY <4>1, <4>2
    <3>3. CASE k = m + 1
      <4>1. g[k - 1] = f[m] /\ g[k] = OneLine(f[m], lines[m + 1]) /\ k # 0
        BY <3>3
      <4> QED BY <3>3, <4>1
    <3> QED BY <3>1, <3>2, <3>3
  <2>3. g = h
    BY <2>2
  <2>4. IsPrint(g, lines, m + 1)
    BY <2>3 DEF IsPrint
  <2> QED BY <2>4
<1>3. n \in S
  <2> HIDE DEF S
  <2> QED BY <1>1, <1>2, UpTo
<1> QED BY <1>3

(* history_save prints what there is after the last line.                  *)
LEMMA PrintIs ==
  ASSUME NEW lines, Len(lines) \in Nat
  PROVE  \E print : IsPrint(print, lines, Len(lines)) /\ Printed(lines) = print[Len(lines)]
<1> DEFINE n == Len(lines)
           print == CHOOSE print : print = [k \in 0 .. n |->
                      IF k = 0 THEN <<>> ELSE print[k - 1] \o lines[k] \o <<NL>>]
<1>1. \E f : f = [k \in 0 .. n |-> IF k = 0 THEN <<>> ELSE f[k - 1] \o lines[k] \o <<NL>>]
  BY PrintExists DEF IsPrint, OneLine
<1>2. IsPrint(print, lines, n)
  BY <1>1, Zenon DEF IsPrint, OneLine
<1>3. Printed(lines) = print[n]
  BY Zenon DEF Printed
<1> QED BY <1>2, <1>3, Zenon

(* What a save has written after n lines on a disk where full is missing.  *)
IsSave(save, lines, full, n) ==
  save = [k \in 0 .. n |->
            IF k = 0 THEN [text |-> <<>>, size |-> 0, server |-> 0]
            ELSE PrintLine(save[k - 1], lines[k], full)]

(* There is such a function.                                               *)
LEMMA SaveExists ==
  ASSUME NEW lines, NEW full, NEW n \in Nat
  PROVE  \E save : IsSave(save, lines, full, n)
<1> DEFINE start == [text |-> <<>>, size |-> 0, server |-> 0]
           S == {m \in 0 .. n : \E save : IsSave(save, lines, full, m)}
<1>1. 0 \in S
  <2> DEFINE f == [k \in 0 .. 0 |-> start]
  <2>1. f = [k \in 0 .. 0 |-> IF k = 0 THEN start ELSE PrintLine(f[k - 1], lines[k], full)]
    <3>1. \A k \in 0 .. 0 : k = 0
      OBVIOUS
    <3> QED BY <3>1, Zenon
  <2>2. IsSave(f, lines, full, 0)
    BY <2>1, Zenon DEF IsSave
  <2> QED BY <2>2
<1>2. ASSUME NEW m \in 0 .. n - 1, m \in S PROVE m + 1 \in S
  <2>1. PICK f : IsSave(f, lines, full, m)
    BY <1>2
  <2> DEFINE g == [k \in 0 .. m + 1 |-> IF k <= m THEN f[k] ELSE PrintLine(f[m], lines[m + 1], full)]
             h == [k \in 0 .. m + 1 |-> IF k = 0 THEN start ELSE PrintLine(g[k - 1], lines[k], full)]
  <2>2. ASSUME NEW k \in 0 .. m + 1 PROVE g[k] = h[k]
    <3>1. CASE k = 0
      BY <2>1, <3>1 DEF IsSave
    <3>2. CASE k \in 1 .. m
      <4>1. g[k - 1] = f[k - 1] /\ g[k] = f[k] /\ k \in 0 .. m /\ k # 0
        BY <3>2
      <4>2. f[k] = PrintLine(f[k - 1], lines[k], full)
        BY <2>1, <4>1 DEF IsSave
      <4> QED BY <4>1, <4>2
    <3>3. CASE k = m + 1
      <4>1. g[k - 1] = f[m] /\ g[k] = PrintLine(f[m], lines[m + 1], full) /\ k # 0
        BY <3>3
      <4> QED BY <3>3, <4>1
    <3> QED BY <3>1, <3>2, <3>3
  <2>3. g = h
    <3> HIDE DEF start
    <3> QED BY <2>2
  <2>4. IsSave(g, lines, full, m + 1)
    BY <2>3 DEF IsSave
  <2> QED BY <2>4
<1>3. n \in S
  <2> HIDE DEF S
  <2> QED BY <1>1, <1>2, UpTo
<1> QED BY <1>3

(* The file is what the last line leaves.                                  *)
SaveLeft(p) == [k \in 1 .. p.server |-> IF k <= Len(p.text) THEN p.text[k] ELSE HOLE]

LEMMA LeftIs ==
  ASSUME NEW lines, NEW full, Len(lines) \in Nat
  PROVE  \E save : /\ IsSave(save, lines, full, Len(lines))
                   /\ Left(lines, full) = SaveLeft(save[Len(lines)])
<1> DEFINE n == Len(lines)
           save == CHOOSE save : save = [k \in 0 .. n |->
                     IF k = 0 THEN [text |-> <<>>, size |-> 0, server |-> 0]
                     ELSE PrintLine(save[k - 1], lines[k], full)]
<1>1. \E f : f = [k \in 0 .. n |-> IF k = 0 THEN [text |-> <<>>, size |-> 0, server |-> 0]
                                   ELSE PrintLine(f[k - 1], lines[k], full)]
  <2>1. \E f : IsSave(f, lines, full, n)
    <3> HIDE DEF n
    <3>1. n \in Nat
      BY DEF n
    <3> QED BY <3>1, SaveExists
  <2>2. PICK f : IsSave(f, lines, full, n)
    BY <2>1
  <2>3. f = [k \in 0 .. n |-> IF k = 0 THEN [text |-> <<>>, size |-> 0, server |-> 0]
                              ELSE PrintLine(f[k - 1], lines[k], full)]
    BY <2>2, Zenon DEF IsSave
  <2> QED BY <2>3, Zenon
<1>2. IsSave(save, lines, full, n)
  BY <1>1, Zenon DEF IsSave
<1>3. Left(lines, full) = SaveLeft(save[n])
  BY Zenon DEF Left, SaveLeft
<1> QED BY <1>2, <1>3, Zenon

-----------------------------------------------------------------------------
(* The ring.                                                               *)

IsRing(r) ==
  /\ r.slot \in [0 .. MAX_HISTORY -> Fitting]
  /\ r.head \in 0 .. MAX_HISTORY - 1 /\ r.tail \in 0 .. MAX_HISTORY - 1
  /\ r.count \in 0 .. MAX_HISTORY
  /\ Packed(r)

(* An empty ring is one.                                                   *)
LEMMA EmptyRingOk == IsRing(EmptyRing)
<1>1. <<>> \in Fitting
  BY LineAssumption DEF Fitting, Text
<1>2. [k \in 0 .. MAX_HISTORY |-> <<>>] \in [0 .. MAX_HISTORY -> Fitting]
  BY <1>1
<1> QED BY <1>2, LineAssumption DEF IsRing, Packed, EmptyRing

(* history_add keeps it a ring.                                            *)
LEMMA RingAddOk ==
  ASSUME NEW r, IsRing(r), NEW s \in Fitting
  PROVE  IsRing(RingAdd(r, s)) /\ RingAdd(r, s).count >= r.count
<1>0. MAX_HISTORY \in Nat \ {0}
  BY LineAssumption
<1>1. r.tail + 1 \in Int /\ r.head + 1 \in Int
  BY <1>0 DEF IsRing
<1>2. (r.tail + 1) % MAX_HISTORY \in 0 .. MAX_HISTORY - 1 /\ (r.head + 1) % MAX_HISTORY \in 0 .. MAX_HISTORY - 1
  BY <1>0, <1>1, ModIn
<1>3. [r.slot EXCEPT ![r.tail] = s] \in [0 .. MAX_HISTORY -> Fitting]
  BY <1>0 DEF IsRing
<1>4. /\ RingAdd(r, s).slot = [r.slot EXCEPT ![r.tail] = s]
      /\ RingAdd(r, s).tail = (r.tail + 1) % MAX_HISTORY
      /\ RingAdd(r, s).count = IF r.count < MAX_HISTORY THEN r.count + 1 ELSE r.count
      /\ RingAdd(r, s).head = IF r.count < MAX_HISTORY THEN r.head ELSE (r.head + 1) % MAX_HISTORY
  BY DEF RingAdd
<1>5. r.count \in 0 .. MAX_HISTORY /\ r.head \in 0 .. MAX_HISTORY - 1
  BY DEF IsRing
<1>6. (IF r.count < MAX_HISTORY THEN r.count + 1 ELSE r.count) \in 0 .. MAX_HISTORY
  BY <1>0, <1>5
<1>7. (IF r.count < MAX_HISTORY THEN r.head ELSE (r.head + 1) % MAX_HISTORY) \in 0 .. MAX_HISTORY - 1
  BY <1>2, <1>5
<1>10. Packed(RingAdd(r, s))
  <2>0. /\ r.count < MAX_HISTORY => r.head = 0 /\ r.tail = r.count
        /\ r.count = MAX_HISTORY => r.tail = r.head
        /\ r.slot \in [0 .. MAX_HISTORY -> Fitting] /\ r.tail \in 0 .. MAX_HISTORY - 1
    BY DEF IsRing, Packed
  <2>3. ASSUME (IF r.count < MAX_HISTORY THEN r.count + 1 ELSE r.count) < MAX_HISTORY
        PROVE  /\ (IF r.count < MAX_HISTORY THEN r.head ELSE (r.head + 1) % MAX_HISTORY) = 0
               /\ (r.tail + 1) % MAX_HISTORY = (IF r.count < MAX_HISTORY THEN r.count + 1 ELSE r.count)
    <3>1. r.count < MAX_HISTORY /\ r.count + 1 \in 0 .. MAX_HISTORY - 1
      BY <1>0, <1>5, <2>3
    <3>2. (r.count + 1) % MAX_HISTORY = r.count + 1
      BY <1>0, <3>1, SmallMod
    <3> QED BY <2>0, <3>1, <3>2
  <2>5. ASSUME (IF r.count < MAX_HISTORY THEN r.count + 1 ELSE r.count) = MAX_HISTORY
        PROVE  (r.tail + 1) % MAX_HISTORY
                 = (IF r.count < MAX_HISTORY THEN r.head ELSE (r.head + 1) % MAX_HISTORY)
    <3>1. CASE r.count = MAX_HISTORY
      <4>1. ~ (r.count < MAX_HISTORY)
        BY <1>0, <3>1
      <4> QED BY <2>0, <3>1, <4>1
    <3>2. CASE r.count # MAX_HISTORY
      <4>1. r.count < MAX_HISTORY /\ r.head = 0 /\ r.tail + 1 = MAX_HISTORY
        BY <1>0, <1>5, <2>0, <2>5, <3>2
      <4>2. MAX_HISTORY = MAX_HISTORY * 1 + 0 /\ 0 \in 0 .. MAX_HISTORY - 1 /\ MAX_HISTORY \in Int
        BY <1>0
      <4>3. MAX_HISTORY % MAX_HISTORY = 0
        BY <1>0, <4>2, ModOf
      <4> QED BY <4>1, <4>3
    <3> QED BY <3>1, <3>2
  <2> HIDE DEF Packed
  <2>4. /\ RingAdd(r, s).count < MAX_HISTORY => RingAdd(r, s).head = 0 /\ RingAdd(r, s).tail = RingAdd(r, s).count
        /\ RingAdd(r, s).count = MAX_HISTORY => RingAdd(r, s).tail = RingAdd(r, s).head
    BY <1>4, <2>3, <2>5
  <2> QED BY <2>4 DEF Packed
<1>8. IsRing(RingAdd(r, s))
  BY <1>2, <1>3, <1>4, <1>6, <1>7, <1>10 DEF IsRing
<1>9. RingAdd(r, s).count >= r.count
  BY <1>0, <1>4, <1>5
<1> QED BY <1>8, <1>9

(* The variables of the ring take the fields of a record.                  *)
LEMMA BecomesRing ==
  ASSUME NEW r, IsRing(r), RingBecomes(r)
  PROVE  IsRing(Ring')
<1>1. /\ Ring'.slot = r.slot /\ Ring'.head = r.head
      /\ Ring'.tail = r.tail /\ Ring'.count = r.count
  BY DEF RingBecomes, Ring
<1> QED BY <1>1 DEF IsRing, Packed

(* The ring as the variables keep it, and what there is in it.             *)
LEMMA ListedFits ==
  ASSUME NEW r, IsRing(r)
  PROVE  /\ Listed(r) \in Seq(Fitting) /\ Len(Listed(r)) = r.count
         /\ \A k \in 1 .. r.count : Listed(r)[k] = r.slot[(r.head + k - 1) % MAX_HISTORY]
         /\ r.count \in 0 .. MAX_HISTORY
<1>0. MAX_HISTORY \in Nat \ {0}
  BY LineAssumption
<1>1. r.count \in Nat /\ r.head \in Nat
  BY <1>0 DEF IsRing
<1>2. ASSUME NEW k \in 1 .. r.count PROVE r.slot[(r.head + k - 1) % MAX_HISTORY] \in Fitting
  <2>1. r.head + k - 1 \in Int
    BY <1>1
  <2>2. (r.head + k - 1) % MAX_HISTORY \in 0 .. MAX_HISTORY - 1
    BY <1>0, <2>1, ModIn
  <2>3. (r.head + k - 1) % MAX_HISTORY \in 0 .. MAX_HISTORY
    BY <1>0, <2>2
  <2> QED BY <2>3 DEF IsRing
<1>3. Listed(r) = [k \in 1 .. r.count |-> r.slot[(r.head + k - 1) % MAX_HISTORY]]
  BY DEF Listed
<1>4. Listed(r) \in Seq(Fitting) /\ Len(Listed(r)) = r.count
  BY <1>1, <1>2, <1>3
<1>5. r.count \in 0 .. MAX_HISTORY
  BY DEF IsRing
<1> QED BY <1>3, <1>4, <1>5

(* A recalled command fits.                                                *)
LEMMA RecentFits ==
  ASSUME IsRing(Ring), NEW k \in Int
  PROVE  Recent(k) \in Fitting
<1>0. MAX_HISTORY \in Nat \ {0}
  BY LineAssumption
<1>1. history_tail \in Int /\ history_buf \in [0 .. MAX_HISTORY -> Fitting]
  BY <1>0 DEF IsRing, Ring
<1>2. history_tail - 1 - k + MAX_HISTORY \in Int
  BY <1>0, <1>1
<1>3. (history_tail - 1 - k + MAX_HISTORY) % MAX_HISTORY \in 0 .. MAX_HISTORY - 1
  BY <1>0, <1>2, ModIn
<1>4. (history_tail - 1 - k + MAX_HISTORY) % MAX_HISTORY \in 0 .. MAX_HISTORY
  BY <1>0, <1>3
<1> QED BY <1>1, <1>4 DEF Recent

-----------------------------------------------------------------------------
(* The file.                                                               *)

(* What is printed, what a new shell loads, and what the disk may hold.    *)
IsText(t) == t \in Seq(Printable \cup {NL})
IsHistory(t) == t \in Seq(Printable \cup {NUL, NL})
IsFile(t) == t \in Seq(Printable \cup {NUL, NL, HOLE})

(* One more line of history_save.                                          *)
LEMMA OneLineOk ==
  ASSUME NEW t, IsText(t), NEW s \in Fitting
  PROVE  /\ IsText(OneLine(t, s))
         /\ Len(OneLine(t, s)) = Len(t) + Len(s) + 1
         /\ \A k \in 1 .. Len(t) : OneLine(t, s)[k] = t[k]
         /\ \A k \in 1 .. Len(s) : OneLine(t, s)[Len(t) + k] = s[k]
         /\ OneLine(t, s)[Len(t) + Len(s) + 1] = NL
<1> DEFINE A == Printable \cup {NL}
           u == OneLine(t, s)
           n == Len(t)
           m == Len(s)
<1>1. t \in Seq(A) /\ s \in Seq(A) /\ <<NL>> \in Seq(A) /\ n \in Nat /\ m \in Nat /\ m < MAX_CMD_LEN
  BY DEF IsText, Fitting, Text
<1>2. /\ t \o s \in Seq(A) /\ Len(t \o s) = n + m
      /\ \A k \in 1 .. n + m : (t \o s)[k] = IF k <= n THEN t[k] ELSE s[k - n]
  BY <1>1, ConcatProperties
<1>3. /\ u \in Seq(A) /\ Len(u) = n + m + 1
      /\ \A k \in 1 .. n + m + 1 : u[k] = IF k <= n + m THEN (t \o s)[k] ELSE NL
  BY <1>1, <1>2 DEF OneLine
<1> HIDE DEF u
<1>4. \A k \in 1 .. n : u[k] = t[k]
  BY <1>1, <1>2, <1>3
<1>5. \A k \in 1 .. m : u[n + k] = s[k]
  <2> TAKE k \in 1 .. m
  <2>1. n + k \in 1 .. n + m /\ ~ (n + k <= n) /\ n + k - n = k
    BY <1>1
  <2>2. n + k \in 1 .. n + m + 1
    BY <1>1
  <2> QED BY <2>1, <2>2, <1>2, <1>3
<1>6. u[n + m + 1] = NL
  BY <1>1, <1>3
<1> QED BY <1>3, <1>4, <1>5, <1>6 DEF IsText, u

(* What history_save prints is a text.                                     *)
LEMMA PrintedOk ==
  ASSUME NEW lines \in Seq(Fitting)
  PROVE  IsText(Printed(lines))
<1> DEFINE n == Len(lines)
<1>1. n \in Nat /\ \A k \in 1 .. n : lines[k] \in Fitting
  OBVIOUS
<1>2. PICK print : IsPrint(print, lines, n) /\ Printed(lines) = print[n]
  BY <1>1, PrintIs
<1> DEFINE S == {k \in 0 .. n : IsText(print[k])}
<1>3. 0 \in S
  <2>1. print[0] = <<>>
    BY <1>1, <1>2 DEF IsPrint
  <2>2. IsText(<<>>)
    BY DEF IsText
  <2> QED BY <1>1, <2>1, <2>2
<1>4. ASSUME NEW k \in 0 .. n - 1, k \in S PROVE k + 1 \in S
  <2>1. k + 1 \in 0 .. n /\ k + 1 # 0 /\ k + 1 \in 1 .. n /\ (k + 1) - 1 = k
    BY <1>1
  <2>2. print[k + 1] = OneLine(print[k], lines[k + 1])
    BY <1>2, <2>1 DEF IsPrint
  <2>3. lines[k + 1] \in Fitting
    BY <1>1, <2>1
  <2> QED BY <1>4, <2>1, <2>2, <2>3, OneLineOk
<1>5. n \in S
  <2> HIDE DEF n, S
  <2>1. \A k \in 0 .. n : k \in S
    BY <1>1, <1>3, <1>4, UpTo
  <2> QED BY <1>1, <2>1
<1> QED BY <1>2, <1>5

(* strcpy's string, up to a NUL; all of it if there is none.               *)
LEMMA CStringIs ==
  ASSUME NEW s \in Seq(Printable \cup {NUL})
  PROVE  /\ CString(s) \in Seq(Printable) /\ Len(CString(s)) <= Len(s)
         /\ s \in Seq(Printable) => CString(s) = s
<1> DEFINE Z == {j \in 1 .. Len(s) : s[j] = NUL}
           C == {Len(s)} \cup {k - 1 : k \in Z}
           n == Min(C)
<1>1. Len(s) \in Nat /\ \A k \in 1 .. Len(s) : s[k] \in Printable \cup {NUL}
  OBVIOUS
<1>2. C \in SUBSET Nat /\ C # {} /\ C \in SUBSET (0 .. Len(s))
  BY <1>1
<1>3. n \in C /\ \A y \in C : n <= y
  <2> HIDE DEF C
  <2> QED BY <1>2, Least
<1>4. n \in 0 .. Len(s)
  BY <1>2, <1>3
<1>5. CString(s) = SubSeq(s, 1, n)
  BY DEF CString
<1>6. ASSUME NEW k \in 1 .. n PROVE s[k] \in Printable
  <2>1. CASE s[k] = NUL
    <3>1. k \in Z
      BY <1>1, <1>4, <2>1
    <3>2. k - 1 \in C
      BY <3>1
    <3> HIDE DEF C, n
    <3>3. n <= k - 1
      BY <1>3, <3>2
    <3> QED BY <1>1, <1>4, <3>3
  <2>2. CASE s[k] # NUL
    <3> HIDE DEF n
    <3>1. k \in 1 .. Len(s)
      BY <1>1, <1>4
    <3> QED BY <1>1, <2>2, <3>1
  <2> QED BY <2>1, <2>2
<1>7. s \in Seq(Printable) => n = Len(s)
  <2>1. s \in Seq(Printable) => Z = {}
    BY LineAssumption
  <2>2. Z = {} => C = {Len(s)}
    BY <1>1
  <2> HIDE DEF Z, C
  <2> QED BY <1>3, <2>1, <2>2
<1> HIDE DEF n
<1>8. SubSeq(s, 1, n) \in Seq(Printable) /\ Len(SubSeq(s, 1, n)) = n
  BY <1>1, <1>4, <1>6, SubSeqProperties
<1>9. s \in Seq(Printable) => SubSeq(s, 1, Len(s)) = s
  OBVIOUS
<1> QED BY <1>1, <1>4, <1>5, <1>7, <1>8, <1>9

(* What a write leaves, whether or not it got its block.                   *)
Writing == [text : Seq(Printable \cup {NUL, NL, HOLE}), size : Nat, server : Nat]

LEMMA WriteOk ==
  ASSUME NEW p \in Writing, NEW t, IsText(t), NEW full
  PROVE  Write(p, t, full) \in Writing
<1> DEFINE A == Printable \cup {NUL, NL, HOLE}
           tot == Len(p.text) + Len(t)
<1>1. p.text \in Seq(A) /\ p.size \in Nat /\ p.server \in Nat /\ tot \in Nat /\ Len(t) \in Nat
      /\ \A k \in 1 .. Len(t) : t[k] \in A
  BY DEF Writing, IsText
<1>2. Stored(p, t, full) \in Seq(A)
  BY <1>1 DEF Stored
<1>3. p.text \o Stored(p, t, full) \in Seq(A)
  BY <1>1, <1>2, ConcatProperties
<1> HIDE DEF A, tot
<1>4. Max({p.size, tot}) \in Nat
  <2> DEFINE n == p.size + tot
             S == {p.size, tot}
  <2>1. n \in Nat /\ S \in SUBSET (0 .. n) /\ S # {} /\ S \subseteq Nat
    BY <1>1
  <2> HIDE DEF n, S
  <2>2. Max(S) \in S
    BY <2>1, Greatest
  <2> QED BY <2>1, <2>2 DEF S
<1>5. [text |-> p.text, size |-> tot, server |-> p.size] \in Writing
  BY <1>1 DEF Writing, A
<1>6. [text |-> p.text \o Stored(p, t, full), size |-> Max({p.size, tot}),
       server |-> IF tot > p.size THEN tot ELSE p.server] \in Writing
  BY <1>1, <1>3, <1>4 DEF Writing, A
<1> QED BY <1>5, <1>6 DEF Write, tot

LEMMA NothingWritten == [text |-> <<>>, size |-> 0, server |-> 0] \in Writing
<1> DEFINE S == Seq(Printable \cup {NUL, NL, HOLE})
<1>1. <<>> \in S /\ 0 \in Nat
  OBVIOUS
<1> HIDE DEF S
<1>2. [text |-> <<>>, size |-> 0, server |-> 0] \in [text : S, size : Nat, server : Nat]
  BY <1>1
<1> QED BY <1>2 DEF S, Writing

(* Whatever is missing, the file holds characters, newlines and holes.     *)
LEMMA LeftOk ==
  ASSUME NEW lines \in Seq(Fitting), NEW full
  PROVE  IsFile(Left(lines, full))
<1> DEFINE n == Len(lines)
<1>1. n \in Nat /\ \A k \in 1 .. n : lines[k] \in Fitting
  OBVIOUS
<1>2. PICK save : IsSave(save, lines, full, n) /\ Left(lines, full) = SaveLeft(save[n])
  BY <1>1, LeftIs
<1> DEFINE S == {k \in 0 .. n : save[k] \in Writing}
<1>3. 0 \in S
  <2>1. save[0] = [text |-> <<>>, size |-> 0, server |-> 0]
    BY <1>1, <1>2 DEF IsSave
  <2>2. save[0] \in Writing
    BY <2>1, NothingWritten
  <2> QED BY <1>1, <2>2
<1>4. ASSUME NEW k \in 0 .. n - 1, k \in S PROVE k + 1 \in S
  <2>1. k + 1 \in 0 .. n /\ k + 1 # 0 /\ k + 1 \in 1 .. n /\ (k + 1) - 1 = k
    BY <1>1
  <2> DEFINE p == save[k]
             t == lines[k + 1]
  <2>2. save[k + 1] = PrintLine(p, t, full)
    BY <1>2, <2>1 DEF IsSave
  <2>3. p \in Writing
    BY <1>4
  <2>4. IsText(t) /\ IsText(<<NL>>)
    BY <1>1, <2>1 DEF IsText, Fitting, Text
  <2> HIDE DEF p, t
  <2>5. PrintLine(p, t, full) \in Writing
    BY <2>3, <2>4, WriteOk DEF PrintLine
  <2> QED BY <2>1, <2>2, <2>5
<1>5. save[n] \in Writing
  <2> HIDE DEF n, S
  <2>1. \A k \in 0 .. n : k \in S
    BY <1>1, <1>3, <1>4, UpTo
  <2>2. n \in S
    BY <1>1, <2>1
  <2> QED BY <2>2 DEF S
<1>6. ASSUME NEW p \in Writing PROVE IsFile(SaveLeft(p))
  BY <1>6 DEF Writing, SaveLeft, IsFile
<1> QED BY <1>2, <1>5, <1>6

(* Opening fills holes, and without holes the file is a history.           *)
LEMMA OpensOk ==
  ASSUME IsFile(file), Opens
  PROVE  /\ IsFile(file') /\ Len(file') = Len(file)
         /\ Holes(file') = {} => IsHistory(file')
         /\ Holes(file) = {} => file' = file
<1> DEFINE A == Printable \cup {NUL, NL, HOLE}
<1>1. PICK n \in 0 .. Block(Len(file)) + 1, g \in [Holes(file) -> Stale] :
        file' = [k \in 1 .. Len(file) |->
                   IF k \in Holes(file) /\ Block(k) < n THEN g[k] ELSE file[k]]
  BY DEF Opens
<1>2. file \in Seq(A) /\ Len(file) \in Nat /\ \A k \in 1 .. Len(file) : file[k] \in A
  BY DEF IsFile
<1>3. ASSUME NEW k \in Holes(file) PROVE g[k] \in A
  BY LineAssumption
<1>4. \A k \in 1 .. Len(file) : file'[k] \in A
  BY <1>1, <1>2, <1>3
<1>5. file' \in Seq(A) /\ Len(file') = Len(file)
  <2> HIDE DEF A
  <2>1. \A k \in 1 .. Len(file) : (IF k \in Holes(file) /\ Block(k) < n THEN g[k] ELSE file[k]) \in A
    BY <1>2, <1>3
  <2> QED BY <1>1, <1>2, <2>1
<1>6. ASSUME Holes(file') = {} PROVE IsHistory(file')
  <2>1. \A k \in 1 .. Len(file') : file'[k] # HOLE
    BY <1>6 DEF Holes
  <2>2. \A k \in 1 .. Len(file') : file'[k] \in Printable \cup {NUL, NL}
    BY <1>4, <1>5, <2>1
  <2>3. file' = [k \in 1 .. Len(file') |-> file'[k]] /\ Len(file') \in Nat
    BY <1>2, <1>5
  <2> QED BY <2>2, <2>3 DEF IsHistory
<1>7. ASSUME Holes(file) = {} PROVE file' = file
  <2>1. file' = [k \in 1 .. Len(file) |-> file[k]]
    BY <1>1, <1>7
  <2> QED BY <1>2, <2>1
<1> QED BY <1>5, <1>6, <1>7 DEF IsFile

(* How far history_load is after k bytes: what is in the ring are commands *)
(* that fit, and there is no newline from line_start on.                   *)
NoNewline(t, a, b) == \A k \in a + 1 .. b : t[k] # NL
LoadedTo(bytes, l, k) ==
  /\ IsRing(l.ring) /\ l.line_start \in Nat
  /\ NoNewline(bytes, k - (k % CHUNK) + l.line_start, k)

(* The next byte.                                                          *)
LEMMA LoadByteOk ==
  ASSUME NEW bytes, IsHistory(bytes), NEW k \in 0 .. Len(bytes) - 1, NEW l, LoadedTo(bytes, l, k)
  PROVE  LoadedTo(bytes, LoadByte(bytes, l, k + 1), k + 1)
<1> DEFINE j == k + 1
           c == k % CHUNK
           d == j % CHUNK
           n == LoadByte(bytes, l, j)
<1>0. /\ bytes \in Seq(Printable \cup {NUL, NL}) /\ Len(bytes) \in Nat
      /\ CHUNK \in Nat \ {0} /\ MAX_CMD_LEN \in Nat /\ CHUNK < MAX_CMD_LEN
  BY LineAssumption DEF IsHistory
<1>1. c \in 0 .. CHUNK - 1 /\ d = IF c = CHUNK - 1 THEN 0 ELSE c + 1
  <2>1. k \in Int /\ CHUNK \in Nat \ {0}
    BY <1>0
  <2> QED BY <2>1, ModStep, Zenon
<1>2. j - 1 = k /\ k \in Nat /\ j \in 1 .. Len(bytes)
  BY <1>0
<1>3. l.line_start \in Nat /\ IsRing(l.ring) /\ NoNewline(bytes, k - c + l.line_start, k)
  BY DEF LoadedTo
<1>4. n = IF bytes[j] # NL THEN l
          ELSE [line_start |-> c + 1,
                ring |-> IF c - l.line_start > 0
                         THEN RingAdd(l.ring, Line(bytes, j - 1 - c, l.line_start, c))
                         ELSE l.ring]
  BY <1>2, Zenon DEF LoadByte
<1> SUFFICES LoadedTo(bytes, n, j)
  OBVIOUS
<1> HIDE DEF j, c, d, n
<1>5. CASE bytes[j] # NL
  <2>1. n = l
    BY <1>4, <1>5
  <2>2. NoNewline(bytes, j - d + l.line_start, j)
    <3>1. CASE d = 0
      BY <1>2, <1>3, <3>1 DEF NoNewline
    <3>2. CASE d # 0
      <4>1. d = c + 1 /\ c \in Nat
        BY <1>0, <1>1, <3>2
      <4>2. j = k + 1
        BY DEF j
      <4>3. j - d + l.line_start = k - c + l.line_start
        BY <1>2, <1>3, <4>1, <4>2
      <4>4. \A x \in k - c + l.line_start + 1 .. j : x = j \/ x \in k - c + l.line_start + 1 .. k
        BY <1>2, <1>3, <4>1, <4>2
      <4> QED BY <1>3, <1>5, <4>3, <4>4 DEF NoNewline
    <3> QED BY <3>1, <3>2
  <2> QED BY <1>3, <2>1, <2>2 DEF LoadedTo, d
<1>6. CASE bytes[j] = NL
  <2>1. n.line_start = c + 1
    BY <1>4, <1>6
  <2>2. n.ring = IF c - l.line_start > 0
                 THEN RingAdd(l.ring, Line(bytes, j - 1 - c, l.line_start, c)) ELSE l.ring
    BY <1>4, <1>6
  <2>3. NoNewline(bytes, j - d + n.line_start, j)
    <3>1. j - d + (c + 1) >= j
      BY <1>0, <1>1, <1>2
    <3> QED BY <1>0, <1>1, <1>2, <2>1, <3>1 DEF NoNewline
  <2>4. IsRing(n.ring)
    <3>1. CASE ~ (c - l.line_start > 0)
      BY <1>3, <2>2, <3>1
    <3>2. CASE c - l.line_start > 0
      <4> DEFINE a == k - c + l.line_start
                 s == SubSeq(bytes, a + 1, k)
      <4>1. c <= k
        BY <1>0, <1>2, ModLeq DEF c
      <4>2. a \in 0 .. Len(bytes) /\ k \in 0 .. Len(bytes) /\ k - a = c - l.line_start
        BY <1>0, <1>1, <1>2, <1>3, <3>2, <4>1
      <4>3. k - a < MAX_CMD_LEN
        BY <1>0, <1>1, <1>3, <4>2
      <4> HIDE DEF a
      <4>4. \A x \in a + 1 .. k : x \in 1 .. Len(bytes) /\ bytes[x] # NL
        BY <1>0, <1>3, <4>2 DEF NoNewline, a
      <4>5. \A x \in a + 1 .. k : bytes[x] \in Printable \cup {NUL}
        BY <1>0, <4>4
      <4>6. s \in Seq(Printable \cup {NUL}) /\ Len(s) = k - a
        BY <1>0, <1>2, <3>2, <4>2, <4>5, SubSeqProperties
      <4>7. CString(s) \in Fitting
        <5> HIDE DEF s
        <5>1. CString(s) \in Seq(Printable) /\ Len(CString(s)) <= Len(s)
          BY <4>6, CStringIs
        <5>2. Len(CString(s)) < MAX_CMD_LEN
          BY <1>0, <4>2, <4>3, <4>6, <5>1
        <5> QED BY <5>1, <5>2 DEF Fitting, Text
      <4>8. Line(bytes, j - 1 - c, l.line_start, c) = CString(s)
        <5>1. (j - 1 - c) + l.line_start + 1 = a + 1 /\ (j - 1 - c) + c = k
          BY <1>0, <1>1, <1>2, <1>3 DEF a
        <5> QED BY <5>1 DEF Line
      <4> QED BY <1>3, <2>2, <3>2, <4>7, <4>8, RingAddOk
    <3> QED BY <3>1, <3>2
  <2>5. n.line_start \in Nat
    BY <1>0, <1>1, <2>1
  <2> QED BY <2>3, <2>4, <2>5 DEF LoadedTo, d
<1> QED BY <1>5, <1>6

(* What history_load finds in any file without holes.                      *)
LEMMA HistoryLoadOk ==
  ASSUME NEW bytes, IsHistory(bytes)
  PROVE  IsRing(HistoryLoad(bytes))
<1> DEFINE n == Len(bytes)
<1>1. n \in Nat
  BY DEF IsHistory
<1>2. PICK load : IsLoad(load, bytes, n) /\ HistoryLoad(bytes) = load[n].ring
  BY <1>1, LoadIs
<1> DEFINE S == {k \in 0 .. n : LoadedTo(bytes, load[k], k)}
<1> HIDE DEF n
<1>3. 0 \in S
  <2>1. load[0].line_start = 0 /\ load[0].ring = EmptyRing
    BY <1>1, <1>2 DEF IsLoad
  <2>2. 0 % CHUNK = 0
    BY LineAssumption, SmallMod
  <2>3. NoNewline(bytes, 0 - (0 % CHUNK) + 0, 0)
    BY <2>2 DEF NoNewline
  <2> QED BY <1>1, <2>1, <2>3, EmptyRingOk DEF LoadedTo
<1>4. ASSUME NEW k \in 0 .. n - 1, k \in S PROVE k + 1 \in S
  <2>1. k + 1 \in 0 .. n /\ k + 1 # 0 /\ (k + 1) - 1 = k
    BY <1>1
  <2>2. load[k + 1] = LoadByte(bytes, load[k], k + 1)
    BY <1>2, <2>1 DEF IsLoad
  <2>3. LoadedTo(bytes, load[k], k)
    BY <1>4
  <2>4. LoadedTo(bytes, LoadByte(bytes, load[k], k + 1), k + 1)
    BY <1>1, <1>4, <2>3, LoadByteOk DEF n
  <2> QED BY <2>1, <2>2, <2>4
<1>5. n \in S
  <2> HIDE DEF S
  <2>1. \A k \in 0 .. n : k \in S
    BY <1>1, <1>3, <1>4, UpTo
  <2> QED BY <1>1, <2>1
<1> QED BY <1>2, <1>5 DEF LoadedTo

-----------------------------------------------------------------------------
(* The invariant.                                                          *)

(* The line and the ring, out of the invariant.                            *)
LEMMA Parts ==
  ASSUME BufferInv
  PROVE  /\ IsLine(local_buf, len) /\ cursor_pos \in 0 .. len /\ len \in Nat /\ cursor_pos \in Nat
         /\ IsRing(Ring) /\ history_nav_pos \in -1 .. history_count - 1
         /\ buf \in Fitting /\ IsFile(file)
<1>1. IsLine(local_buf, len) /\ cursor_pos \in 0 .. len
  BY DEF BufferInv, TypeOK, IsLine, Char
<1>2. len \in Nat /\ cursor_pos \in Nat
  BY <1>1, LineAssumption DEF IsLine, Cells
<1>3. IsRing(Ring)
  <2>1. Packed(Ring)
    BY DEF BufferInv
  <2> QED BY <2>1 DEF BufferInv, TypeOK, IsRing, Ring
<1>4. buf \in Fitting /\ history_nav_pos \in -1 .. history_count - 1
  BY DEF BufferInv, TypeOK
<1>5. IsFile(file)
  BY DEF BufferInv, IsFile
<1> QED BY <1>1, <1>2, <1>3, <1>4, <1>5

(* And back.                                                               *)
LEMMA Rebuilt ==
  ASSUME IsLine(local_buf', len'), cursor_pos' \in 0 .. len',
         IsRing(Ring'), history_nav_pos' \in -1 .. history_count' - 1,
         buf' \in Fitting, IsFile(file'),
         at' \in {"edit", "remove", "create", "print"}, saved' \in BOOLEAN
  PROVE  BufferInv'
<1>1. /\ local_buf' \in [Cells -> Printable \cup {NUL}] /\ len' \in Cells
      /\ EndsAt(local_buf', len')
  BY DEF IsLine, Char
<1>2. /\ history_buf' \in [0 .. MAX_HISTORY -> Fitting]
      /\ history_head' \in 0 .. MAX_HISTORY - 1 /\ history_tail' \in 0 .. MAX_HISTORY - 1
      /\ history_count' \in 0 .. MAX_HISTORY
  BY DEF IsRing, Ring
<1>3. TypeOK'
  BY <1>1, <1>2 DEF TypeOK
<1>4. file' \in Seq(Printable \cup {NUL, NL, HOLE})
  BY DEF IsFile
<1>5. Packed(Ring)'
  BY DEF IsRing
<1> QED BY <1>1, <1>2, <1>3, <1>4, <1>5 DEF BufferInv, EndsAt

(* A key that changes the line and leaves the ring alone.                  *)
LEMMA EditStep ==
  ASSUME BufferInv, NEW a, NEW n, NEW c, Edit(a, n, c), IsLine(a, n), c \in 0 .. n, InLine
  PROVE  BufferInv'
<1>1. /\ local_buf' = a /\ len' = n /\ cursor_pos' = c /\ buf' = buf /\ file' = file
      /\ saved' = saved /\ at' = at /\ Ring' = Ring
      /\ history_count' = history_count /\ history_nav_pos' = history_nav_pos
  BY DEF Edit, InLine, fileVars, ringVars, Ring
<1>2. at \in {"edit", "remove", "create", "print"} /\ saved \in BOOLEAN
  BY DEF BufferInv, TypeOK
<1>3. /\ IsLine(local_buf', len') /\ cursor_pos' \in 0 .. len' /\ IsRing(Ring')
      /\ history_nav_pos' \in -1 .. history_count' - 1 /\ buf' \in Fitting
      /\ at' \in {"edit", "remove", "create", "print"} /\ saved' \in BOOLEAN
  BY <1>1, <1>2, Parts
<1>4. IsFile(file')
  BY <1>1, Parts
<1> QED BY <1>3, <1>4, Rebuilt

(* What is above the place where Ctrl-W stops.                             *)
LEMMA StartPosIs ==
  ASSUME cursor_pos \in Nat
  PROVE  /\ AfterWord \in 0 .. cursor_pos /\ StartPos \in 0 .. AfterWord
         /\ StartPos \in 0 .. cursor_pos
<1> DEFINE A == {0} \cup {k \in 1 .. cursor_pos : local_buf[k - 1] # Blank}
           w == AfterWord
           B == {0} \cup {k \in 1 .. w : local_buf[k - 1] = Blank}
<1>1. A \in SUBSET (0 .. cursor_pos) /\ A # {}
  OBVIOUS
<1>2. w = Max(A)
  BY DEF AfterWord
<1>3. w \in 0 .. cursor_pos
  <2> HIDE DEF A, w
  <2> QED BY <1>1, <1>2, Greatest
<1> HIDE DEF w
<1>4. B \in SUBSET (0 .. w) /\ B # {} /\ w \in Nat
  BY <1>3
<1>5. StartPos = Max(B)
  BY DEF StartPos, w
<1>6. StartPos \in 0 .. w
  <2> HIDE DEF B
  <2> QED BY <1>4, <1>5, Greatest
<1>7. StartPos \in 0 .. cursor_pos
  BY <1>3, <1>6
<1> QED BY <1>3, <1>6, <1>7 DEF w

(* The keys that edit the line.                                            *)
LEMMA LineKeys ==
  ASSUME BufferInv,
         \/ \E c \in Printable : TypeChar(c)
         \/ Backspace \/ CtrlA \/ CtrlE \/ CtrlK \/ CtrlU \/ CtrlW \/ ArrowLeft \/ ArrowRight
  PROVE  BufferInv'
<1> USE Parts
<1>1. ASSUME NEW c \in Printable, TypeChar(c) PROVE BufferInv'
  <2>1. cursor_pos + 1 \in 0 .. len + 1
    OBVIOUS
  <2>2. len < MAX_CMD_LEN - 1 /\ InLine
        /\ Edit([Move(local_buf, cursor_pos + 1, cursor_pos, len - cursor_pos + 1) EXCEPT ![cursor_pos] = c],
                len + 1, cursor_pos + 1)
    BY <1>1 DEF TypeChar
  <2>3. IsLine([Move(local_buf, cursor_pos + 1, cursor_pos, len - cursor_pos + 1) EXCEPT ![cursor_pos] = c],
               len + 1)
    BY <2>2, Insert
  <2> QED BY <2>1, <2>2, <2>3, EditStep
<1>2. CASE Backspace
  <2>1. cursor_pos > 0 /\ InLine
        /\ Edit(Move(local_buf, cursor_pos - 1, cursor_pos, len - cursor_pos + 1), len - 1, cursor_pos - 1)
    BY <1>2 DEF Backspace
  <2>2. cursor_pos - 1 \in 0 .. cursor_pos /\ cursor_pos - 1 \in 0 .. len - 1
        /\ len - (cursor_pos - (cursor_pos - 1)) = len - 1
    BY <2>1
  <2>3. IsLine(Move(local_buf, cursor_pos - 1, cursor_pos, len - cursor_pos + 1), len - 1)
    BY <2>2, MoveLeft
  <2> QED BY <2>1, <2>2, <2>3, EditStep
<1>3. CASE CtrlA
  <2>1. 0 \in 0 .. len
    OBVIOUS
  <2> QED BY <1>3, <2>1, EditStep DEF CtrlA
<1>4. CASE CtrlE
  <2>1. len \in 0 .. len
    OBVIOUS
  <2> QED BY <1>4, <2>1, EditStep DEF CtrlE
<1>5. CASE CtrlK
  <2>1. IsLine([local_buf EXCEPT ![cursor_pos] = NUL], cursor_pos) /\ cursor_pos \in 0 .. cursor_pos
    BY Cut
  <2> QED BY <1>5, <2>1, EditStep DEF CtrlK
<1>6. CASE CtrlU
  <2>1. InLine /\ Edit(Move(local_buf, 0, cursor_pos, len - cursor_pos + 1), len - cursor_pos, 0)
    BY <1>6 DEF CtrlU
  <2>2. 0 \in 0 .. cursor_pos /\ 0 \in 0 .. len - cursor_pos /\ len - (cursor_pos - 0) = len - cursor_pos
    OBVIOUS
  <2>3. IsLine(Move(local_buf, 0, cursor_pos, len - cursor_pos + 1), len - cursor_pos)
    BY <2>2, MoveLeft
  <2> QED BY <2>1, <2>2, <2>3, EditStep
<1>7. CASE CtrlW
  <2> DEFINE p == StartPos
  <2>1. InLine /\ Edit(Move(local_buf, p, cursor_pos, len - cursor_pos + 1), len - (cursor_pos - p), p)
    BY <1>7 DEF CtrlW
  <2>2. p \in 0 .. cursor_pos
    BY StartPosIs
  <2> HIDE DEF p
  <2>3. p \in 0 .. len - (cursor_pos - p)
    BY <2>2
  <2>4. IsLine(Move(local_buf, p, cursor_pos, len - cursor_pos + 1), len - (cursor_pos - p))
    BY <2>2, MoveLeft
  <2> QED BY <2>1, <2>3, <2>4, EditStep
<1>8. CASE ArrowLeft
  <2>1. cursor_pos > 0 /\ InLine /\ Edit(local_buf, len, cursor_pos - 1)
    BY <1>8 DEF ArrowLeft
  <2>2. cursor_pos - 1 \in 0 .. len
    BY <2>1
  <2> QED BY <2>1, <2>2, EditStep
<1>9. CASE ArrowRight
  <2>1. cursor_pos < len /\ InLine /\ Edit(local_buf, len, cursor_pos + 1)
    BY <1>9 DEF ArrowRight
  <2>2. cursor_pos + 1 \in 0 .. len
    BY <2>1
  <2> QED BY <2>1, <2>2, EditStep
<1> QED BY <1>1, <1>2, <1>3, <1>4, <1>5, <1>6, <1>7, <1>8, <1>9

(* The arrows up and down.                                                 *)
LEMMA RecallKeys ==
  ASSUME BufferInv, ArrowUp \/ ArrowDown
  PROVE  BufferInv'
<1>1. /\ IsLine(local_buf, len) /\ IsRing(Ring) /\ history_nav_pos \in -1 .. history_count - 1
      /\ buf \in Fitting /\ IsFile(file)
      /\ at \in {"edit", "remove", "create", "print"} /\ saved \in BOOLEAN
  BY Parts DEF BufferInv, TypeOK
<1>0. /\ MAX_HISTORY \in Nat \ {0} /\ history_count \in Nat /\ history_nav_pos \in Int
      /\ history_buf \in [0 .. MAX_HISTORY -> Fitting]
      /\ history_head \in 0 .. MAX_HISTORY - 1 /\ history_tail \in 0 .. MAX_HISTORY - 1
      /\ history_count \in 0 .. MAX_HISTORY
  BY <1>1, LineAssumption DEF IsRing, Ring
<1>2. ASSUME NEW s \in Fitting, Recall(s), IsRing(Ring'), history_count' = history_count,
             history_nav_pos' \in -1 .. history_count - 1
      PROVE  BufferInv'
  <2>1. /\ local_buf' = StrCpy(local_buf, s) /\ len' = Len(s) /\ cursor_pos' = Len(s)
        /\ buf' = buf /\ file' = file /\ saved' = saved /\ at' = at
    BY <1>2 DEF Recall, Edit, fileVars
  <2>2. IsLine(local_buf', len') /\ cursor_pos' \in 0 .. len'
    <3>1. local_buf \in [Cells -> Char] /\ Len(s) \in Nat
      BY <1>1 DEF IsLine, Fitting, Text
    <3>2. IsLine(StrCpy(local_buf, s), Len(s))
      BY <3>1, StrCpyIs
    <3> QED BY <2>1, <3>1, <3>2
  <2>3. history_nav_pos' \in -1 .. history_count' - 1
    BY <1>2
  <2>4. IsRing(Ring')
    BY <1>2
  <2>5. /\ buf' \in Fitting /\ at' \in {"edit", "remove", "create", "print"} /\ saved' \in BOOLEAN
    BY <1>1, <2>1
  <2>6. IsFile(file')
    BY <1>1, <2>1
  <2> QED BY <2>2, <2>3, <2>4, <2>5, <2>6, Rebuilt
<1>3. CASE ArrowUp
  <2>1. /\ history_nav_pos < history_count - 1 /\ history_nav_pos' = history_nav_pos + 1
        /\ history_buf' = IF history_nav_pos = -1
                          THEN [history_buf EXCEPT ![MAX_HISTORY] = String(local_buf)] ELSE history_buf
        /\ Recall(Recent(history_nav_pos + 1))
        /\ history_head' = history_head /\ history_tail' = history_tail /\ history_count' = history_count
    BY <1>3 DEF ArrowUp
  <2>2. history_nav_pos + 1 \in Int /\ history_nav_pos' \in -1 .. history_count - 1
    BY <1>0, <1>1, <2>1
  <2>3. Recent(history_nav_pos + 1) \in Fitting
    BY <1>1, <2>2, RecentFits
  <2>4. history_buf' \in [0 .. MAX_HISTORY -> Fitting]
    <3>1. String(local_buf) \in Fitting
      BY <1>1, StringIs
    <3>2. [history_buf EXCEPT ![MAX_HISTORY] = String(local_buf)] \in [0 .. MAX_HISTORY -> Fitting]
      BY <1>0, <3>1
    <3> QED BY <1>0, <2>1, <3>2
  <2>5. IsRing(Ring')
    <3>1. \A k \in 0 .. MAX_HISTORY - 1 : history_buf'[k] = history_buf[k]
      BY <1>0, <2>1
    <3>2. Packed(Ring)
      BY <1>1 DEF IsRing
    <3>3. Packed(Ring')
      BY <2>1, <3>1, <3>2 DEF Packed, Ring
    <3> QED BY <1>0, <2>1, <2>4, <3>3 DEF IsRing, Ring
  <2> QED BY <1>2, <2>1, <2>2, <2>3, <2>5
<1>4. CASE ArrowDown
  <2> DEFINE s == IF history_nav_pos = 0 THEN history_buf[MAX_HISTORY] ELSE Recent(history_nav_pos - 1)
  <2>1. /\ history_nav_pos > -1 /\ history_nav_pos' = history_nav_pos - 1 /\ Recall(s)
        /\ Ring' = Ring /\ history_count' = history_count
    BY <1>4 DEF ArrowDown, ringVars, Ring
  <2>2. history_nav_pos - 1 \in Int /\ history_nav_pos' \in -1 .. history_count - 1
    BY <1>0, <1>1, <2>1
  <2>3. s \in Fitting
    <3>1. Recent(history_nav_pos - 1) \in Fitting
      BY <1>1, <2>2, RecentFits
    <3>2. history_buf[MAX_HISTORY] \in Fitting
      BY <1>0
    <3> QED BY <3>1, <3>2
  <2> HIDE DEF s
  <2>4. IsRing(Ring')
    BY <1>1, <2>1
  <2> QED BY <1>2, <2>1, <2>2, <2>3, <2>4
<1> QED BY <1>3, <1>4

(* Enter, the end of the input, saving and starting.                       *)
LEMMA OtherSteps ==
  ASSUME BufferInv,
         Enter \/ CtrlD \/ SaveRemove \/ SaveCreate \/ SavePrint \/ RunHistory \/ Restart
  PROVE  BufferInv'
<1>1. /\ IsLine(local_buf, len) /\ IsRing(Ring) /\ history_nav_pos \in -1 .. history_count - 1
      /\ buf \in Fitting /\ IsFile(file) /\ cursor_pos \in 0 .. len
      /\ at \in {"edit", "remove", "create", "print"} /\ saved \in BOOLEAN
  BY Parts DEF BufferInv, TypeOK
<1>0. /\ MAX_HISTORY \in Nat \ {0} /\ history_count \in 0 .. MAX_HISTORY /\ 0 \in Cells
      /\ 0 \in 0 .. 0 /\ <<>> \in Fitting
  BY <1>1, LineAssumption DEF IsRing, Ring, Cells, Fitting, Text
<1>2. ASSUME NEW s \in Fitting, Returns(s) PROVE BufferInv'
  <2>1. /\ buf' = s /\ HistoryAdd(s) /\ StartLine /\ file' = file /\ saved' = saved
    BY <1>2 DEF Returns, fileVars
  <2>2. IsLine(local_buf', len') /\ cursor_pos' \in 0 .. len' /\ history_nav_pos' = -1
    <3>1. local_buf' = [local_buf EXCEPT ![0] = NUL] /\ len' = 0 /\ cursor_pos' = 0 /\ history_nav_pos' = -1
      BY <2>1 DEF StartLine
    <3>2. 0 \in 0 .. len
      BY <1>1, Parts
    <3>3. IsLine([local_buf EXCEPT ![0] = NUL], 0)
      BY <1>1, <3>2, Cut
    <3> QED BY <1>0, <3>1, <3>3
  <2>3. IsRing(Ring') /\ at' \in {"edit", "remove", "create", "print"}
    <3>1. CASE Recorded(s)
      <4>1. RingBecomes(RingAdd(Ring, s)) /\ at' = "remove"
        BY <2>1, <3>1 DEF HistoryAdd
      <4>2. IsRing(RingAdd(Ring, s))
        BY <1>1, <3>1, RingAddOk DEF Recorded
      <4>3. IsRing(Ring')
        BY <4>1, <4>2, BecomesRing
      <4> QED BY <4>1, <4>3
    <3>2. CASE ~ Recorded(s)
      <4>1. Ring' = Ring /\ at' = at
        BY <2>1, <3>2 DEF HistoryAdd, ringVars, Ring
      <4> QED BY <1>1, <4>1
    <3> QED BY <3>1, <3>2
  <2>4. history_nav_pos' \in -1 .. history_count' - 1
    <3>1. history_count' \in 0 .. MAX_HISTORY
      BY <2>3 DEF IsRing, Ring
    <3>2. history_nav_pos' = -1 /\ MAX_HISTORY \in Nat
      BY <1>0, <2>2
    <3>3. history_count' \in Nat
      BY <3>1, <3>2
    <3>4. \A c \in Nat : -1 \in -1 .. c - 1
      OBVIOUS
    <3> QED BY <3>2, <3>3, <3>4
  <2>5. IsFile(file')
    BY <1>1, <2>1
  <2>6. buf' \in Fitting /\ saved' \in BOOLEAN
    BY <1>1, <2>1
  <2> QED BY <2>2, <2>3, <2>4, <2>5, <2>6, Rebuilt
<1>3. CASE Enter
  <2>1. Cleaned(String(local_buf)) \in Fitting
    BY <1>1, StringIs, CleanedFits
  <2> QED BY <1>2, <1>3, <2>1 DEF Enter
<1>4. CASE CtrlD
  BY <1>1, <1>2, <1>4 DEF CtrlD
<1>5. ASSUME SaveLeaves, IsFile(file'), saved' \in BOOLEAN,
             at' \in {"edit", "remove", "create", "print"}
      PROVE  BufferInv'
  <2>1. /\ local_buf' = local_buf /\ len' = len /\ cursor_pos' = cursor_pos /\ Ring' = Ring
        /\ history_nav_pos' = history_nav_pos /\ history_count' = history_count /\ buf' = buf
    BY <1>5 DEF SaveLeaves, lineVars, ringVars, Ring
  <2>2. /\ IsLine(local_buf', len') /\ cursor_pos' \in 0 .. len' /\ IsRing(Ring')
        /\ history_nav_pos' \in -1 .. history_count' - 1 /\ buf' \in Fitting
    BY <1>1, <2>1
  <2> QED BY <1>5, <2>2, Rebuilt
<1>6. CASE SaveRemove
  <2>1. IsFile(<<>>)
    BY DEF IsFile
  <2> QED BY <1>5, <1>6, <2>1 DEF SaveRemove
<1>7. CASE SaveCreate
  <2>1. file' = file /\ saved' = saved
    BY <1>7 DEF SaveCreate, fileVars
  <2> QED BY <1>1, <1>5, <1>7, <2>1 DEF SaveCreate
<1>8. CASE SavePrint
  <2> DEFINE lines == Listed(Ring)
  <2>1. lines \in Seq(Fitting)
    BY <1>1, ListedFits
  <2> HIDE DEF lines
  <2>2. SaveLeaves /\ at' = "edit" /\ saved' \in BOOLEAN
        /\ (file' = Printed(lines) \/ \E full : file' = Left(lines, full))
    BY <1>8, Zenon DEF SavePrint, lines
  <2>3. IsFile(Printed(lines))
    <3>1. IsText(Printed(lines))
      BY <2>1, PrintedOk
    <3> QED BY <3>1 DEF IsText, IsFile
  <2>4. IsFile(file')
    BY <2>1, <2>2, <2>3, LeftOk
  <2> QED BY <1>5, <2>2, <2>4
<1>10. CASE RunHistory
  <2>1. IsFile(file')
    BY <1>1, <1>10, OpensOk DEF RunHistory
  <2>2. SaveLeaves /\ saved' = saved /\ at' = at
    BY <1>10 DEF RunHistory, SaveLeaves
  <2> QED BY <1>1, <1>5, <2>1, <2>2
<1>9. CASE Restart
  <2> DEFINE r == IF saved' THEN HistoryLoad(file') ELSE EmptyRing
  <2>0. Opens /\ saved' = (Holes(file') = {})
    BY <1>9 DEF Restart
  <2>1. IsRing(r)
    <3>1. saved' => IsHistory(file')
      BY <1>1, <2>0, OpensOk
    <3> QED BY <3>1, HistoryLoadOk, EmptyRingOk
  <2> HIDE DEF r
  <2>2. /\ RingBecomes(r) /\ local_buf' = [i \in Cells |-> NUL] /\ len' = 0 /\ cursor_pos' = 0
        /\ history_nav_pos' = -1 /\ buf' = <<>> /\ saved' \in BOOLEAN /\ at' = at
    BY <1>9, <2>0 DEF Restart, r
  <2>3. IsRing(Ring')
    BY <2>1, <2>2, BecomesRing
  <2>4. history_nav_pos' \in -1 .. history_count' - 1
    <3>1. history_count' \in 0 .. MAX_HISTORY
      BY <2>3 DEF IsRing, Ring
    <3>2. history_count' \in Nat /\ history_nav_pos' = -1
      BY <1>0, <2>2, <3>1
    <3>3. \A c \in Nat : -1 \in -1 .. c - 1
      OBVIOUS
    <3> QED BY <3>2, <3>3
  <2>5. IsLine(local_buf', len') /\ cursor_pos' \in 0 .. len'
    BY <1>0, <2>2 DEF IsLine, EndsAt, Char
  <2>6. IsFile(file')
    BY <1>1, <2>0, OpensOk
  <2>7. buf' \in Fitting /\ saved' \in BOOLEAN /\ at' \in {"edit", "remove", "create", "print"}
    BY <1>0, <1>1, <2>2
  <2> QED BY <2>3, <2>4, <2>5, <2>6, <2>7, Rebuilt
<1> QED BY <1>3, <1>4, <1>6, <1>7, <1>8, <1>9, <1>10

(* The first shell.                                                        *)
LEMMA InitBuffers == Init => BufferInv
<1> SUFFICES ASSUME Init PROVE BufferInv
  OBVIOUS
<1>1. /\ local_buf = [k \in Cells |-> NUL] /\ len = 0 /\ cursor_pos = 0
      /\ history_buf = EmptyRing.slot /\ history_head = 0 /\ history_tail = 0
      /\ history_count = 0 /\ history_nav_pos = -1
      /\ buf = <<>> /\ file = <<>> /\ saved = TRUE /\ at = "edit"
  BY DEF Init
<1>2. 0 \in Cells /\ <<>> \in Fitting /\ MAX_HISTORY \in Nat \ {0} /\ 0 \in 0 .. 0 /\ -1 \in -1 .. 0 - 1
  BY LineAssumption DEF Cells, Fitting, Text
<1>3. local_buf \in [Cells -> Printable \cup {NUL}] /\ EndsAt(local_buf, len)
  BY <1>1, <1>2 DEF EndsAt
<1>4. history_buf \in [0 .. MAX_HISTORY -> Fitting]
  BY <1>1, EmptyRingOk DEF IsRing
<1>5. history_nav_pos \in -1 .. history_count - 1
  BY <1>1, <1>2
<1>6. /\ len \in Cells /\ cursor_pos \in 0 .. len /\ history_head \in 0 .. MAX_HISTORY - 1
      /\ history_tail \in 0 .. MAX_HISTORY - 1 /\ history_count \in 0 .. MAX_HISTORY
  BY <1>1, <1>2
<1>7. TypeOK
  BY <1>1, <1>3, <1>4, <1>5, <1>6 DEF TypeOK
<1>8. Packed(Ring)
  BY <1>1, <1>2 DEF Packed, Ring
<1> QED BY <1>1, <1>2, <1>3, <1>4, <1>7, <1>8 DEF BufferInv

(* Every key, and every step of saving and starting.                       *)
LEMMA NextBuffers == BufferInv /\ [Next]_vars => BufferInv'
<1> SUFFICES ASSUME BufferInv, [Next]_vars PROVE BufferInv'
  OBVIOUS
<1>1. CASE Next
  BY <1>1, LineKeys, RecallKeys, OtherSteps, Zenon DEF Next
<1>2. CASE UNCHANGED vars
  BY <1>2 DEF vars, lineVars, ringVars, fileVars, BufferInv, TypeOK, EndsAt, Packed, Ring
<1> QED BY <1>1, <1>2

(* Whatever is typed, moved over, deleted and recalled, whatever the file  *)
(* holds after a save that failed half way, whatever its missing blocks    *)
(* turn out to hold and wherever history_load cuts it: every memmove,      *)
(* strcpy and index of shellio.c stays in its buffer, and no command that  *)
(* does not fit a buffer gets into the ring.                               *)
THEOREM BuffersInvariant == Spec => []BufferInv
<1>1. Init => BufferInv
  BY InitBuffers
<1>2. BufferInv /\ [Next]_vars => BufferInv'
  BY NextBuffers
<1> QED BY <1>1, <1>2, PTL DEF Spec

(* len is the length of the string in local_buf.                           *)
THEOREM LenIsLength == Spec => []LenIsStrlen
<1>1. BufferInv => LenIsStrlen
  <2> SUFFICES ASSUME BufferInv PROVE LenIsStrlen
    OBVIOUS
  <2>1. len \in Cells /\ EndsAt(local_buf, len)
    BY Parts DEF IsLine
  <2> QED BY <2>1, StrLenIs DEF LenIsStrlen
<1> QED BY <1>1, BuffersInvariant, PTL

-----------------------------------------------------------------------------
(* What history_save writes, history_load reads back.                      *)

(* What is printed of n lines is the beginning of what is printed of all:  *)
(* their k-th byte is the k-th of the text.                                *)
Begins(u, t) == Len(u) <= Len(t) /\ \A k \in 1 .. Len(u) : t[k] = u[k]

(* What begins with one line more begins without it.                       *)
LEMMA BeginsLess ==
  ASSUME NEW t, IsText(t), NEW s \in Fitting, NEW w, Len(w) \in Nat,
         Begins(OneLine(t, s), w)
  PROVE  Begins(t, w)
<1> DEFINE u == OneLine(t, s)
<1>1. Len(u) = Len(t) + Len(s) + 1 /\ \A k \in 1 .. Len(t) : u[k] = t[k]
  BY OneLineOk
<1>2. Len(t) \in Nat /\ Len(s) \in Nat
  BY DEF IsText, Fitting, Text
<1>3. Begins(u, w)
  OBVIOUS
<1> HIDE DEF u
<1>4. Len(t) <= Len(w) /\ \A k \in 1 .. Len(t) : k \in 1 .. Len(u)
  BY <1>1, <1>2, <1>3 DEF Begins
<1> QED BY <1>1, <1>3, <1>4 DEF Begins

(* The text is what is printed of the first lines, and then of the others. *)
LEMMA PrintPrefixes ==
  ASSUME NEW lines \in Seq(Fitting), NEW print, IsPrint(print, lines, Len(lines))
  PROVE  /\ print[0] = <<>>
         /\ \A n \in 0 .. Len(lines) : IsText(print[n]) /\ Begins(print[n], print[Len(lines)])
         /\ \A n \in 0 .. Len(lines) - 1 : print[n + 1] = OneLine(print[n], lines[n + 1])
<1> DEFINE N == Len(lines)
           S == {n \in 0 .. N : IsText(print[n])}
           B == {j \in 0 .. N : Begins(print[N - j], print[N])}
<1>1. N \in Nat /\ \A n \in 1 .. N : lines[n] \in Fitting
  OBVIOUS
<1>2. print[0] = <<>>
  BY <1>1 DEF IsPrint
<1>3. \A n \in 0 .. N - 1 : n + 1 \in 1 .. N /\ print[n + 1] = OneLine(print[n], lines[n + 1])
  <2> TAKE n \in 0 .. N - 1
  <2>1. n + 1 \in 0 .. N /\ n + 1 # 0 /\ n + 1 \in 1 .. N /\ (n + 1) - 1 = n
    BY <1>1
  <2> QED BY <2>1 DEF IsPrint
<1> HIDE DEF N
<1>4. 0 \in S
  <2>1. IsText(<<>>)
    BY DEF IsText
  <2> QED BY <1>1, <1>2, <2>1
<1>5. ASSUME NEW n \in 0 .. N - 1, n \in S PROVE n + 1 \in S
  <2>1. n + 1 \in 0 .. N /\ lines[n + 1] \in Fitting /\ print[n + 1] = OneLine(print[n], lines[n + 1])
    BY <1>1, <1>3
  <2> QED BY <1>5, <2>1, OneLineOk
<1>6. \A n \in 0 .. N : n \in S
  <2> HIDE DEF S
  <2> QED BY <1>1, <1>4, <1>5, UpTo
<1>7. 0 \in B
  <2>1. N - 0 = N /\ N \in 0 .. N /\ 0 \in 0 .. N
    BY <1>1
  <2>2. Len(print[N]) \in Nat
    BY <1>6, <2>1 DEF IsText
  <2> QED BY <2>1, <2>2 DEF Begins
<1>8. ASSUME NEW j \in 0 .. N - 1, j \in B PROVE j + 1 \in B
  <2> DEFINE n == N - (j + 1)
  <2>1. n \in 0 .. N - 1 /\ n \in 0 .. N /\ N - j = n + 1 /\ j + 1 \in 0 .. N
    BY <1>1
  <2> HIDE DEF n
  <2>2. print[n + 1] = OneLine(print[n], lines[n + 1]) /\ lines[n + 1] \in Fitting
    BY <1>1, <1>3, <2>1
  <2>5. Begins(print[n + 1], print[N])
    BY <1>8, <2>1
  <2>6. Len(print[N]) \in Nat
    <3>1. N \in 0 .. N
      BY <1>1
    <3> QED BY <1>6, <3>1 DEF IsText
  <2>7. Begins(print[n], print[N])
    <3>1. IsText(print[n])
      BY <1>6, <2>1
    <3> QED BY <2>2, <2>5, <2>6, <3>1, BeginsLess
  <2> QED BY <2>1, <2>7 DEF n
<1>9. \A j \in 0 .. N : j \in B
  <2> HIDE DEF B
  <2> QED BY <1>1, <1>7, <1>8, UpTo
<1>10. \A n \in 0 .. N : Begins(print[n], print[N])
  <2> TAKE n \in 0 .. N
  <2>1. N - n \in 0 .. N /\ N - (N - n) = n
    BY <1>1
  <2> QED BY <1>9, <2>1
<1>11. \A n \in 0 .. N : IsText(print[n])
  BY <1>6
<1> QED BY <1>2, <1>3, <1>10, <1>11 DEF N

(* Where history_load is after reading the lines printed in u.             *)
At(load, u, r) == load[Len(u)] = [line_start |-> Len(u), ring |-> r]

(* It reads one line more: up to the newline nothing happens, and there    *)
(* the command is added.                                                   *)
LEMMA LoadLine ==
  ASSUME NEW t, IsText(t), Len(t) <= CHUNK, NEW load, IsLoad(load, t, Len(t)),
         NEW u, IsText(u), NEW s \in Fitting, s # <<>>, Begins(OneLine(u, s), t),
         NEW r, At(load, u, r)
  PROVE  At(load, OneLine(u, s), RingAdd(r, s))
<1> DEFINE o == Len(u)
           m == Len(s)
           w == OneLine(u, s)
           S == {j \in 0 .. m : load[o + j] = load[o]}
<1>1. /\ Len(w) = o + m + 1
      /\ \A k \in 1 .. m : w[o + k] = s[k]
      /\ w[o + m + 1] = NL
  BY OneLineOk
<1>2. o \in Nat /\ m \in Nat /\ \A k \in 1 .. m : s[k] \in Printable
  BY DEF IsText, Fitting, Text
<1>3. m > 0
  <2>1. s \in Seq(Printable)
    BY DEF Fitting, Text
  <2> QED BY <2>1, EmptySeq
<1>4. CHUNK \in Nat \ {0} /\ Len(t) \in Nat /\ t \in Seq(Printable \cup {NL})
  BY LineAssumption DEF IsText
<1>5. Len(w) <= Len(t) /\ \A k \in 1 .. Len(w) : t[k] = w[k]
  BY DEF Begins
<1> HIDE DEF w
<1>6. \A k \in 1 .. Len(t) : load[k] = LoadByte(t, load[k - 1], k) /\ (k - 1) % CHUNK = k - 1
  <2> TAKE k \in 1 .. Len(t)
  <2>1. k \in 0 .. Len(t) /\ k # 0 /\ k - 1 \in 0 .. CHUNK - 1
    BY <1>4
  <2>2. load[k] = LoadByte(t, load[k - 1], k)
    BY <2>1 DEF IsLoad
  <2>3. (k - 1) % CHUNK = k - 1
    BY <1>4, <2>1, SmallMod
  <2> QED BY <2>2, <2>3
<1>7. o + m + 1 \in 1 .. Len(t) /\ t[o + m + 1] = NL
  BY <1>1, <1>2, <1>4, <1>5
<1>8. \A k \in 1 .. m : o + k \in 1 .. Len(t) /\ t[o + k] = s[k]
  <2> TAKE k \in 1 .. m
  <2>1. o + k \in 1 .. Len(w) /\ o + k \in 1 .. Len(t)
    BY <1>1, <1>2, <1>4, <1>5
  <2> QED BY <1>1, <1>5, <2>1
<1> HIDE DEF o, m
<1>9. 0 \in S
  BY <1>2
<1>10. ASSUME NEW j \in 0 .. m - 1, j \in S PROVE j + 1 \in S
  <2> DEFINE k == o + (j + 1)
  <2>1. j + 1 \in 1 .. m /\ j + 1 \in 0 .. m /\ k - 1 = o + j
    BY <1>2
  <2>2. k \in 1 .. Len(t) /\ t[k] = s[j + 1] /\ s[j + 1] \in Printable
    BY <1>2, <1>8, <2>1
  <2>3. t[k] # NL
    BY <2>2, LineAssumption
  <2>4. load[k] = LoadByte(t, load[o + j], k)
    BY <1>6, <2>1, <2>2
  <2> HIDE DEF k
  <2>5. load[k] = load[o + j]
    BY <2>3, <2>4 DEF LoadByte
  <2>6. load[k] = load[o]
    BY <1>10, <2>5
  <2> QED BY <2>1, <2>6 DEF k
<1>11. load[o + m] = load[o]
  <2> HIDE DEF S
  <2>1. \A j \in 0 .. m : j \in S
    BY <1>2, <1>9, <1>10, UpTo
  <2>2. m \in S
    BY <1>2, <2>1
  <2> QED BY <2>2 DEF S
<1>12. load[o] = [line_start |-> o, ring |-> r]
  BY DEF At, o
<1> DEFINE e == o + m + 1
<1>13. load[e] = LoadByte(t, load[o], e) /\ (e - 1) % CHUNK = o + m
  <2>1. e - 1 = o + m
    BY <1>2
  <2> HIDE DEF e
  <2>2. e \in 1 .. Len(t)
    BY <1>7 DEF e
  <2> QED BY <1>6, <1>11, <2>1, <2>2
<1>14. Line(t, e - 1 - (o + m), o, o + m) = s
  <2>1. (e - 1 - (o + m)) + o + 1 = o + 1 /\ (e - 1 - (o + m)) + (o + m) = o + m
    BY <1>2
  <2>2. Line(t, e - 1 - (o + m), o, o + m) = CString(SubSeq(t, o + 1, o + m))
    BY <2>1 DEF Line
  <2> DEFINE v == SubSeq(t, o + 1, o + m)
  <2>3. ASSUME NEW x \in o + 1 .. o + m PROVE t[x] \in Printable
    <3>1. x - o \in 1 .. m /\ o + (x - o) = x
      BY <1>2
    <3> QED BY <1>2, <1>8, <3>1
  <2>4. v \in Seq(Printable) /\ Len(v) = m /\ \A x \in 1 .. m : v[x] = t[o + x]
    <3>1. /\ v \in Seq(Printable)
          /\ Len(v) = IF o + 1 <= o + m THEN (o + m) - (o + 1) + 1 ELSE 0
          /\ \A x \in 1 .. (o + m) - (o + 1) + 1 : v[x] = t[(o + 1) + x - 1]
      <4>1. o + 1 \in Int /\ o + m \in Int
        BY <1>2
      <4> QED BY <2>3, <4>1, SubSeqProperties
    <3>2. (o + m) - (o + 1) + 1 = m /\ o + 1 <= o + m
      BY <1>2, <1>3 DEF m
    <3>3. \A x \in 1 .. m : (o + 1) + x - 1 = o + x
      BY <1>2
    <3> HIDE DEF v
    <3> QED BY <3>1, <3>2, <3>3
  <2> HIDE DEF v
  <2>5. s \in Seq(Printable) /\ Len(s) = m
    BY DEF Fitting, Text, m
  <2>6. \A x \in 1 .. m : v[x] = s[x]
    BY <1>8, <2>4
  <2>7. v = s
    BY <2>4, <2>5, <2>6, SeqEqual
  <2>8. v \in Seq(Printable \cup {NUL})
    BY <2>4
  <2>9. CString(v) = v
    BY <2>4, <2>8, CStringIs
  <2> QED BY <2>2, <2>7, <2>9 DEF v
<1>15. t[e] = NL /\ e - 1 = o + m /\ (o + m) - o > 0 /\ (o + m) + 1 = e
  BY <1>2, <1>3, <1>7 DEF m
<1> HIDE DEF e
<1>16. LoadByte(t, load[o], e) = [line_start |-> (o + m) + 1,
         ring |-> IF (o + m) - o > 0 THEN RingAdd(r, Line(t, e - 1 - (o + m), o, o + m)) ELSE r]
  BY <1>12, <1>13, <1>15 DEF LoadByte
<1>17. load[e] = [line_start |-> e, ring |-> RingAdd(r, s)]
  BY <1>13, <1>14, <1>15, <1>16
<1>18. Len(w) = e
  BY <1>1 DEF e, o, m
<1> QED BY <1>17, <1>18 DEF At, w

(* The ring holds the first n lines, in place.                             *)
Holds(r, lines, n) ==
  /\ IsRing(r) /\ r.count = n /\ r.head = 0
  /\ \A k \in 1 .. n : r.slot[k - 1] = lines[k]

(* And then one more.                                                      *)
LEMMA HoldsMore ==
  ASSUME NEW lines, NEW n \in Nat, n < MAX_HISTORY, NEW r, Holds(r, lines, n),
         lines[n + 1] \in Fitting
  PROVE  Holds(RingAdd(r, lines[n + 1]), lines, n + 1)
<1> DEFINE q == RingAdd(r, lines[n + 1])
<1>0. MAX_HISTORY \in Nat \ {0} /\ IsRing(r) /\ r.count = n
  BY LineAssumption DEF Holds
<1>1. r.tail = n /\ r.slot \in [0 .. MAX_HISTORY -> Fitting]
  BY <1>0 DEF IsRing, Packed
<1>2. IsRing(q)
  BY <1>0, RingAddOk
<1>3. q.count = n + 1 /\ q.head = 0 /\ q.slot = [r.slot EXCEPT ![n] = lines[n + 1]]
  BY <1>0, <1>1 DEF RingAdd, Holds
<1> HIDE DEF q
<1>4. ASSUME NEW k \in 1 .. n + 1 PROVE q.slot[k - 1] = lines[k]
  <2>1. k - 1 \in 0 .. MAX_HISTORY /\ n \in 0 .. MAX_HISTORY
    BY <1>0
  <2>2. CASE k = n + 1
    <3>1. k - 1 = n
      BY <2>2
    <3> QED BY <1>1, <1>3, <2>1, <2>2, <3>1
  <2>3. CASE k \in 1 .. n
    <3>1. k - 1 # n
      BY <2>3
    <3>2. q.slot[k - 1] = r.slot[k - 1]
      BY <1>1, <1>3, <2>1, <3>1
    <3> QED BY <2>3, <3>2 DEF Holds
  <2> QED BY <2>2, <2>3
<1>5. Holds(q, lines, n + 1)
  BY <1>2, <1>3, <1>4 DEF Holds
<1> QED BY <1>5 DEF q

(* A history printed to a file that is read at once is loaded as it was.   *)
LEMMA ReadBack ==
  ASSUME NEW lines \in Seq(Fitting), Len(lines) <= MAX_HISTORY,
         \A k \in 1 .. Len(lines) : lines[k] # <<>>, Len(Printed(lines)) <= CHUNK
  PROVE  Listed(HistoryLoad(Printed(lines))) = lines
<1> DEFINE N == Len(lines)
           t == Printed(lines)
<1>1. N \in Nat /\ \A n \in 1 .. N : lines[n] \in Fitting /\ lines[n] # <<>>
  OBVIOUS
<1>2. MAX_HISTORY \in Nat \ {0} /\ N <= MAX_HISTORY
  BY LineAssumption
<1>3. PICK print : IsPrint(print, lines, N) /\ t = print[N]
  BY <1>1, PrintIs
<1>4. /\ print[0] = <<>>
      /\ \A n \in 0 .. N : IsText(print[n]) /\ Begins(print[n], t)
      /\ \A n \in 0 .. N - 1 : print[n + 1] = OneLine(print[n], lines[n + 1])
  <2>1. IsPrint(print, lines, Len(lines)) /\ t = print[Len(lines)]
    BY <1>3
  <2> HIDE DEF t
  <2> QED BY <2>1, PrintPrefixes
<1>5. IsText(t) /\ Len(t) <= CHUNK /\ Len(t) \in Nat
  BY <1>1, <1>3, <1>4 DEF IsText
<1> HIDE DEF N, t
<1>7. PICK load : IsLoad(load, t, Len(t)) /\ HistoryLoad(t) = load[Len(t)].ring
  BY <1>5, LoadIs
<1> DEFINE S == {n \in 0 .. N : \E r : At(load, print[n], r) /\ Holds(r, lines, n)}
<1>8. 0 \in S
  <2>1. load[0] = [line_start |-> 0, ring |-> EmptyRing]
    BY <1>5, <1>7 DEF IsLoad
  <2>2. Len(print[0]) = 0
    BY <1>4
  <2>3. At(load, print[0], EmptyRing)
    BY <2>1, <2>2 DEF At
  <2>4. Holds(EmptyRing, lines, 0)
    BY EmptyRingOk DEF Holds, EmptyRing
  <2> QED BY <1>1, <2>3, <2>4
<1>9. ASSUME NEW n \in 0 .. N - 1, n \in S PROVE n + 1 \in S
  <2>1. PICK r : At(load, print[n], r) /\ Holds(r, lines, n)
    BY <1>9
  <2>2. /\ n \in 0 .. N /\ n + 1 \in 0 .. N /\ n + 1 \in 1 .. N /\ n \in Nat /\ n < MAX_HISTORY
        /\ lines[n + 1] \in Fitting /\ lines[n + 1] # <<>>
    BY <1>1, <1>2
  <2> DEFINE s == lines[n + 1]
  <2>3. print[n + 1] = OneLine(print[n], s)
    BY <1>4
  <2>4. /\ IsText(print[n]) /\ Begins(OneLine(print[n], s), t)
        /\ s \in Fitting /\ s # <<>>
    BY <1>4, <2>2, <2>3
  <2>5. At(load, OneLine(print[n], s), RingAdd(r, s))
    <3> HIDE DEF s
    <3> QED BY <1>5, <1>7, <2>1, <2>4, LoadLine
  <2>6. Holds(RingAdd(r, s), lines, n + 1)
    BY <2>1, <2>2, HoldsMore
  <2>7. At(load, print[n + 1], RingAdd(r, s))
    BY <2>3, <2>5
  <2> QED BY <2>2, <2>6, <2>7
<1>10. N \in S
  <2> HIDE DEF S
  <2>1. \A n \in 0 .. N : n \in S
    BY <1>1, <1>8, <1>9, UpTo
  <2> QED BY <1>1, <2>1
<1>11. PICK r : At(load, t, r) /\ Holds(r, lines, N)
  BY <1>3, <1>10
<1>12. HistoryLoad(t) = r
  BY <1>7, <1>11 DEF At
<1>13. Listed(r) = lines
  <2>1. r.count = N /\ IsRing(r)
    BY <1>11 DEF Holds
  <2>2. Listed(r) \in Seq(Fitting) /\ Len(Listed(r)) = N
        /\ \A k \in 1 .. N : Listed(r)[k] = r.slot[(r.head + k - 1) % MAX_HISTORY]
    BY <2>1, ListedFits
  <2>3. ASSUME NEW k \in 1 .. N PROVE Listed(r)[k] = lines[k]
    <3>1. r.head = 0
      BY <1>11 DEF Holds
    <3>2. r.head + k - 1 = k - 1 /\ k - 1 \in 0 .. MAX_HISTORY - 1
      BY <1>1, <1>2, <3>1
    <3>3. (k - 1) % MAX_HISTORY = k - 1
      BY <1>2, <3>2, SmallMod
    <3> QED BY <1>11, <2>2, <3>2, <3>3 DEF Holds
  <2>4. lines \in Seq(Fitting) /\ Len(lines) = N
    BY DEF N
  <2> QED BY <2>2, <2>3, <2>4, SeqEqual
<1> QED BY <1>12, <1>13 DEF t

(* What is listed does not depend on the draft.                            *)
LEMMA SameListed ==
  ASSUME IsRing(Ring), history_count' = history_count, history_head' = history_head,
         \A k \in 0 .. MAX_HISTORY - 1 : history_buf'[k] = history_buf[k]
  PROVE  Listed(Ring') = Listed(Ring)
<1>0. MAX_HISTORY \in Nat \ {0} /\ history_head \in Int /\ history_count \in Int
  BY LineAssumption DEF IsRing, Ring
<1>1. ASSUME NEW k \in 1 .. history_count
      PROVE  history_buf'[(history_head + k - 1) % MAX_HISTORY]
               = history_buf[(history_head + k - 1) % MAX_HISTORY]
  <2>1. history_head + k - 1 \in Int
    BY <1>0
  <2>2. (history_head + k - 1) % MAX_HISTORY \in 0 .. MAX_HISTORY - 1
    BY <1>0, <2>1, ModIn
  <2> QED BY <2>2
<1>2. Listed(Ring) = [k \in 1 .. history_count |-> history_buf[(history_head + k - 1) % MAX_HISTORY]]
  BY DEF Listed, Ring
<1>3. Listed(Ring') = [k \in 1 .. history_count |-> history_buf'[(history_head + k - 1) % MAX_HISTORY]]
  BY DEF Listed, Ring
<1> QED BY <1>1, <1>2, <1>3

(* Positions in the ring go around once.                                   *)
LEMMA Wrap ==
  ASSUME NEW x \in 0 .. MAX_HISTORY - 1, NEW k \in 0 .. MAX_HISTORY
  PROVE  (x + k) % MAX_HISTORY = IF x + k < MAX_HISTORY THEN x + k ELSE x + k - MAX_HISTORY
<1>0. MAX_HISTORY \in Nat \ {0}
  BY LineAssumption
<1>1. CASE x + k < MAX_HISTORY
  <2>1. x + k \in 0 .. MAX_HISTORY - 1
    BY <1>0, <1>1
  <2> QED BY <1>0, <1>1, <2>1, SmallMod
<1>2. CASE ~ (x + k < MAX_HISTORY)
  <2> DEFINE y == x + k - MAX_HISTORY
             z == x + k
  <2>1. y \in 0 .. MAX_HISTORY - 1 /\ z = MAX_HISTORY * 1 + y /\ z \in Int
    BY <1>0, <1>2
  <2> HIDE DEF y, z
  <2>2. z % MAX_HISTORY = y
    BY <1>0, <2>1, ModOf
  <2> QED BY <1>2, <2>2 DEF y, z
<1> QED BY <1>1, <1>2

(* The k-th command before the newest is the k-th from the end.            *)
LEMMA RecentIs ==
  ASSUME IsRing(Ring), NEW k \in 1 .. history_count
  PROVE  Recent(k - 1) = Listed(Ring)[history_count + 1 - k]
<1> DEFINE M == MAX_HISTORY
           c == history_count
           h == history_head
<1>0. M \in Nat \ {0}
  BY LineAssumption
<1>1. /\ c \in 0 .. M /\ h \in 0 .. M - 1
      /\ c < M => h = 0 /\ history_tail = c
      /\ c = M => history_tail = h
  BY DEF IsRing, Packed, Ring
<1>2. c + 1 - k \in 1 .. c /\ c - k \in 0 .. M - 1
  BY <1>0, <1>1
<1>3. Listed(Ring)[c + 1 - k] = history_buf[(h + (c + 1 - k) - 1) % M]
  BY <1>2, ListedFits DEF Ring
<1>4. h + (c + 1 - k) - 1 = h + c - k /\ history_tail - 1 - (k - 1) + M = history_tail - k + M
  BY <1>0, <1>1
<1>5. (h + c - k) % M = (history_tail - k + M) % M
  <2>1. CASE c = M
    <3>1. h + c - k = history_tail - k + M
      BY <1>0, <1>1, <2>1
    <3> QED BY <3>1
  <2>2. CASE c # M
    <3> DEFINE x == c - k
    <3>1. h + c - k = x /\ history_tail - k + M = x + M
      BY <1>0, <1>1, <2>2
    <3>2. x \in 0 .. M - 1 /\ M \in 0 .. M /\ ~ (x + M < M) /\ x + M - M = x
      BY <1>0, <1>2
    <3> HIDE DEF x
    <3>3. (x + M) % M = x
      BY <3>2, Wrap
    <3>4. x % M = x
      BY <1>0, <3>2, SmallMod
    <3> QED BY <3>1, <3>3, <3>4
  <2> QED BY <2>1, <2>2
<1>6. Recent(k - 1) = history_buf[(history_tail - 1 - (k - 1) + M) % M]
  BY DEF Recent
<1> QED BY <1>3, <1>4, <1>5, <1>6

(* history_add adds at the end of the list; a full ring forgets the oldest *)
(* command.                                                                *)
LEMMA ListedAdd ==
  ASSUME NEW r, IsRing(r), NEW s \in Fitting, s # <<>>
  PROVE  Listed(RingAdd(r, s)) = Abstract!LastOf(Append(Listed(r), s))
<1> DEFINE M == MAX_HISTORY
           q == RingAdd(r, s)
           a == Append(Listed(r), s)
           c == r.count
<1>0. M \in Nat \ {0}
  BY LineAssumption
<1>1. /\ r.slot \in [0 .. M -> Fitting] /\ r.head \in 0 .. M - 1 /\ r.tail \in 0 .. M - 1
      /\ c \in 0 .. M
      /\ c < M => r.head = 0 /\ r.tail = c
      /\ c = M => r.tail = r.head
  BY DEF IsRing, Packed
<1>2. /\ Listed(r) \in Seq(Fitting) /\ Len(Listed(r)) = c
      /\ \A k \in 1 .. c : Listed(r)[k] = r.slot[(r.head + k - 1) % M]
  BY ListedFits
<1>3. /\ a \in Seq(Fitting) /\ Len(a) = c + 1 /\ a[c + 1] = s
      /\ \A k \in 1 .. c : a[k] = Listed(r)[k]
  BY <1>2, AppendProperties
<1>4. IsRing(q)
  BY RingAddOk
<1>5. /\ Listed(q) \in Seq(Fitting) /\ Len(Listed(q)) = q.count
      /\ \A k \in 1 .. q.count : Listed(q)[k] = q.slot[(q.head + k - 1) % M]
  BY <1>4, ListedFits
<1>6. /\ q.slot = [r.slot EXCEPT ![r.tail] = s]
      /\ q.count = IF c < M THEN c + 1 ELSE c
      /\ q.head = IF c < M THEN r.head ELSE (r.head + 1) % M
  BY DEF RingAdd
<1> HIDE DEF q, a
<1>7. \A k \in 0 .. M : q.slot[k] = IF k = r.tail THEN s ELSE r.slot[k]
  BY <1>1, <1>6
<1>8. CASE c < M
  <2>1. q.count = c + 1 /\ q.head = 0 /\ r.head = 0 /\ r.tail = c
    BY <1>1, <1>6, <1>8
  <2>2. ASSUME NEW k \in 1 .. c + 1 PROVE Listed(q)[k] = a[k]
    <3>1. k - 1 \in 0 .. M - 1 /\ k - 1 \in 0 .. M /\ q.head + k - 1 = k - 1 /\ r.head + k - 1 = k - 1
      BY <1>0, <1>1, <1>8, <2>1
    <3>2. (k - 1) % M = k - 1
      BY <1>0, <3>1, SmallMod
    <3>3. Listed(q)[k] = q.slot[k - 1]
      BY <1>5, <2>1, <3>1, <3>2
    <3>4. CASE k = c + 1
      <4>1. k - 1 = r.tail
        BY <1>1, <2>1, <3>4
      <4> QED BY <1>3, <1>7, <3>1, <3>3, <3>4, <4>1
    <3>5. CASE k # c + 1
      <4>1. k \in 1 .. c /\ k - 1 # r.tail
        BY <1>1, <2>1, <3>5
      <4>2. a[k] = r.slot[k - 1]
        BY <1>2, <1>3, <3>1, <3>2, <4>1
      <4> QED BY <1>7, <3>1, <3>3, <4>1, <4>2
    <3> QED BY <3>4, <3>5
  <2>3. Listed(q) = a
    BY <1>3, <1>5, <2>1, <2>2, SeqEqual
  <2>4. ~ (Len(a) > M)
    BY <1>0, <1>1, <1>3, <1>8
  <2>5. Abstract!LastOf(a) = a
    BY <2>4 DEF Abstract!LastOf
  <2> QED BY <2>3, <2>5 DEF a, q
<1>9. CASE ~ (c < M)
  <2> DEFINE x == r.tail
  <2>1. c = M /\ q.count = M /\ q.head = (x + 1) % M /\ r.head = x /\ x \in 0 .. M - 1
    BY <1>0, <1>1, <1>6, <1>9
  <2> HIDE DEF x
  <2>2. Len(a) = M + 1 /\ Len(a) > M /\ Len(a) > 0 /\ a # <<>>
    BY <1>0, <1>3, <2>1
  <2>3. Tail(a) \in Seq(Fitting) /\ Len(Tail(a)) = M /\ \A k \in 1 .. M : Tail(a)[k] = a[k + 1]
    BY <1>0, <1>3, <2>2, HeadTailProperties
  <2>4. ASSUME NEW k \in 1 .. M PROVE Listed(q)[k] = Tail(a)[k]
    <3>1. (q.head + k - 1) % M = (x + k) % M
      <4>1. 1 \in 0 .. M /\ k \in 0 .. M /\ k - 1 \in 0 .. M - 1
        BY <1>0
      <4>2. (x + 1) % M = (IF x + 1 < M THEN x + 1 ELSE x + 1 - M)
        BY <2>1, <4>1, Wrap
      <4>3. (x + k) % M = (IF x + k < M THEN x + k ELSE x + k - M)
        BY <2>1, <4>1, Wrap
      <4>4. CASE x + 1 < M
        <5>1. q.head + k - 1 = x + k
          BY <2>1, <4>2, <4>4
        <5> QED BY <5>1
      <4>5. CASE ~ (x + 1 < M)
        <5>1. q.head + k - 1 = k - 1 /\ ~ (x + k < M) /\ x + k - M = k - 1
          BY <1>0, <2>1, <4>2, <4>5
        <5>2. (k - 1) % M = k - 1
          BY <1>0, <4>1, SmallMod
        <5> QED BY <4>3, <5>1, <5>2
      <4> QED BY <4>4, <4>5
    <3>2. (x + k) % M = (IF x + k < M THEN x + k ELSE x + k - M) /\ (x + k) % M \in 0 .. M
      <4>1. k \in 0 .. M
        BY <1>0
      <4>2. (x + k) % M = (IF x + k < M THEN x + k ELSE x + k - M)
        BY <2>1, <4>1, Wrap
      <4> QED BY <1>0, <2>1, <4>2
    <3>3. Listed(q)[k] = q.slot[(x + k) % M]
      BY <1>5, <2>1, <3>1
    <3>4. CASE k = M
      <4>1. (x + k) % M = x
        BY <1>0, <2>1, <3>2, <3>4
      <4>2. Tail(a)[k] = s
        BY <1>3, <2>1, <2>3, <3>4
      <4> QED BY <1>7, <3>2, <3>3, <4>1, <4>2 DEF x
    <3>5. CASE k # M
      <4>1. (x + k) % M # x
        BY <1>0, <2>1, <3>2, <3>5
      <4>2. k + 1 \in 1 .. c /\ r.head + (k + 1) - 1 = x + k
        BY <1>0, <2>1, <3>5
      <4>3. Tail(a)[k] = r.slot[(x + k) % M]
        <5>1. Listed(r)[k + 1] = r.slot[(r.head + (k + 1) - 1) % M]
          BY <1>2, <4>2
        <5> QED BY <1>3, <2>3, <4>2, <5>1
      <4> QED BY <1>7, <3>2, <3>3, <4>1, <4>3 DEF x
    <3> QED BY <3>4, <3>5
  <2>5. Listed(q) = Tail(a)
    BY <1>5, <2>1, <2>3, <2>4, SeqEqual
  <2>6. Abstract!LastOf(a) = Tail(a)
    BY <2>2 DEF Abstract!LastOf
  <2> QED BY <2>5, <2>6 DEF a, q
<1> QED BY <1>8, <1>9

(* A save is on its way, or it has left the history in the file, or it has *)
(* failed and saved says so.                                               *)
LEMMA NextSaveInv == LineInv /\ [Next]_vars => SaveInv'
<1> SUFFICES ASSUME LineInv, [Next]_vars PROVE SaveInv'
  OBVIOUS
<1>1. BufferInv /\ SaveInv /\ IsRing(Ring)
  BY Parts DEF LineInv
<1>2. ASSUME at' = at, saved' = saved, file' = file, Listed(Ring') = Listed(Ring)
      PROVE  SaveInv'
  <2>1. SaveInv' <=> /\ at' \in {"create", "print"} => ~ saved' /\ file' = <<>>
                     /\ at' = "edit" /\ saved' =>
                          /\ Holes(file') = {}
                          /\ file' = Printed(Listed(Ring')) \/ Listed(Ring') = Listed(HistoryLoad(file'))
    BY DEF SaveInv, Holes
  <2> QED BY <1>1, <1>2, <2>1, Zenon DEF SaveInv
<1>3. ASSUME NEW a, NEW n, NEW c, Edit(a, n, c), Ring' = Ring PROVE SaveInv'
  BY <1>2, <1>3 DEF Edit, fileVars
<1>4. CASE \/ \E c \in Printable : TypeChar(c)
           \/ Backspace \/ CtrlA \/ CtrlE \/ CtrlK \/ CtrlU \/ CtrlW \/ ArrowLeft \/ ArrowRight
  <2>1. InLine /\ \E a, n, c : Edit(a, n, c)
    BY <1>4, Zenon DEF TypeChar, Backspace, CtrlA, CtrlE, CtrlK, CtrlU, CtrlW, ArrowLeft, ArrowRight
  <2>2. Ring' = Ring
    BY <2>1 DEF InLine, ringVars, Ring
  <2> QED BY <1>3, <2>1, <2>2
<1>5. CASE ArrowUp
  <2>1. at' = at /\ saved' = saved /\ file' = file
        /\ history_count' = history_count /\ history_head' = history_head
    BY <1>5 DEF ArrowUp, Recall, Edit, fileVars
  <2>2. \A k \in 0 .. MAX_HISTORY - 1 : history_buf'[k] = history_buf[k]
    <3>1. history_buf \in [0 .. MAX_HISTORY -> Fitting] /\ MAX_HISTORY \in Nat
      BY <1>1, LineAssumption DEF BufferInv
    <3> QED BY <1>5, <3>1 DEF ArrowUp
  <2> QED BY <1>1, <1>2, <2>1, <2>2, SameListed
<1>6. CASE ArrowDown
  <2>1. at' = at /\ saved' = saved /\ file' = file /\ Ring' = Ring
    BY <1>6 DEF ArrowDown, Recall, Edit, fileVars, ringVars, Ring
  <2> QED BY <1>2, <2>1
<1>7. ASSUME NEW s, Returns(s) PROVE SaveInv'
  <2>1. CASE Recorded(s)
    BY <1>7, <2>1 DEF Returns, HistoryAdd, SaveInv
  <2>2. CASE ~ Recorded(s)
    <3>1. at' = at /\ saved' = saved /\ file' = file /\ Ring' = Ring
      BY <1>7, <2>2 DEF Returns, HistoryAdd, fileVars, ringVars, Ring
    <3> QED BY <1>2, <3>1
  <2> QED BY <2>1, <2>2
<1>8. CASE Enter \/ CtrlD
  BY <1>7, <1>8 DEF Enter, CtrlD
<1>9. CASE SaveRemove
  BY <1>9 DEF SaveRemove, SaveInv
<1>10. CASE SaveCreate
  BY <1>1, <1>10 DEF SaveCreate, SaveInv, fileVars
<1>11. CASE SavePrint
  <2>1. Ring' = Ring /\ at' = "edit"
    BY <1>11 DEF SavePrint, SaveLeaves, ringVars, Ring
  <2> DEFINE text == Printed(Listed(Ring))
  <2>2. saved' => file' = text
    <3> HIDE DEF text
    <3> QED BY <1>11 DEF SavePrint, text
  <2>3. IsText(text)
    BY <1>1, ListedFits, PrintedOk
  <2> HIDE DEF text
  <2>4. Holes(text) = {}
    <3>1. \A k \in 1 .. Len(text) : text[k] \in Printable \cup {NL}
      BY <2>3 DEF IsText
    <3> QED BY <3>1, LineAssumption DEF Holes
  <2>5. Printed(Listed(Ring')) = text
    BY <2>1 DEF text
  <2>6. saved' => Holes(file') = {}
    BY <2>2, <2>4
  <2> QED BY <2>1, <2>2, <2>5, <2>6 DEF SaveInv, Holes
<1>12. CASE RunHistory
  <2>1. /\ at' = "edit" /\ at = "edit" /\ saved' = saved /\ Opens
        /\ Ring' = Ring /\ Listed(Ring') = Listed(Ring)
    BY <1>12 DEF RunHistory, Editing, ringVars, Ring
  <2>2. CASE saved
    <3>1. Holes(file) = {} /\ IsFile(file)
      BY <1>1, <2>1, <2>2, Parts DEF SaveInv
    <3>2. file' = file
      BY <2>1, <3>1, OpensOk
    <3> QED BY <1>2, <2>1, <3>2
  <2>3. CASE ~ saved
    BY <2>1, <2>3 DEF SaveInv
  <2> QED BY <2>2, <2>3
<1>14. CASE Restart
  <2>1. /\ RingBecomes(IF saved' THEN HistoryLoad(file') ELSE EmptyRing) /\ at' = "edit"
        /\ saved' = (Holes(file') = {})
    BY <1>14 DEF Restart, Editing
  <2>2. ASSUME saved' PROVE Listed(Ring') = Listed(HistoryLoad(file'))
    BY <2>1, <2>2 DEF RingBecomes, Listed, Ring
  <2> QED BY <2>1, <2>2 DEF SaveInv, Holes
<1>13. CASE UNCHANGED vars
  <2>1. at' = at /\ saved' = saved /\ file' = file /\ Ring' = Ring
    BY <1>13 DEF vars, fileVars, ringVars, Ring
  <2> QED BY <1>2, <2>1
<1> QED BY <1>4, <1>5, <1>6, <1>8, <1>9, <1>10, <1>11, <1>12, <1>13, <1>14 DEF Next

(* buf is empty or the newest command, of the list as of the ring.         *)
IsNewest(b, h) == b # <<>> => h # <<>> /\ h[Len(h)] = b

LastNonEmpty(h, b) == h # <<>> /\ h[Len(h)] = b

LEMMA NewestIs ==
  ASSUME IsRing(Ring)
  PROVE  NewestInv <=> IsNewest(buf, Listed(Ring))
<1> DEFINE h == Listed(Ring)
<1>1. h \in Seq(Fitting) /\ Len(h) = history_count /\ history_count \in 0 .. MAX_HISTORY
  BY ListedFits DEF Ring
<1>2. history_count \in Nat
  BY <1>1, LineAssumption
<1>3. history_count > 0 => Recent(0) = h[history_count]
  <2> SUFFICES ASSUME history_count > 0 PROVE Recent(0) = h[history_count]
    OBVIOUS
  <2>1. 1 \in 1 .. history_count /\ history_count + 1 - 1 = history_count /\ 1 - 1 = 0
    BY <1>2
  <2>2. Recent(1 - 1) = Listed(Ring)[history_count + 1 - 1]
    BY <2>1, RecentIs
  <2> QED BY <2>1, <2>2
<1> HIDE DEF h
<1>4. h # <<>> <=> history_count > 0
  BY <1>1, <1>2, EmptySeq
<1> QED BY <1>1, <1>3, <1>4 DEF NewestInv, IsNewest, h

(* The end of the input hands the newest command to main again, and nobody *)
(* changes the list without it.                                            *)
LEMMA NextNewest == LineInv /\ BufferInv' /\ [Next]_vars => NewestInv'
<1> SUFFICES ASSUME LineInv, BufferInv', [Next]_vars PROVE NewestInv'
  OBVIOUS
<1>1. IsRing(Ring) /\ NewestInv /\ buf \in Fitting
  BY Parts DEF LineInv
<1>2. IsNewest(buf', Listed(Ring)') => NewestInv'
  <2>1. IsRing(Ring)'
    BY Parts, PTL
  <2>2. (IsRing(Ring) => (NewestInv <=> IsNewest(buf, Listed(Ring))))'
    BY NewestIs, PTL
  <2> QED BY <2>1, <2>2 DEF IsNewest
<1>3. IsNewest(buf, Listed(Ring))
  BY <1>1, NewestIs
<1>4. ASSUME buf' = buf, Listed(Ring)' = Listed(Ring) PROVE NewestInv'
  BY <1>2, <1>3, <1>4
<1>5. ASSUME buf' = buf, Ring' = Ring PROVE NewestInv'
  BY <1>4, <1>5 DEF Listed
<1>6. CASE \/ \E c \in Printable : TypeChar(c)
           \/ Backspace \/ CtrlA \/ CtrlE \/ CtrlK \/ CtrlU \/ CtrlW \/ ArrowLeft \/ ArrowRight
  <2>1. InLine /\ \E a, n, c : Edit(a, n, c)
    BY <1>6, Zenon DEF TypeChar, Backspace, CtrlA, CtrlE, CtrlK, CtrlU, CtrlW, ArrowLeft, ArrowRight
  <2> QED BY <1>5, <2>1 DEF InLine, ringVars, Ring, Edit
<1>7. CASE ArrowUp
  <2>1. buf' = buf /\ history_count' = history_count /\ history_head' = history_head
    BY <1>7 DEF ArrowUp, Recall, Edit
  <2>2. \A k \in 0 .. MAX_HISTORY - 1 : history_buf'[k] = history_buf[k]
    <3>1. history_buf \in [0 .. MAX_HISTORY -> Fitting] /\ MAX_HISTORY \in Nat
      BY LineAssumption DEF LineInv, BufferInv
    <3> QED BY <1>7, <3>1 DEF ArrowUp
  <2>3. Listed(Ring') = Listed(Ring)
    BY <1>1, <2>1, <2>2, SameListed
  <2> QED BY <1>4, <2>1, <2>3 DEF Listed
<1>8. CASE ArrowDown
  <2>1. buf' = buf /\ Ring' = Ring
    BY <1>8 DEF ArrowDown, Recall, Edit, ringVars, Ring
  <2> QED BY <1>5, <2>1
<1>9. ASSUME NEW b \in Fitting, Returns(b) PROVE NewestInv'
  <2>1. buf' = b /\ HistoryAdd(b)
    BY <1>9 DEF Returns
  <2>2. CASE Recorded(b)
    <3> DEFINE r == RingAdd(Ring, b)
               a == Append(Listed(Ring), b)
    <3>1. RingBecomes(r) /\ b # <<>>
      BY <2>1, <2>2 DEF HistoryAdd, Recorded
    <3>2. Listed(r) = Abstract!LastOf(a)
      BY <1>1, <3>1, ListedAdd
    <3>3. a # <<>> /\ Len(a) = Len(Listed(Ring)) + 1 /\ a[Len(a)] = b /\ a \in Seq(Fitting)
          /\ Len(Listed(Ring)) \in Nat
      <4>1. Listed(Ring) \in Seq(Fitting)
        BY <1>1, ListedFits
      <4> HIDE DEF a
      <4>2. Len(a) = Len(Listed(Ring)) + 1 /\ a[Len(Listed(Ring)) + 1] = b /\ a \in Seq(Fitting)
            /\ Len(Listed(Ring)) \in Nat
        BY <4>1, AppendProperties DEF a
      <4> QED BY <4>2
    <3> HIDE DEF a, r
    <3>4. LastNonEmpty(Abstract!LastOf(a), b)
      <4>1. CASE ~ (Len(a) > MAX_HISTORY)
        BY <3>3, <4>1 DEF Abstract!LastOf, LastNonEmpty
      <4>2. CASE Len(a) > MAX_HISTORY
        <5>1. Tail(a) \in Seq(Fitting) /\ Len(Tail(a)) = Len(a) - 1
              /\ \A k \in 1 .. Len(Tail(a)) : Tail(a)[k] = a[k + 1]
          BY <3>3, HeadTailProperties
        <5>2. Len(a) - 1 \in 1 .. Len(a) - 1 /\ Len(a) - 1 > 0 /\ (Len(a) - 1) + 1 = Len(a)
          BY <3>3, <4>2, LineAssumption
        <5>3. Tail(a)[Len(Tail(a))] = b /\ Tail(a) # <<>>
          BY <3>3, <5>1, <5>2
        <5> QED BY <4>2, <5>3 DEF Abstract!LastOf, LastNonEmpty
      <4> QED BY <4>1, <4>2
    <3>5. Listed(Ring)' = Listed(r)
      BY <3>1 DEF RingBecomes, Listed, Ring
    <3> QED BY <1>2, <2>1, <3>2, <3>4, <3>5 DEF IsNewest, LastNonEmpty
  <2>3. CASE ~ Recorded(b)
    <3>1. Ring' = Ring /\ history_count' = history_count
      BY <2>1, <2>3 DEF HistoryAdd, ringVars, Ring
    <3>2. b # <<>> => history_count > 0 /\ b = Recent(0)
      BY <2>3 DEF Recorded
    <3>3. Recent(0)' = Recent(0)
      BY <2>1, <2>3 DEF HistoryAdd, ringVars, Recent
    <3> QED BY <2>1, <3>1, <3>2, <3>3 DEF NewestInv
  <2> QED BY <2>2, <2>3
<1>10. CASE Enter
  <2>1. Cleaned(String(local_buf)) \in Fitting
    <3>1. IsLine(local_buf, len)
      BY Parts DEF LineInv
    <3> QED BY <3>1, StringIs, CleanedFits
  <2> QED BY <1>9, <1>10, <2>1 DEF Enter
<1>11. CASE CtrlD
  BY <1>1, <1>9, <1>11 DEF CtrlD
<1>12. CASE SaveRemove \/ SaveCreate \/ SavePrint \/ RunHistory \/ UNCHANGED vars
  <2>1. buf' = buf /\ Ring' = Ring
    BY <1>12 DEF SaveRemove, SaveCreate, SavePrint, RunHistory, SaveLeaves, ringVars, Ring, vars
  <2> QED BY <1>5, <2>1
<1>13. CASE Restart
  BY <1>13 DEF Restart, NewestInv
<1> QED BY <1>6, <1>7, <1>8, <1>10, <1>11, <1>12, <1>13 DEF Next

(* The whole invariant: the buffers, and what the last save has left in    *)
(* the file.                                                               *)
THEOREM LineInvariant == Spec => []LineInv
<1>1. Init => LineInv
  <2>1. Init => SaveInv
    <3> SUFFICES ASSUME Init PROVE SaveInv
      OBVIOUS
    <3>1. Ring = EmptyRing /\ file = <<>> /\ at = "edit" /\ saved = TRUE
      BY DEF Init, Ring, EmptyRing
    <3>2. HistoryLoad(file) = EmptyRing
      <4>1. PICK load : IsLoad(load, file, Len(file)) /\ HistoryLoad(file) = load[Len(file)].ring
        BY <3>1, LoadIs
      <4>2. load[0].ring = EmptyRing
        BY <3>1, <4>1 DEF IsLoad
      <4> QED BY <3>1, <4>1, <4>2
    <3>3. Listed(Ring) = Listed(HistoryLoad(file))
      BY <3>1, <3>2
    <3>4. Holes(file) = {}
      BY <3>1 DEF Holes
    <3> QED BY <3>1, <3>3, <3>4 DEF SaveInv
  <2>2. Init => NewestInv
    BY DEF Init, NewestInv
  <2> QED BY <2>1, <2>2, InitBuffers DEF LineInv
<1>2. LineInv /\ [Next]_vars => LineInv'
  BY NextBuffers, NextSaveInv, NextNewest DEF LineInv
<1> QED BY <1>1, <1>2, PTL DEF Spec

(* A save that succeeded is read back, or the ring has been read from it.  *)
LEMMA Survives == LineInv => HistorySurvives
<1> SUFFICES ASSUME LineInv, at = "edit", saved, Len(file) <= CHUNK, NoneEmpty(Listed(Ring))
             PROVE  Listed(HistoryLoad(file)) = Listed(Ring)
  BY DEF HistorySurvives
<1>1. IsRing(Ring) /\ SaveInv
  BY Parts DEF LineInv
<1>2. CASE Listed(Ring) = Listed(HistoryLoad(file))
  BY <1>2
<1>3. CASE file = Printed(Listed(Ring))
  <2> DEFINE lines == Listed(Ring)
  <2>1. /\ lines \in Seq(Fitting) /\ Len(lines) = Ring.count /\ Ring.count \in 0 .. MAX_HISTORY
        /\ \A k \in 1 .. Ring.count : lines[k] # <<>>
    BY <1>1, ListedFits DEF NoneEmpty
  <2> HIDE DEF lines
  <2>2. Len(lines) <= MAX_HISTORY /\ \A k \in 1 .. Len(lines) : lines[k] # <<>>
    BY <2>1, LineAssumption
  <2>3. Len(Printed(lines)) <= CHUNK
    BY <1>3 DEF lines
  <2>4. Listed(HistoryLoad(Printed(lines))) = lines
    BY <2>1, <2>2, <2>3, ReadBack
  <2> QED BY <1>3, <2>4 DEF lines
<1> QED BY <1>1, <1>2, <1>3 DEF SaveInv

(* Unless saving failed, a shell that starts now gets back the history     *)
(* that this shell has: history_load undoes history_save, whatever the     *)
(* commands are and however often the ring has wrapped, as long as the     *)
(* file is read at once.                                                   *)
THEOREM HistoryIsKept == Spec => []HistorySurvives
BY Survives, LineInvariant, PTL

-----------------------------------------------------------------------------
(* Every key is a step of Editor.                                          *)

(* The text left and right of a position.                                  *)
LeftOf(a, c) == SubSeq(String(a), 1, c)
RightOf(a, c) == SubSeq(String(a), c + 1, Len(String(a)))

LEMMA Halves ==
  ASSUME NEW a, NEW n, IsLine(a, n), NEW c \in 0 .. n
  PROVE  /\ LeftOf(a, c) \in Seq(Printable) /\ Len(LeftOf(a, c)) = c
         /\ \A k \in 1 .. c : LeftOf(a, c)[k] = a[k - 1]
         /\ RightOf(a, c) \in Seq(Printable) /\ Len(RightOf(a, c)) = n - c
         /\ \A k \in 1 .. n - c : RightOf(a, c)[k] = a[c + k - 1]
         /\ LeftOf(a, c) \o RightOf(a, c) = String(a)
<1> DEFINE s == String(a)
           l == LeftOf(a, c)
           r == RightOf(a, c)
<1>1. s \in Seq(Printable) /\ Len(s) = n /\ n \in Nat /\ \A k \in 1 .. n : s[k] = a[k - 1]
  BY StringIs, LineAssumption DEF Fitting, Text, IsLine, Cells
<1>2. l = SubSeq(s, 1, c) /\ r = SubSeq(s, c + 1, n)
  BY <1>1 DEF LeftOf, RightOf
<1> HIDE DEF s, l, r
<1>3. l \in Seq(Printable) /\ Len(l) = c /\ \A k \in 1 .. c : l[k] = s[k]
  BY <1>1, <1>2, SubSeqProperties
<1>4. r \in Seq(Printable) /\ Len(r) = n - c /\ \A k \in 1 .. n - c : r[k] = s[c + k]
  <2>1. /\ r \in Seq(Printable)
        /\ Len(r) = IF c + 1 <= n THEN n - (c + 1) + 1 ELSE 0
        /\ \A k \in 1 .. n - (c + 1) + 1 : r[k] = s[(c + 1) + k - 1]
    <3>1. c + 1 \in 1 .. n + 1 /\ n \in c + 1 - 1 .. n
      BY <1>1
    <3>2. \A k \in c + 1 .. n : s[k] \in Printable
      BY <1>1
    <3> QED BY <1>1, <1>2, <3>1, <3>2, SubSeqProperties
  <2>2. n - (c + 1) + 1 = n - c /\ (c + 1 <= n \/ n - c = 0)
    BY <1>1
  <2>3. \A k \in 1 .. n - c : (c + 1) + k - 1 = c + k
    BY <1>1
  <2> QED BY <2>1, <2>2, <2>3
<1>5. \A k \in 1 .. n - c : r[k] = a[c + k - 1]
  <2> TAKE k \in 1 .. n - c
  <2>1. c + k \in 1 .. n
    BY <1>1
  <2> QED BY <1>1, <1>4, <2>1
<1>6. \A k \in 1 .. c : l[k] = a[k - 1]
  BY <1>1, <1>3
<1>7. l \o r = s
  <2> DEFINE w == l \o r
  <2>1. w \in Seq(Printable) /\ Len(w) = n
        /\ \A k \in 1 .. n : w[k] = IF k <= c THEN l[k] ELSE r[k - c]
    <3>1. Len(l) = c /\ Len(r) = n - c /\ c + (n - c) = n
      BY <1>1, <1>3, <1>4
    <3> HIDE DEF w
    <3>2. w \in Seq(Printable) /\ Len(w) = Len(l) + Len(r)
          /\ \A k \in 1 .. Len(l) + Len(r) : w[k] = IF k <= Len(l) THEN l[k] ELSE r[k - Len(l)]
      BY <1>3, <1>4, ConcatProperties DEF w
    <3> QED BY <3>1, <3>2
  <2>2. ASSUME NEW k \in 1 .. n PROVE w[k] = s[k]
    <3>1. CASE k <= c
      BY <1>1, <1>3, <2>1, <3>1
    <3>2. CASE ~ (k <= c)
      <4>1. k - c \in 1 .. n - c /\ c + (k - c) = k
        BY <1>1, <3>2
      <4> QED BY <1>4, <2>1, <3>2, <4>1
    <3> QED BY <3>1, <3>2
  <2> HIDE DEF w
  <2> QED BY <1>1, <2>1, <2>2, SeqEqual DEF w
<1> QED BY <1>3, <1>4, <1>5, <1>6, <1>7 DEF l, r, s

(* Two lines that agree up to a position have the same text left of it,    *)
(* and two that agree from there on the same text right of it.             *)
LEMMA SameLeft ==
  ASSUME NEW a, NEW n, IsLine(a, n), NEW b, NEW m, IsLine(b, m), NEW c \in 0 .. n, c \in 0 .. m,
         \A k \in 0 .. c - 1 : a[k] = b[k]
  PROVE  LeftOf(a, c) = LeftOf(b, c)
<1> DEFINE l == LeftOf(a, c)
           r == LeftOf(b, c)
<1>1. l \in Seq(Printable) /\ Len(l) = c /\ \A k \in 1 .. c : l[k] = a[k - 1]
  BY Halves
<1>2. r \in Seq(Printable) /\ Len(r) = c /\ \A k \in 1 .. c : r[k] = b[k - 1]
  BY Halves
<1> HIDE DEF l, r
<1>3. \A k \in 1 .. c : k - 1 \in 0 .. c - 1
  BY LineAssumption DEF IsLine, Cells
<1>4. \A k \in 1 .. c : l[k] = r[k]
  BY <1>1, <1>2, <1>3
<1> QED BY <1>1, <1>2, <1>4, SeqEqual DEF l, r

LEMMA SameRight ==
  ASSUME NEW a, NEW n, IsLine(a, n), NEW b, NEW m, IsLine(b, m), NEW c \in 0 .. n, NEW d \in 0 .. m,
         n - c = m - d, \A k \in 0 .. n - c - 1 : a[c + k] = b[d + k]
  PROVE  RightOf(a, c) = RightOf(b, d)
<1> DEFINE l == RightOf(a, c)
           r == RightOf(b, d)
<1>1. l \in Seq(Printable) /\ Len(l) = n - c /\ \A k \in 1 .. n - c : l[k] = a[c + k - 1]
  BY Halves
<1>2. r \in Seq(Printable) /\ Len(r) = m - d /\ \A k \in 1 .. m - d : r[k] = b[d + k - 1]
  BY Halves
<1> HIDE DEF l, r
<1>3. ASSUME NEW k \in 1 .. n - c PROVE l[k] = r[k]
  <2>1. k - 1 \in 0 .. n - c - 1 /\ c + k - 1 = c + (k - 1) /\ d + k - 1 = d + (k - 1)
    BY LineAssumption DEF IsLine, Cells
  <2> QED BY <1>1, <1>2, <2>1
<1> QED BY <1>1, <1>2, <1>3, SeqEqual DEF l, r

(* A shorter beginning of what is left.                                    *)
LEMMA LeftOfLeft ==
  ASSUME NEW a, NEW n, IsLine(a, n), NEW c \in 0 .. n, NEW d \in 0 .. c
  PROVE  SubSeq(LeftOf(a, c), 1, d) = LeftOf(a, d)
<1> DEFINE l == LeftOf(a, c)
           r == LeftOf(a, d)
           w == SubSeq(l, 1, d)
<1>1. l \in Seq(Printable) /\ Len(l) = c /\ \A k \in 1 .. c : l[k] = a[k - 1]
  BY Halves
<1>0. n \in Nat
  BY LineAssumption DEF IsLine, Cells
<1>2. d \in 0 .. n
  BY <1>0
<1>3. r \in Seq(Printable) /\ Len(r) = d /\ \A k \in 1 .. d : r[k] = a[k - 1]
  BY <1>2, Halves
<1> HIDE DEF l, r
<1>4. w \in Seq(Printable) /\ Len(w) = d /\ \A k \in 1 .. d : w[k] = l[k]
  BY <1>0, <1>1, SubSeqProperties
<1> HIDE DEF w
<1>5. \A k \in 1 .. d : w[k] = r[k]
  <2> TAKE k \in 1 .. d
  <2>1. k \in 1 .. c
    BY <1>0
  <2> QED BY <1>1, <1>3, <1>4, <2>1
<1> QED BY <1>3, <1>4, <1>5, SeqEqual DEF w, l, r

(* A character is inserted.                                                *)
LEMMA InsertText ==
  ASSUME NEW a, NEW n, IsLine(a, n), n < MAX_CMD_LEN - 1, NEW c \in Printable, NEW p \in 0 .. n
  PROVE  LET b == [Move(a, p + 1, p, n - p + 1) EXCEPT ![p] = c]
         IN  LeftOf(b, p + 1) = Append(LeftOf(a, p), c) /\ RightOf(b, p + 1) = RightOf(a, p)
<1> DEFINE m == Move(a, p + 1, p, n - p + 1)
           b == [m EXCEPT ![p] = c]
<1>1. n \in Nat /\ n < MAX_CMD_LEN - 1 /\ MAX_CMD_LEN \in Nat /\ p \in Cells
  BY LineAssumption DEF IsLine, Cells
<1>2. m = [i \in Cells |-> IF i \in p + 1 .. p + 1 + (n - p + 1) - 1 THEN a[p + i - (p + 1)] ELSE a[i]]
  BY DEF Move
<1>3. IsLine(b, n + 1)
  BY Insert
<1> HIDE DEF m
<1>4. \A k \in Cells : b[k] = IF k = p THEN c ELSE m[k]
  BY <1>1, <1>2
<1> HIDE DEF b
<1>5. \A k \in 0 .. p - 1 : b[k] = a[k]
  <2> TAKE k \in 0 .. p - 1
  <2>1. k \in Cells /\ k # p /\ k \notin p + 1 .. p + 1 + (n - p + 1) - 1
    BY <1>1 DEF Cells
  <2> QED BY <1>2, <1>4, <2>1
<1>6. \A k \in 0 .. n - p - 1 : b[p + 1 + k] = a[p + k]
  <2> TAKE k \in 0 .. n - p - 1
  <2>1. /\ p + 1 + k \in Cells /\ p + 1 + k # p
        /\ p + 1 + k \in p + 1 .. p + 1 + (n - p + 1) - 1 /\ p + (p + 1 + k) - (p + 1) = p + k
    BY <1>1 DEF Cells
  <2> QED BY <1>2, <1>4, <2>1
<1>7. b[p] = c
  BY <1>1, <1>4
<1>8. RightOf(b, p + 1) = RightOf(a, p)
  <2>1. p + 1 \in 0 .. n + 1 /\ (n + 1) - (p + 1) = n - p
    BY <1>1
  <2>2. \A k \in 0 .. (n + 1) - (p + 1) - 1 : b[p + 1 + k] = a[p + k]
    BY <1>6, <2>1
  <2> QED BY <1>3, <2>1, <2>2, SameRight
<1>9. LeftOf(b, p + 1) = Append(LeftOf(a, p), c)
  <2> DEFINE l == LeftOf(a, p)
             r == LeftOf(b, p + 1)
             w == Append(l, c)
  <2>1. l \in Seq(Printable) /\ Len(l) = p /\ \A k \in 1 .. p : l[k] = a[k - 1]
    BY Halves
  <2>2. p + 1 \in 0 .. n + 1
    BY <1>1
  <2>3. r \in Seq(Printable) /\ Len(r) = p + 1 /\ \A k \in 1 .. p + 1 : r[k] = b[k - 1]
    BY <1>3, <2>2, Halves
  <2> HIDE DEF l, r
  <2>4. w \in Seq(Printable) /\ Len(w) = p + 1 /\ w[p + 1] = c /\ \A k \in 1 .. p : w[k] = l[k]
    BY <2>1, AppendProperties
  <2> HIDE DEF w
  <2>5. ASSUME NEW k \in 1 .. p + 1 PROVE r[k] = w[k]
    <3>1. CASE k = p + 1
      <4>1. k - 1 = p
        BY <1>1, <3>1
      <4> QED BY <1>7, <2>3, <2>4, <3>1, <4>1
    <3>2. CASE k # p + 1
      <4>1. k \in 1 .. p /\ k - 1 \in 0 .. p - 1
        BY <1>1, <3>2
      <4> QED BY <1>5, <2>1, <2>3, <2>4, <4>1
    <3> QED BY <3>1, <3>2
  <2> QED BY <2>3, <2>4, <2>5, SeqEqual DEF w, l, r
<1> QED BY <1>8, <1>9 DEF b, m

(* What is between dst and src is taken out.                               *)
LEMMA MoveText ==
  ASSUME NEW a, NEW n, IsLine(a, n), NEW src \in 0 .. n, NEW dst \in 0 .. src
  PROVE  LET b == Move(a, dst, src, n - src + 1)
         IN  LeftOf(b, dst) = LeftOf(a, dst) /\ RightOf(b, dst) = RightOf(a, src)
<1> DEFINE b == Move(a, dst, src, n - src + 1)
           m == n - (src - dst)
<1>1. n \in Nat /\ n < MAX_CMD_LEN /\ MAX_CMD_LEN \in Nat
  BY LineAssumption DEF IsLine, Cells
<1>2. b = [k \in Cells |-> IF k \in dst .. dst + (n - src + 1) - 1 THEN a[src + k - dst] ELSE a[k]]
  BY DEF Move
<1>3. IsLine(b, m)
  BY MoveLeft
<1> HIDE DEF b
<1>4. \A k \in 0 .. dst - 1 : b[k] = a[k]
  <2> TAKE k \in 0 .. dst - 1
  <2>1. k \in Cells /\ k \notin dst .. dst + (n - src + 1) - 1
    BY <1>1 DEF Cells
  <2> QED BY <1>2, <2>1
<1>5. \A k \in 0 .. n - src - 1 : b[dst + k] = a[src + k]
  <2> TAKE k \in 0 .. n - src - 1
  <2>1. dst + k \in Cells /\ dst + k \in dst .. dst + (n - src + 1) - 1 /\ src + (dst + k) - dst = src + k
    BY <1>1 DEF Cells
  <2> QED BY <1>2, <2>1
<1>6. dst \in 0 .. m /\ dst \in 0 .. n /\ m - dst = n - src
  BY <1>1
<1> HIDE DEF m
<1>7. LeftOf(b, dst) = LeftOf(a, dst)
  BY <1>3, <1>4, <1>6, SameLeft
<1>8. RightOf(b, dst) = RightOf(a, src)
  <2>1. \A k \in 0 .. m - dst - 1 : b[dst + k] = a[src + k]
    BY <1>5, <1>6
  <2> QED BY <1>3, <1>6, <2>1, SameRight
<1> QED BY <1>7, <1>8 DEF b

(* The line is cut.                                                        *)
LEMMA CutLine ==
  ASSUME NEW a, NEW n, IsLine(a, n), NEW p \in 0 .. n
  PROVE  LET b == [a EXCEPT ![p] = NUL]
         IN  LeftOf(b, p) = LeftOf(a, p) /\ RightOf(b, p) = <<>>
<1> DEFINE b == [a EXCEPT ![p] = NUL]
<1>1. IsLine(b, p)
  BY Cut
<1>2. n \in Nat /\ MAX_CMD_LEN \in Nat /\ n < MAX_CMD_LEN /\ a \in [Cells -> Char]
  BY LineAssumption DEF IsLine, Cells
<1>3. \A k \in 0 .. p - 1 : k \in Cells /\ k # p
  BY <1>2 DEF Cells
<1>4. \A k \in 0 .. p - 1 : b[k] = a[k]
  BY <1>2, <1>3
<1> HIDE DEF b
<1>5. p \in 0 .. p
  BY <1>2
<1>6. LeftOf(b, p) = LeftOf(a, p)
  BY <1>1, <1>4, <1>5, SameLeft
<1>7. RightOf(b, p) = <<>>
  <2>1. RightOf(b, p) \in Seq(Printable) /\ Len(RightOf(b, p)) = p - p
    BY <1>1, <1>5, Halves
  <2>2. Len(RightOf(b, p)) = 0
    BY <1>2, <2>1
  <2> QED BY <2>1, <2>2, EmptySeq
<1> QED BY <1>6, <1>7 DEF b

(* A string takes the place of the line.                                   *)
LEMMA RecallText ==
  ASSUME NEW a, NEW n, IsLine(a, n), NEW s \in Fitting
  PROVE  /\ LeftOf(StrCpy(a, s), Len(s)) = s
         /\ RightOf(StrCpy(a, s), Len(s)) = <<>>
<1> DEFINE b == StrCpy(a, s)
           m == Len(s)
<1>1. m \in Nat /\ s \in Seq(Printable) /\ m < MAX_CMD_LEN /\ MAX_CMD_LEN \in Nat
  BY LineAssumption DEF Fitting, Text
<1>2. IsLine(b, m)
  BY StrCpyIs DEF IsLine
<1>3. b = [i \in Cells |-> IF i < Len(s) THEN s[i + 1] ELSE IF i = Len(s) THEN NUL ELSE a[i]]
  BY DEF StrCpy
<1>4. \A k \in 1 .. m : b[k - 1] = s[k]
  <2> TAKE k \in 1 .. m
  <2>1. k - 1 \in Cells /\ k - 1 < Len(s) /\ (k - 1) + 1 = k
    BY <1>1 DEF Cells
  <2> QED BY <1>3, <2>1
<1> HIDE DEF b
<1>5. m \in 0 .. m
  BY <1>1
<1> DEFINE l == LeftOf(b, m)
           r == RightOf(b, m)
<1>6. l \in Seq(Printable) /\ Len(l) = m /\ (\A k \in 1 .. m : l[k] = b[k - 1])
      /\ r \in Seq(Printable) /\ Len(r) = m - m
  BY <1>2, <1>5, Halves
<1> HIDE DEF l, r, m
<1>7. l = s
  <2>1. \A k \in 1 .. m : l[k] = s[k]
    BY <1>4, <1>6
  <2> QED BY <1>1, <1>6, <2>1, SeqEqual DEF m
<1>8. r = <<>>
  <2>1. Len(r) = 0
    BY <1>1, <1>6
  <2> QED BY <1>6, <2>1, EmptySeq
<1> QED BY <1>7, <1>8 DEF l, r, b, m

(* What Editor's variables stand for.                                      *)
LeftText == LeftOf(local_buf, cursor_pos)
RightText == RightOf(local_buf, cursor_pos)
Draft == IF history_nav_pos = -1 THEN <<>> ELSE history_buf[MAX_HISTORY]
Kept == saved /\ Len(file) <= CHUNK

LEMMA AtIs ==
  ASSUME NEW l, NEW r, LeftText' = l, RightText' = r, history_nav_pos' = history_nav_pos,
         Draft' = Draft, Listed(Ring)' = Listed(Ring), buf' = buf, Kept' = Kept
  PROVE  Abstract!At(l, r)
BY DEF Abstract!At, Kept, LeftText, RightText, LeftOf, RightOf, TextLine, Draft

LEMMA ShowIs ==
  ASSUME NEW k, NEW s, LeftText' = s, RightText' = <<>>, history_nav_pos' + 1 = k,
         Listed(Ring)' = Listed(Ring), buf' = buf, Kept' = Kept
  PROVE  Abstract!Show(k, s)
BY DEF Abstract!Show, Kept, LeftText, RightText, LeftOf, RightOf, TextLine

LEMMA LeaveIs ==
  ASSUME NEW h, NEW s, LeftText' = <<>>, RightText' = <<>>, history_nav_pos' = -1,
         Listed(Ring)' = h, buf' = s
  PROVE  Abstract!Leave(h, s)
BY DEF Abstract!Leave, LeftText, RightText, LeftOf, RightOf, TextLine

(* The line is the string in local_buf.                                    *)
LEMMA LineIs ==
  ASSUME BufferInv
  PROVE  /\ Abstract!Line = String(local_buf) /\ String(local_buf) \in Fitting
         /\ Len(String(local_buf)) = len
         /\ LeftText \in Seq(Printable) /\ Len(LeftText) = cursor_pos
         /\ \A k \in 1 .. cursor_pos : LeftText[k] = local_buf[k - 1]
<1>1. IsLine(local_buf, len) /\ cursor_pos \in 0 .. len
  BY Parts
<1>2. String(local_buf) \in Fitting /\ Len(String(local_buf)) = len
  BY <1>1, StringIs
<1>3. /\ LeftText \in Seq(Printable) /\ Len(LeftText) = cursor_pos
      /\ \A k \in 1 .. cursor_pos : LeftText[k] = local_buf[k - 1]
      /\ LeftText \o RightText = String(local_buf)
  BY <1>1, Halves DEF LeftText, RightText
<1>4. Abstract!Line = LeftText \o RightText
  BY DEF Abstract!Line, LeftText, RightText, LeftOf, RightOf, TextLine
<1> QED BY <1>2, <1>3, <1>4

(* The keys that change the line alone.                                    *)
LEMMA EditText ==
  ASSUME NEW a, NEW n, NEW c, Edit(a, n, c), InLine
  PROVE  Abstract!At(LeftOf(a, c), RightOf(a, c))
<1>1. /\ local_buf' = a /\ cursor_pos' = c /\ buf' = buf /\ history_nav_pos' = history_nav_pos
      /\ history_buf' = history_buf /\ history_head' = history_head
      /\ history_tail' = history_tail /\ history_count' = history_count
  BY DEF Edit, InLine, ringVars
<1>2. LeftText' = LeftOf(a, c) /\ RightText' = RightOf(a, c)
  BY <1>1 DEF LeftText, RightText
<1>3. Draft' = Draft
  BY <1>1 DEF Draft
<1>4. Listed(Ring)' = Listed(Ring)
  BY <1>1 DEF Listed, Ring
<1>5. Kept' = Kept
  BY DEF Edit, fileVars, Kept
<1> QED BY <1>1, <1>2, <1>3, <1>4, <1>5, AtIs

LEMMA TypeText ==
  ASSUME BufferInv, NEW c \in Printable, TypeChar(c)
  PROVE  Abstract!Type(c)
<1> DEFINE b == [Move(local_buf, cursor_pos + 1, cursor_pos, len - cursor_pos + 1) EXCEPT ![cursor_pos] = c]
<1>1. IsLine(local_buf, len) /\ cursor_pos \in 0 .. len /\ len < MAX_CMD_LEN - 1
  BY Parts DEF TypeChar
<1>2. Edit(b, len + 1, cursor_pos + 1) /\ InLine
  BY DEF TypeChar
<1>3. LeftOf(b, cursor_pos + 1) = Append(LeftText, c) /\ RightOf(b, cursor_pos + 1) = RightText
  BY <1>1, InsertText DEF LeftText, RightText
<1> HIDE DEF b
<1>4. Abstract!At(LeftOf(b, cursor_pos + 1), RightOf(b, cursor_pos + 1))
  BY <1>2, EditText
<1>5. Abstract!At(Append(LeftText, c), RightText)
  BY <1>3, <1>4
<1>6. Len(Abstract!Line) < MAX_CMD_LEN - 1
  BY <1>1, LineIs
<1> QED BY <1>5, <1>6 DEF Abstract!Type, LeftText, RightText, LeftOf, RightOf, TextLine

LEMMA BackspaceText ==
  ASSUME BufferInv, Backspace
  PROVE  Abstract!Rubout
<1> DEFINE b == Move(local_buf, cursor_pos - 1, cursor_pos, len - cursor_pos + 1)
           d == cursor_pos - 1
<1>1. /\ IsLine(local_buf, len) /\ cursor_pos \in 0 .. len /\ cursor_pos > 0
      /\ len \in Nat /\ cursor_pos \in Nat
  BY Parts DEF Backspace
<1>2. Edit(b, len - 1, d) /\ InLine
  BY DEF Backspace
<1>3. d \in 0 .. cursor_pos
  BY <1>1
<1>4. LeftOf(b, d) = LeftOf(local_buf, d) /\ RightOf(b, d) = RightText
  BY <1>1, <1>3, MoveText DEF RightText
<1> HIDE DEF b
<1>5. Abstract!At(LeftOf(b, d), RightOf(b, d))
  BY <1>2, EditText
<1>6. LeftOf(local_buf, d) = SubSeq(LeftText, 1, d)
  BY <1>1, <1>3, LeftOfLeft DEF LeftText
<1>7. Len(LeftText) = cursor_pos
  BY LineIs
<1>8. Abstract!At(SubSeq(LeftText, 1, Len(LeftText) - 1), RightText)
  BY <1>4, <1>5, <1>6, <1>7
<1>9. LeftText # <<>>
  BY <1>1, <1>7
<1> QED BY <1>8, <1>9 DEF Abstract!Rubout, Abstract!Prefix, LeftText, RightText, LeftOf, RightOf, TextLine

LEMMA MoveKeys ==
  ASSUME BufferInv, CtrlA \/ CtrlE \/ ArrowLeft \/ ArrowRight
  PROVE  \E n \in 0 .. Len(Abstract!Line) : Abstract!MoveTo(n)
<1>1. IsLine(local_buf, len) /\ cursor_pos \in 0 .. len /\ len \in Nat
  BY Parts
<1>2. PICK n \in 0 .. len : Edit(local_buf, len, n) /\ InLine
  <2>1. CASE CtrlA
    BY <1>1, <2>1 DEF CtrlA
  <2>2. CASE CtrlE
    BY <1>1, <2>2 DEF CtrlE
  <2>3. CASE ArrowLeft
    <3>1. cursor_pos - 1 \in 0 .. len
      BY <1>1, <2>3 DEF ArrowLeft
    <3> QED BY <2>3, <3>1 DEF ArrowLeft
  <2>4. CASE ArrowRight
    <3>1. cursor_pos + 1 \in 0 .. len
      BY <1>1, <2>4 DEF ArrowRight
    <3> QED BY <2>4, <3>1 DEF ArrowRight
  <2> QED BY <2>1, <2>2, <2>3, <2>4
<1>3. Abstract!At(LeftOf(local_buf, n), RightOf(local_buf, n))
  BY <1>2, EditText
<1>4. Abstract!Line = String(local_buf) /\ Len(String(local_buf)) = len
  BY LineIs
<1>5. Abstract!MoveTo(n)
  BY <1>3, <1>4 DEF Abstract!MoveTo, Abstract!Prefix, Abstract!Suffix, LeftOf, RightOf
<1> QED BY <1>4, <1>5

LEMMA CtrlKText ==
  ASSUME BufferInv, CtrlK
  PROVE  Abstract!EraseRight
<1> DEFINE b == [local_buf EXCEPT ![cursor_pos] = NUL]
<1>1. IsLine(local_buf, len) /\ cursor_pos \in 0 .. len
  BY Parts
<1>2. Edit(b, cursor_pos, cursor_pos) /\ InLine
  BY DEF CtrlK
<1>3. LeftOf(b, cursor_pos) = LeftText /\ RightOf(b, cursor_pos) = <<>>
  BY <1>1, CutLine DEF LeftText
<1> HIDE DEF b
<1>4. Abstract!At(LeftOf(b, cursor_pos), RightOf(b, cursor_pos))
  BY <1>2, EditText
<1>5. Abstract!At(LeftText, <<>>)
  BY <1>3, <1>4
<1> QED BY <1>5 DEF Abstract!EraseRight, LeftText, LeftOf, TextLine

LEMMA CtrlUText ==
  ASSUME BufferInv, CtrlU
  PROVE  Abstract!EraseLeft
<1> DEFINE b == Move(local_buf, 0, cursor_pos, len - cursor_pos + 1)
<1>1. IsLine(local_buf, len) /\ cursor_pos \in 0 .. len /\ len \in Nat /\ cursor_pos \in Nat
  BY Parts
<1>2. Edit(b, len - cursor_pos, 0) /\ InLine
  BY DEF CtrlU
<1>3. 0 \in 0 .. cursor_pos /\ 0 \in 0 .. len
  BY <1>1
<1>4. LeftOf(b, 0) = LeftOf(local_buf, 0) /\ RightOf(b, 0) = RightText
  BY <1>1, <1>3, MoveText DEF RightText
<1> HIDE DEF b
<1>5. Abstract!At(LeftOf(b, 0), RightOf(b, 0))
  BY <1>2, EditText
<1>6. LeftOf(local_buf, 0) = <<>>
  <2>1. LeftOf(local_buf, 0) \in Seq(Printable) /\ Len(LeftOf(local_buf, 0)) = 0
    BY <1>1, <1>3, Halves
  <2> QED BY <2>1, EmptySeq
<1>7. Abstract!At(<<>>, RightText)
  BY <1>4, <1>5, <1>6
<1> QED BY <1>7 DEF Abstract!EraseLeft, RightText, RightOf, TextLine

(* Ctrl-W stops where a word begins, and erases it and the blanks behind.  *)
LEMMA WordIs ==
  ASSUME cursor_pos \in Nat
  PROVE  /\ AfterWord \in 0 .. cursor_pos /\ StartPos \in 0 .. AfterWord
         /\ \A k \in AfterWord + 1 .. cursor_pos : local_buf[k - 1] = Blank
         /\ \A k \in StartPos + 1 .. AfterWord : local_buf[k - 1] # Blank
         /\ StartPos > 0 => local_buf[StartPos - 1] = Blank /\ StartPos < AfterWord
<1> DEFINE A == {0} \cup {k \in 1 .. cursor_pos : local_buf[k - 1] # Blank}
           w == AfterWord
           B == {0} \cup {k \in 1 .. w : local_buf[k - 1] = Blank}
           p == StartPos
<1>1. A \in SUBSET (0 .. cursor_pos) /\ A # {}
  OBVIOUS
<1>2. w = Max(A)
  BY DEF AfterWord
<1>3. w \in 0 .. cursor_pos /\ w \in A /\ \A y \in A : y <= w
  <2>1. w \in A /\ \A y \in A : y <= w
    <3> HIDE DEF A, w
    <3> QED BY <1>1, <1>2, Greatest
  <2> HIDE DEF w
  <2> QED BY <1>1, <2>1
<1> HIDE DEF w
<1>4. B \in SUBSET (0 .. w) /\ B # {} /\ w \in Nat
  BY <1>3
<1>5. p = Max(B)
  BY DEF StartPos, w
<1>6. p \in 0 .. w /\ p \in B /\ \A y \in B : y <= p
  <2>1. p \in B /\ \A y \in B : y <= p
    <3> HIDE DEF B, p
    <3> QED BY <1>4, <1>5, Greatest
  <2> HIDE DEF p
  <2> QED BY <1>4, <2>1
<1> HIDE DEF p
<1>7. \A k \in w + 1 .. cursor_pos : local_buf[k - 1] = Blank
  <2> TAKE k \in w + 1 .. cursor_pos
  <2>1. k \in 1 .. cursor_pos /\ ~ (k <= w)
    BY <1>4
  <2> QED BY <1>3, <2>1
<1>8. \A k \in p + 1 .. w : local_buf[k - 1] # Blank
  <2> TAKE k \in p + 1 .. w
  <2>1. k \in 1 .. w /\ ~ (k <= p)
    BY <1>4, <1>6
  <2> QED BY <1>6, <2>1
<1>9. ASSUME p > 0 PROVE local_buf[p - 1] = Blank /\ p < w
  <2>1. p \in 1 .. w /\ local_buf[p - 1] = Blank
    BY <1>6, <1>9
  <2>2. w # 0 /\ local_buf[w - 1] # Blank
    BY <1>3, <1>4, <2>1
  <2>3. p # w
    BY <2>1, <2>2
  <2> QED BY <1>4, <2>1, <2>3
<1> QED BY <1>3, <1>6, <1>7, <1>8, <1>9 DEF w, p

LEMMA CtrlWText ==
  ASSUME BufferInv, CtrlW
  PROVE  Abstract!EraseWord
<1> DEFINE c == cursor_pos
           p == StartPos
           w == AfterWord
           b == Move(local_buf, p, c, len - c + 1)
           l == LeftText
           t == SubSeq(l, p + 1, c)
           e == w - p
<1>1. IsLine(local_buf, len) /\ c \in 0 .. len /\ len \in Nat /\ c \in Nat /\ c > p
  BY Parts DEF CtrlW
<1>2. Edit(b, len - (c - p), p) /\ InLine
  BY DEF CtrlW
<1>3. /\ w \in 0 .. c /\ p \in 0 .. w
      /\ \A k \in w + 1 .. c : local_buf[k - 1] = Blank
      /\ \A k \in p + 1 .. w : local_buf[k - 1] # Blank
      /\ p > 0 => local_buf[p - 1] = Blank /\ p < w
  BY <1>1, WordIs
<1>4. l \in Seq(Printable) /\ Len(l) = c /\ \A k \in 1 .. c : l[k] = local_buf[k - 1]
  BY LineIs
<1> HIDE DEF p, w, l
<1>5. p \in 0 .. c /\ p \in Nat /\ w \in Nat /\ e \in 0 .. c - p
  BY <1>1, <1>3
<1>6. LeftOf(b, p) = LeftOf(local_buf, p) /\ RightOf(b, p) = RightText
  BY <1>1, <1>5, MoveText DEF RightText
<1>7. LeftOf(local_buf, p) = SubSeq(l, 1, p)
  BY <1>1, <1>5, LeftOfLeft DEF LeftText, l
<1>8. Abstract!At(SubSeq(l, 1, p), RightText)
  <2>1. Abstract!At(LeftOf(b, p), RightOf(b, p))
    <3> HIDE DEF b
    <3> QED BY <1>2, EditText
  <2> HIDE DEF b
  <2> QED BY <1>6, <1>7, <2>1
<1>9. t \in Seq(Printable) /\ Len(t) = c - p /\ \A k \in 1 .. c - p : t[k] = local_buf[p + k - 1]
  <2>1. p + 1 \in 1 .. c + 1 /\ c \in (p + 1) - 1 .. c
    BY <1>1, <1>5
  <2>2. \A k \in p + 1 .. c : l[k] \in Printable
    BY <1>4, <1>5
  <2>3. /\ t \in Seq(Printable)
        /\ Len(t) = IF p + 1 <= c THEN c - (p + 1) + 1 ELSE 0
        /\ \A k \in 1 .. c - (p + 1) + 1 : t[k] = l[(p + 1) + k - 1]
    BY <1>4, <2>1, <2>2, SubSeqProperties
  <2>4. c - (p + 1) + 1 = c - p /\ p + 1 <= c
    BY <1>1, <1>5
  <2> HIDE DEF t
  <2>6. ASSUME NEW k \in 1 .. c PROVE l[k] = local_buf[k - 1]
    BY <1>4
  <2> HIDE DEF c, b
  <2>5. ASSUME NEW k \in 1 .. c - p PROVE t[k] = local_buf[p + k - 1]
    <3>1. (p + 1) + k - 1 = p + k /\ p + k \in 1 .. c
      BY <1>1, <1>5
    <3>2. t[k] = l[(p + 1) + k - 1]
      BY <2>3, <2>4
    <3>3. l[p + k] = local_buf[(p + k) - 1]
      BY <2>6, <3>1
    <3>4. (p + k) - 1 = p + k - 1
      BY <1>1, <1>5
    <3> QED BY <3>1, <3>2, <3>3, <3>4
  <2> QED BY <2>3, <2>4, <2>5
<1>14. ASSUME NEW k \in 1 .. c - p PROVE t[k] = local_buf[(p + k) - 1]
  <2>1. (p + k) - 1 = p + k - 1
    BY <1>1, <1>5
  <2> QED BY <1>9, <2>1
<1> HIDE DEF t, c, b
<1>10. Abstract!IsWord(t)
  <2>1. \A k \in 1 .. e : t[k] # Blank
    <3> TAKE k \in 1 .. e
    <3>1. k \in 1 .. c - p /\ p + k \in p + 1 .. w
      BY <1>1, <1>5
    <3>2. local_buf[(p + k) - 1] # Blank
      BY <1>3, <3>1
    <3>3. t[k] = local_buf[(p + k) - 1]
      BY <1>14, <3>1
    <3> QED BY <3>2, <3>3
  <2>2. \A k \in e + 1 .. Len(t) : t[k] = Blank
    <3> TAKE k \in e + 1 .. Len(t)
    <3>1. k \in 1 .. c - p /\ p + k \in w + 1 .. c
      BY <1>1, <1>5, <1>9
    <3> QED BY <1>3, <1>9, <3>1
  <2>3. e \in 0 .. Len(t)
    BY <1>5, <1>9
  <2> HIDE DEF e
  <2> QED BY <2>1, <2>2, <2>3 DEF Abstract!IsWord
<1>11. p = 0 \/ (l[p] = Blank /\ l[p + 1] # Blank)
  <2> SUFFICES ASSUME p # 0 PROVE l[p] = Blank /\ l[p + 1] # Blank
    OBVIOUS
  <2>1. p \in 1 .. c /\ p + 1 \in 1 .. c /\ p + 1 \in p + 1 .. w /\ p > 0
    BY <1>1, <1>3, <1>5
  <2> QED BY <1>3, <1>4, <2>1
<1>12. p \in 0 .. Len(l) - 1
  BY <1>1, <1>4, <1>5
<1>13. \E n \in 0 .. Len(l) - 1 :
         /\ n = 0 \/ (l[n] = Blank /\ l[n + 1] # Blank)
         /\ Abstract!IsWord(SubSeq(l, n + 1, Len(l)))
         /\ Abstract!At(SubSeq(l, 1, n), RightText)
  BY <1>4, <1>8, <1>10, <1>11, <1>12 DEF t
<1> QED BY <1>13 DEF Abstract!EraseWord, Abstract!WordBegins, Abstract!Prefix, Abstract!Suffix,
                    LeftText, RightText, LeftOf, RightOf, TextLine, l

(* The arrows up and down show what is in the ring.                        *)
LEMMA RecallShows ==
  ASSUME BufferInv, NEW s \in Fitting, Recall(s), Listed(Ring)' = Listed(Ring),
         NEW k, history_nav_pos' + 1 = k
  PROVE  Abstract!Show(k, s)
<1>1. /\ local_buf' = StrCpy(local_buf, s) /\ cursor_pos' = Len(s) /\ buf' = buf
  BY DEF Recall, Edit
<1>2. IsLine(local_buf, len)
  BY Parts
<1>3. LeftOf(StrCpy(local_buf, s), Len(s)) = s /\ RightOf(StrCpy(local_buf, s), Len(s)) = <<>>
  BY <1>2, RecallText
<1>4. LeftText' = s /\ RightText' = <<>>
  BY <1>1, <1>3 DEF LeftText, RightText
<1>5. Kept' = Kept
  BY DEF Recall, Edit, fileVars, Kept
<1> QED BY <1>1, <1>4, <1>5, ShowIs

LEMMA RingFacts ==
  ASSUME BufferInv
  PROVE  /\ IsRing(Ring) /\ MAX_HISTORY \in Nat \ {0} /\ history_count \in Nat
         /\ history_nav_pos \in -1 .. history_count - 1
         /\ history_buf \in [0 .. MAX_HISTORY -> Fitting]
         /\ Listed(Ring) \in Seq(Fitting) /\ Len(Listed(Ring)) = history_count
<1>1. IsRing(Ring) /\ history_nav_pos \in -1 .. history_count - 1
  BY Parts
<1>2. MAX_HISTORY \in Nat \ {0} /\ history_count \in Nat /\ history_buf \in [0 .. MAX_HISTORY -> Fitting]
  BY <1>1, LineAssumption DEF IsRing, Ring
<1>3. Listed(Ring) \in Seq(Fitting) /\ Len(Listed(Ring)) = Ring.count
  BY <1>1, ListedFits
<1>4. Ring.count = history_count
  BY DEF Ring
<1> QED BY <1>1, <1>2, <1>3, <1>4

LEMMA UpText ==
  ASSUME BufferInv, ArrowUp
  PROVE  Abstract!Older
<1> DEFINE h == Listed(Ring)
           k == history_nav_pos + 2
           s == Recent(history_nav_pos + 1)
<1>1. /\ IsRing(Ring) /\ MAX_HISTORY \in Nat \ {0} /\ history_count \in Nat
      /\ history_nav_pos \in -1 .. history_count - 1
      /\ history_buf \in [0 .. MAX_HISTORY -> Fitting]
      /\ h \in Seq(Fitting) /\ Len(h) = history_count
  BY RingFacts
<1>2. /\ history_nav_pos < history_count - 1 /\ history_nav_pos' = history_nav_pos + 1
      /\ history_buf' = IF history_nav_pos = -1
                        THEN [history_buf EXCEPT ![MAX_HISTORY] = String(local_buf)] ELSE history_buf
      /\ Recall(s)
      /\ history_head' = history_head /\ history_count' = history_count
  BY DEF ArrowUp
<1>3. Listed(Ring') = h
  <2>1. \A j \in 0 .. MAX_HISTORY - 1 : history_buf'[j] = history_buf[j]
    BY <1>1, <1>2
  <2> QED BY <1>1, <1>2, <2>1, SameListed
<1>4. k \in 1 .. history_count /\ k - 1 = history_nav_pos + 1 /\ history_nav_pos + 1 \in Int
  BY <1>1, <1>2
<1>5. s = h[history_count + 1 - k]
  <2>1. Recent(k - 1) = h[history_count + 1 - k]
    <3> HIDE DEF k
    <3> QED BY <1>1, <1>4, RecentIs
  <2> QED BY <1>4, <2>1
<1>6. s \in Fitting
  BY <1>1, <1>4, RecentFits
<1>7. history_nav_pos' + 1 = k /\ k = (history_nav_pos + 1) + 1
  BY <1>1, <1>2
<1> HIDE DEF h, k, s
<1>8. Abstract!Show(k, s)
  BY <1>2, <1>3, <1>6, <1>7, RecallShows DEF h
<1>9. history_nav_pos + 1 < Len(h)
  BY <1>1, <1>2
<1>10. Draft' = IF history_nav_pos + 1 = 0 THEN Abstract!Line ELSE Draft
  <2>1. Draft' = history_buf'[MAX_HISTORY]
    BY <1>1, <1>2 DEF Draft
  <2>2. Abstract!Line = String(local_buf)
    BY LineIs
  <2>3. CASE history_nav_pos = -1
    BY <1>1, <1>2, <2>1, <2>2, <2>3
  <2>4. CASE history_nav_pos # -1
    BY <1>1, <1>2, <2>1, <2>4 DEF Draft
  <2> QED BY <2>3, <2>4
<1>11. Abstract!Show((history_nav_pos + 1) + 1, h[Len(h) + 1 - ((history_nav_pos + 1) + 1)])
  BY <1>1, <1>5, <1>7, <1>8
<1> QED BY <1>9, <1>10, <1>11 DEF Abstract!Older, Abstract!Back, Draft, h

LEMMA DownText ==
  ASSUME BufferInv, ArrowDown
  PROVE  Abstract!Newer
<1> DEFINE h == Listed(Ring)
           k == history_nav_pos
           s == IF k = 0 THEN history_buf[MAX_HISTORY] ELSE Recent(k - 1)
<1>1. /\ IsRing(Ring) /\ MAX_HISTORY \in Nat \ {0} /\ history_count \in Nat
      /\ k \in -1 .. history_count - 1
      /\ history_buf \in [0 .. MAX_HISTORY -> Fitting]
      /\ h \in Seq(Fitting) /\ Len(h) = history_count
  BY RingFacts
<1>2. k > -1 /\ history_nav_pos' = k - 1 /\ Recall(s) /\ Ring' = Ring /\ history_buf' = history_buf
  BY DEF ArrowDown, ringVars, Ring
<1>3. Listed(Ring)' = h
  BY <1>2
<1>4. k \in Int /\ k - 1 \in Int /\ k \in Nat
  BY <1>1, <1>2
<1>5. s \in Fitting
  <2>1. Recent(k - 1) \in Fitting
    BY <1>1, <1>4, RecentFits
  <2> QED BY <1>1, <2>1
<1>6. history_nav_pos' + 1 = k
  BY <1>2, <1>4
<1>7. Abstract!Show(k, s)
  <2> HIDE DEF h, k, s
  <2> QED BY <1>2, <1>3, <1>5, <1>6, RecallShows DEF h
<1>8. CASE k = 0
  <2>1. Abstract!Show(0, Draft)
    BY <1>7, <1>8 DEF Draft
  <2>2. Draft' = <<>>
    BY <1>2, <1>8 DEF Draft
  <2>3. history_nav_pos + 1 = 1
    BY <1>8
  <2> QED BY <2>1, <2>2, <2>3 DEF Abstract!Newer, Draft
<1>9. CASE k # 0
  <2>1. k \in 1 .. history_count
    BY <1>1, <1>4, <1>9
  <2>2. s = h[history_count + 1 - k]
    <3>1. Recent(k - 1) = h[history_count + 1 - k]
      BY <1>1, <2>1, RecentIs
    <3> QED BY <1>9, <3>1
  <2>3. (history_nav_pos + 1) - 1 = k /\ history_nav_pos + 1 > 1
    BY <1>4, <1>9
  <2> HIDE DEF s
  <2>4. Abstract!Show((history_nav_pos + 1) - 1, h[Len(h) + 1 - ((history_nav_pos + 1) - 1)])
    BY <1>1, <1>7, <2>2, <2>3
  <2>5. Draft' = Draft
    BY <1>2, <1>4, <1>9 DEF Draft
  <2> QED BY <2>3, <2>4, <2>5 DEF Abstract!Newer, Abstract!Back, Draft
<1> QED BY <1>8, <1>9

(* Where the command ends on a line: behind the last character that is not *)
(* blank, before the comment.                                              *)
StopsAt(s, n) == (n = Len(s) \/ s[n + 1] = Comment) /\ \A k \in 1 .. n : s[k] # Comment
CutAt(s, m) ==
  \E n \in m .. Len(s) : /\ StopsAt(s, n) /\ \A k \in m + 1 .. n : s[k] = Blank
                         /\ m > 0 => s[m] # Blank
IsCommand(s, t) ==
  \E n \in Len(t) .. Len(s) : /\ StopsAt(s, n) /\ \A k \in Len(t) + 1 .. n : s[k] = Blank
                              /\ t # <<>> => t[Len(t)] # Blank

LEMMA OneCut ==
  ASSUME NEW s \in Fitting, NEW m \in 0 .. Len(s), CutAt(s, m), NEW q \in 0 .. Len(s), CutAt(s, q)
  PROVE  ~ (m < q)
<1> SUFFICES ASSUME m < q PROVE FALSE
  OBVIOUS
<1>1. Len(s) \in Nat
  BY DEF Fitting, Text
<1>2. PICK n \in m .. Len(s) : StopsAt(s, n) /\ \A k \in m + 1 .. n : s[k] = Blank
  BY DEF CutAt
<1>3. PICK j \in q .. Len(s) : StopsAt(s, j) /\ (q > 0 => s[q] # Blank)
  BY DEF CutAt
<1>4. ~ (n < j)
  <2> SUFFICES ASSUME n < j PROVE FALSE
    OBVIOUS
  <2>1. n + 1 \in 1 .. j /\ n # Len(s)
    BY <1>1
  <2> QED BY <1>2, <1>3, <2>1 DEF StopsAt
<1>5. q \in m + 1 .. n /\ q > 0
  BY <1>1, <1>4
<1> QED BY <1>2, <1>3, <1>5

LEMMA CommandCut ==
  ASSUME NEW s \in Fitting, NEW m \in 0 .. Len(s)
  PROVE  IsCommand(s, SubSeq(s, 1, m)) <=> CutAt(s, m)
<1> DEFINE t == SubSeq(s, 1, m)
<1>1. s \in Seq(Printable) /\ Len(s) \in Nat
  BY DEF Fitting, Text
<1>2. t \in Seq(Printable) /\ Len(t) = m /\ \A k \in 1 .. m : t[k] = s[k]
  BY <1>1, SubSeqProperties
<1> HIDE DEF t
<1>3. t # <<>> <=> m > 0
  BY <1>1, <1>2, EmptySeq
<1>4. m > 0 => t[m] = s[m]
  <2> SUFFICES ASSUME m > 0 PROVE t[m] = s[m]
    OBVIOUS
  <2>1. m \in 1 .. m
    BY <1>1
  <2> QED BY <1>2, <2>1
<1>5. (t # <<>> => t[Len(t)] # Blank) <=> (m > 0 => s[m] # Blank)
  BY <1>2, <1>3, <1>4
<1>6. IsCommand(s, t) <=> CutAt(s, m)
  BY <1>2, <1>5 DEF IsCommand, CutAt
<1> QED BY <1>6 DEF t

LEMMA CleanedCut ==
  ASSUME NEW s \in Fitting
  PROVE  \E m \in 0 .. Len(s) : Cleaned(s) = SubSeq(s, 1, m) /\ CutAt(s, m)
<1> DEFINE C == {Len(s)} \cup {k - 1 : k \in {j \in 1 .. Len(s) : s[j] = Comment}}
           c == Min(C)
           u == SubSeq(s, 1, c)
           B == {0} \cup {k \in 1 .. Len(u) : u[k] # Blank}
           m == Max(B)
<1>1. s \in Seq(Printable) /\ Len(s) \in Nat
  BY DEF Fitting, Text
<1>2. C \in SUBSET (0 .. Len(s)) /\ C # {}
  BY <1>1
<1>3. c \in C /\ \A y \in C : c <= y
  <2>1. C \in SUBSET Nat
    BY <1>1, <1>2
  <2> HIDE DEF C
  <2> QED BY <1>2, <2>1, Least
<1>4. c \in 0 .. Len(s)
  <2> HIDE DEF C, c
  <2> QED BY <1>2, <1>3
<1> HIDE DEF c
<1>5. StopsAt(s, c)
  <2>1. c = Len(s) \/ s[c + 1] = Comment
    BY <1>1, <1>3, <1>4
  <2>2. ASSUME NEW k \in 1 .. c PROVE s[k] # Comment
    <3>1. k \in 1 .. Len(s) /\ ~ (c <= k - 1)
      BY <1>1, <1>4
    <3> QED BY <1>3, <3>1
  <2> QED BY <2>1, <2>2 DEF StopsAt
<1> HIDE DEF C
<1>6. u \in Seq(Printable) /\ Len(u) = c /\ \A k \in 1 .. c : u[k] = s[k]
  BY <1>1, <1>4, SubSeqProperties
<1>7. Cleaned(s) = SubSeq(u, 1, m)
  BY DEF Cleaned, Trimmed, Uncommented, c, C
<1> HIDE DEF u
<1>8. B \in SUBSET (0 .. c) /\ B # {} /\ c \in Nat
  BY <1>1, <1>4, <1>6
<1>9. m \in B /\ \A y \in B : y <= m
  <2> HIDE DEF B
  <2> QED BY <1>8, Greatest
<1> HIDE DEF m
<1>10. m \in 0 .. c /\ m \in 0 .. Len(s)
  <2>1. m \in 0 .. c
    <3> HIDE DEF B
    <3> QED BY <1>8, <1>9
  <2> QED BY <1>1, <1>4, <2>1
<1>11. m > 0 => s[m] # Blank
  <2> SUFFICES ASSUME m > 0 PROVE s[m] # Blank
    OBVIOUS
  <2>1. m \in 1 .. c
    BY <1>8, <1>10
  <2>2. u[m] # Blank
    BY <1>8, <1>9
  <2> QED BY <1>6, <2>1, <2>2
<1>12. ASSUME NEW k \in m + 1 .. c PROVE s[k] = Blank
  <2>1. k \in 1 .. c /\ ~ (k <= m)
    BY <1>8, <1>10
  <2>2. u[k] = Blank
    BY <1>6, <1>9, <2>1
  <2> QED BY <1>6, <2>1, <2>2
<1> HIDE DEF B
<1>13. CutAt(s, m)
  <2>1. c \in m .. Len(s)
    BY <1>4, <1>8, <1>10
  <2> QED BY <1>5, <1>11, <1>12, <2>1 DEF CutAt
<1>14. SubSeq(u, 1, m) = SubSeq(s, 1, m)
  <2> DEFINE v == SubSeq(u, 1, m)
             w == SubSeq(s, 1, m)
  <2>1. v \in Seq(Printable) /\ Len(v) = m /\ \A k \in 1 .. m : v[k] = u[k]
    BY <1>6, <1>8, <1>10, SubSeqProperties
  <2>2. w \in Seq(Printable) /\ Len(w) = m /\ \A k \in 1 .. m : w[k] = s[k]
    BY <1>1, <1>10, SubSeqProperties
  <2> HIDE DEF v, w
  <2>3. ASSUME NEW k \in 1 .. m PROVE v[k] = w[k]
    <3>1. k \in 1 .. c
      BY <1>8, <1>10
    <3> QED BY <1>6, <2>1, <2>2, <3>1
  <2> QED BY <2>1, <2>2, <2>3, SeqEqual DEF v, w
<1> QED BY <1>7, <1>10, <1>13, <1>14

LEMMA CommandIs ==
  ASSUME NEW s \in Fitting
  PROVE  Abstract!Command(s) = Cleaned(s)
<1> DEFINE T == {SubSeq(s, 1, n) : n \in 0 .. Len(s)}
<1>1. Abstract!Command(s) = CHOOSE t \in T : IsCommand(s, t)
  BY DEF Abstract!Command, Abstract!Stop, Abstract!Prefix, IsCommand, StopsAt
<1>2. PICK m \in 0 .. Len(s) : Cleaned(s) = SubSeq(s, 1, m) /\ CutAt(s, m)
  BY CleanedCut
<1>3. Cleaned(s) \in T /\ IsCommand(s, Cleaned(s))
  BY <1>2, CommandCut
<1>4. ASSUME NEW t \in T, IsCommand(s, t) PROVE t = Cleaned(s)
  <2>1. PICK q \in 0 .. Len(s) : t = SubSeq(s, 1, q)
    OBVIOUS
  <2>2. CutAt(s, q)
    BY <1>4, <2>1, CommandCut
  <2>3. ~ (m < q) /\ ~ (q < m)
    BY <1>2, <2>2, OneCut
  <2>4. m = q
    BY <2>3 DEF Fitting, Text
  <2> QED BY <1>2, <2>1, <2>4
<1> HIDE DEF T
<1> QED BY <1>1, <1>3, <1>4

(* readline_advanced starts over on an empty line.                         *)
LEMMA FreshLine ==
  ASSUME BufferInv, StartLine
  PROVE  LeftText' = <<>> /\ RightText' = <<>> /\ history_nav_pos' = -1
<1> DEFINE b == [local_buf EXCEPT ![0] = NUL]
<1>1. IsLine(local_buf, len) /\ 0 \in 0 .. len /\ 0 \in 0 .. 0
  BY Parts
<1>2. local_buf' = b /\ cursor_pos' = 0 /\ history_nav_pos' = -1
  BY DEF StartLine
<1>3. IsLine(b, 0)
  BY <1>1, Cut
<1>4. RightOf(b, 0) = <<>>
  BY <1>1, CutLine
<1> HIDE DEF b
<1>5. LeftOf(b, 0) = <<>>
  <2>1. LeftOf(b, 0) \in Seq(Printable) /\ Len(LeftOf(b, 0)) = 0
    BY <1>1, <1>3, Halves
  <2> QED BY <2>1, EmptySeq
<1> QED BY <1>2, <1>4, <1>5 DEF LeftText, RightText

(* main records what is new.                                               *)
LEMMA NewIs ==
  ASSUME BufferInv, NEW s
  PROVE  Abstract!IsNew(s) <=> Recorded(s)
<1> DEFINE h == Listed(Ring)
<1>1. IsRing(Ring) /\ h \in Seq(Fitting) /\ Len(h) = history_count /\ history_count \in Nat
  BY RingFacts
<1>2. h = <<>> <=> ~ (history_count > 0)
  <2> HIDE DEF h
  <2> QED BY <1>1, EmptySeq
<1>3. history_count > 0 => Recent(0) = h[history_count]
  <2> SUFFICES ASSUME history_count > 0 PROVE Recent(0) = h[history_count]
    OBVIOUS
  <2>1. 1 \in 1 .. history_count /\ history_count + 1 - 1 = history_count /\ 1 - 1 = 0
    BY <1>1
  <2>2. Recent(1 - 1) = Listed(Ring)[history_count + 1 - 1]
    BY <1>1, <2>1, RecentIs
  <2> QED BY <2>1, <2>2
<1>4. Abstract!IsNew(s) <=> s # <<>> /\ (h = <<>> \/ h[Len(h)] # s)
  BY DEF Abstract!IsNew
<1> HIDE DEF h
<1> QED BY <1>1, <1>2, <1>3, <1>4 DEF Recorded

LEMMA ReturnsText ==
  ASSUME BufferInv, NEW s \in Fitting, Returns(s)
  PROVE  Abstract!Leave(IF Abstract!IsNew(s) THEN Abstract!LastOf(Append(Listed(Ring), s))
                                             ELSE Listed(Ring), s)
<1>1. buf' = s /\ HistoryAdd(s) /\ StartLine
  BY DEF Returns
<1>2. LeftText' = <<>> /\ RightText' = <<>> /\ history_nav_pos' = -1
  BY <1>1, FreshLine
<1>3. Abstract!IsNew(s) <=> Recorded(s)
  BY NewIs
<1>4. CASE Recorded(s)
  <2> DEFINE r == RingAdd(Ring, s)
  <2>1. RingBecomes(r) /\ s # <<>>
    BY <1>1, <1>4 DEF HistoryAdd, Recorded
  <2>2. IsRing(Ring)
    BY RingFacts
  <2>3. Listed(r) = Abstract!LastOf(Append(Listed(Ring), s))
    BY <2>1, <2>2, ListedAdd
  <2> HIDE DEF r
  <2>4. Listed(Ring)' = Listed(r)
    BY <2>1 DEF RingBecomes, Listed, Ring
  <2>5. Abstract!Leave(Listed(r), s)
    BY <1>1, <1>2, <2>4, LeaveIs
  <2> QED BY <1>3, <1>4, <2>3, <2>5
<1>5. CASE ~ Recorded(s)
  <2>1. Listed(Ring)' = Listed(Ring)
    BY <1>1, <1>5 DEF HistoryAdd, ringVars, Listed, Ring
  <2>2. Abstract!Leave(Listed(Ring), s)
    BY <1>1, <1>2, <2>1, LeaveIs
  <2> QED BY <1>3, <1>5, <2>2
<1> QED BY <1>4, <1>5

LEMMA EnterText ==
  ASSUME BufferInv, Enter
  PROVE  Abstract!Enter
<1> DEFINE s == Cleaned(String(local_buf))
<1>1. Abstract!Line = String(local_buf) /\ String(local_buf) \in Fitting
  BY LineIs
<1>2. Abstract!Command(Abstract!Line) = s /\ s \in Fitting
  BY <1>1, CommandIs, CleanedFits
<1>3. Returns(s)
  BY DEF Enter
<1> HIDE DEF s
<1>4. Abstract!Leave(IF Abstract!IsNew(s) THEN Abstract!LastOf(Append(Listed(Ring), s))
                                          ELSE Listed(Ring), s)
  BY <1>2, <1>3, ReturnsText
<1>5. Kept' = Kept
  BY <1>3 DEF Returns, fileVars, Kept
<1> QED BY <1>2, <1>4, <1>5 DEF Abstract!Enter, Kept

LEMMA CtrlDText ==
  ASSUME BufferInv, NewestInv, CtrlD
  PROVE  Abstract!EndOfInput
<1>1. buf \in Fitting
  BY Parts
<1>2. Returns(buf)
  BY DEF CtrlD
<1>3. Abstract!Leave(IF Abstract!IsNew(buf) THEN Abstract!LastOf(Append(Listed(Ring), buf))
                                            ELSE Listed(Ring), buf)
  BY <1>1, <1>2, ReturnsText
<1>4. ~ Abstract!IsNew(buf)
  <2>1. ~ Recorded(buf)
    BY DEF NewestInv, Recorded
  <2> QED BY <2>1, NewIs
<1>5. Kept' = Kept
  BY <1>2 DEF Returns, fileVars, Kept
<1> QED BY <1>3, <1>4, <1>5 DEF Abstract!EndOfInput, Kept

(* A request to the file server shows the user nothing but whether the     *)
(* history will be there.                                                  *)
LEMMA SaveText ==
  ASSUME SaveRemove \/ SaveCreate \/ SavePrint \/ RunHistory
  PROVE  Abstract!Save
<1>1. /\ local_buf' = local_buf /\ cursor_pos' = cursor_pos /\ history_nav_pos' = history_nav_pos
      /\ history_buf' = history_buf /\ history_head' = history_head
      /\ history_count' = history_count /\ history_tail' = history_tail /\ buf' = buf
  BY DEF SaveRemove, SaveCreate, SavePrint, RunHistory, SaveLeaves, lineVars, ringVars
<1>2. TextLine' = TextLine
  BY <1>1 DEF TextLine
<1>3. Listed(Ring)' = Listed(Ring)
  BY <1>1 DEF Listed, Ring
<1> QED BY <1>1, <1>2, <1>3 DEF Abstract!Save

LEMMA NothingText ==
  ASSUME UNCHANGED vars
  PROVE  UNCHANGED Abstract!editorVars
<1>1. /\ local_buf' = local_buf /\ cursor_pos' = cursor_pos /\ history_nav_pos' = history_nav_pos
      /\ history_buf' = history_buf /\ history_head' = history_head
      /\ history_count' = history_count /\ history_tail' = history_tail /\ buf' = buf
      /\ file' = file /\ saved' = saved
  BY DEF vars, lineVars, ringVars, fileVars
<1>2. TextLine' = TextLine
  BY <1>1 DEF TextLine
<1>3. Listed(Ring)' = Listed(Ring)
  BY <1>1 DEF Listed, Ring
<1> QED BY <1>1, <1>2, <1>3 DEF Abstract!editorVars

(* A new shell.                                                            *)
LEMMA EmptyLine ==
  ASSUME local_buf' = [k \in Cells |-> NUL], cursor_pos' = 0
  PROVE  LeftText' = <<>> /\ RightText' = <<>>
<1> DEFINE b == [k \in Cells |-> NUL]
<1>1. IsLine(b, 0) /\ 0 \in 0 .. 0
  BY LineAssumption DEF IsLine, EndsAt, Cells, Char
<1> HIDE DEF b
<1>2. /\ LeftOf(b, 0) \in Seq(Printable) /\ Len(LeftOf(b, 0)) = 0
      /\ RightOf(b, 0) \in Seq(Printable) /\ Len(RightOf(b, 0)) = 0
  <2>1. 0 - 0 = 0
    OBVIOUS
  <2> QED BY <1>1, <2>1, Halves
<1>3. LeftOf(b, 0) = <<>> /\ RightOf(b, 0) = <<>>
  BY <1>2, EmptySeq
<1>4. local_buf' = b /\ cursor_pos' = 0
  BY DEF b
<1> QED BY <1>3, <1>4 DEF LeftText, RightText

LEMMA RestartText ==
  ASSUME LineInv, BufferInv', Restart
  PROVE  Abstract!NewShell
<1> DEFINE h == Listed(Ring)
           g == Listed(Ring)'
<1>1. /\ at = "edit" /\ Opens /\ saved' = (Holes(file') = {})
      /\ RingBecomes(IF saved' THEN HistoryLoad(file') ELSE EmptyRing)
      /\ buf' = <<>> /\ history_nav_pos' = -1
      /\ local_buf' = [k \in Cells |-> NUL] /\ cursor_pos' = 0
  BY DEF Restart, Editing
<1>2. BufferInv /\ SaveInv /\ IsFile(file)
  BY Parts DEF LineInv
<1>3. ASSUME Kept, NoneEmpty(h) PROVE g = h
  <2>1. Holes(file) = {}
    BY <1>1, <1>2, <1>3 DEF SaveInv, Kept
  <2>2. file' = file
    BY <1>1, <1>2, <2>1, OpensOk
  <2>3. RingBecomes(HistoryLoad(file))
    BY <1>1, <2>1, <2>2
  <2>4. g = Listed(HistoryLoad(file))
    BY <2>3 DEF RingBecomes, Listed, Ring
  <2>5. Listed(HistoryLoad(file)) = h
    BY <1>1, <1>3, Survives DEF HistorySurvives, Kept
  <2> QED BY <2>4, <2>5
<1>4. g \in Seq(Fitting) /\ Len(g) = history_count' /\ history_count' \in 0 .. MAX_HISTORY
  <2>1. (BufferInv => /\ IsRing(Ring)
                      /\ Listed(Ring) \in Seq(Fitting) /\ Len(Listed(Ring)) = history_count)'
    BY RingFacts, PTL
  <2>2. history_count' \in 0 .. MAX_HISTORY
    BY <2>1 DEF IsRing, Ring
  <2> QED BY <2>1, <2>2
<1>5. LeftText' = <<>> /\ RightText' = <<>>
  BY <1>1, EmptyLine
<1>6. Abstract!Leave(g, <<>>)
  BY <1>1, <1>5, LeaveIs
<1>7. NoneEmpty(h) <=> \A k \in 1 .. Len(h) : h[k] # <<>>
  <2>1. DOMAIN h = 1 .. Len(h)
    <3>1. IsRing(Ring)
      BY <1>2, RingFacts
    <3>2. h \in Seq(Fitting)
      BY <3>1, ListedFits
    <3> HIDE DEF h
    <3> QED BY <3>2
  <2> HIDE DEF h
  <2> QED BY <2>1 DEF NoneEmpty
<1> HIDE DEF h, g
<1>8. Len(g) <= MAX_HISTORY /\ \A k \in 1 .. Len(g) : Len(g[k]) <= MAX_CMD_LEN - 1
  <2>1. \A k \in 1 .. Len(g) : g[k] \in Fitting
    BY <1>4
  <2>2. \A t \in Fitting : Len(t) <= MAX_CMD_LEN - 1
    BY LineAssumption DEF Fitting, Text
  <2> QED BY <1>4, <2>1, <2>2, LineAssumption
<1>9. Kept' \in BOOLEAN
  BY DEF Kept
<1> QED BY <1>3, <1>6, <1>7, <1>8, <1>9 DEF Abstract!NewShell, Kept, g, h

(* Every step is a step of Editor, or none.                                *)
LEMMA NextEditor ==
  ASSUME LineInv, [Next]_vars
  PROVE  [Abstract!EditorNext]_(Abstract!editorVars)
<1>1. BufferInv /\ NewestInv /\ BufferInv'
  BY NextBuffers DEF LineInv
<1>2. ASSUME NEW c \in Printable, TypeChar(c) PROVE Abstract!EditorNext
  BY <1>1, <1>2, TypeText DEF Abstract!EditorNext
<1>3. CASE Backspace
  BY <1>1, <1>3, BackspaceText DEF Abstract!EditorNext
<1>4. CASE CtrlA \/ CtrlE \/ ArrowLeft \/ ArrowRight
  BY <1>1, <1>4, MoveKeys DEF Abstract!EditorNext
<1>5. CASE CtrlK
  BY <1>1, <1>5, CtrlKText DEF Abstract!EditorNext
<1>6. CASE CtrlU
  BY <1>1, <1>6, CtrlUText DEF Abstract!EditorNext
<1>7. CASE CtrlW
  BY <1>1, <1>7, CtrlWText DEF Abstract!EditorNext
<1>8. CASE ArrowUp
  BY <1>1, <1>8, UpText DEF Abstract!EditorNext
<1>9. CASE ArrowDown
  BY <1>1, <1>9, DownText DEF Abstract!EditorNext
<1>10. CASE Enter
  BY <1>1, <1>10, EnterText DEF Abstract!EditorNext
<1>11. CASE CtrlD
  BY <1>1, <1>11, CtrlDText DEF Abstract!EditorNext
<1>12. CASE Restart
  BY <1>1, <1>12, RestartText DEF Abstract!EditorNext
<1>13. CASE SaveRemove \/ SaveCreate \/ SavePrint \/ RunHistory
  BY <1>13, SaveText DEF Abstract!EditorNext
<1>14. CASE UNCHANGED vars
  BY <1>14, NothingText
<1> QED BY <1>2, <1>3, <1>4, <1>5, <1>6, <1>7, <1>8, <1>9, <1>10, <1>11, <1>12, <1>13, <1>14 DEF Next

LEMMA InitEditor == Init => Abstract!EditorInit
<1> SUFFICES ASSUME Init PROVE Abstract!EditorInit
  OBVIOUS
<1> DEFINE b == [k \in Cells |-> NUL]
<1>1. /\ local_buf = b /\ cursor_pos = 0 /\ history_nav_pos = -1 /\ buf = <<>>
      /\ Ring = EmptyRing /\ saved = TRUE /\ file = <<>>
  BY DEF Init, Ring, EmptyRing
<1>2. IsLine(b, 0) /\ 0 \in 0 .. 0 /\ 0 - 0 = 0
  BY LineAssumption DEF IsLine, EndsAt, Cells, Char
<1> HIDE DEF b
<1>3. /\ LeftOf(b, 0) \in Seq(Printable) /\ Len(LeftOf(b, 0)) = 0
      /\ RightOf(b, 0) \in Seq(Printable) /\ Len(RightOf(b, 0)) = 0
  BY <1>2, Halves
<1>4. LeftText = <<>> /\ RightText = <<>>
  BY <1>1, <1>3, EmptySeq DEF LeftText, RightText
<1>5. Listed(EmptyRing) = <<>>
  <2>1. EmptyRing.count = 0
    BY DEF EmptyRing
  <2>2. Listed(EmptyRing) \in Seq(Fitting) /\ Len(Listed(EmptyRing)) = 0
    BY <2>1, EmptyRingOk, ListedFits
  <2> QED BY <2>2, EmptySeq
<1>6. history_nav_pos + 1 = 0
  BY <1>1
<1>7. (saved /\ Len(file) <= CHUNK) = TRUE
  BY <1>1, LineAssumption
<1> QED BY <1>1, <1>4, <1>5, <1>6, <1>7 DEF Abstract!EditorInit, LeftText, RightText, LeftOf, RightOf, TextLine

(* The arrays, the lengths and the ring of readline_advanced are a line    *)
(* with a cursor and a list of commands, whatever is typed and however     *)
(* often the history is saved, not saved or saved with holes; a new shell  *)
(* has the list again unless a save failed or the file is longer than one  *)
(* read, and then some list that fits.                                     *)
THEOREM LineIsEditor == Spec => ImplementsEditor
<1>1. Init => Abstract!EditorInit
  BY InitEditor
<1>2. LineInv /\ [Next]_vars => [Abstract!EditorNext]_(Abstract!editorVars)
  BY NextEditor
<1> QED BY <1>1, <1>2, LineInvariant, PTL DEF Spec, ImplementsEditor, Abstract!EditorSpec
=============================================================================
