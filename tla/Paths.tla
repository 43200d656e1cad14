------------------------------- MODULE Paths -------------------------------
(***************************************************************************)
(* Paths are strings, here sequences of characters; resolve_path (in       *)
(* user/lib/path.c for every program, and again in user/sh.c for the shell *)
(* itself) makes one absolute by editing the working directory component   *)
(* by component.  Walk is what it is to compute: a list of names.          *)
(***************************************************************************)
EXTENDS Integers, Sequences, FiniteSets, SequencesExt

CONSTANTS MAXPATHLEN, MAXNAMELEN   \* sizes of the buffers, with the NUL

ASSUME PathAssumption == {MAXPATHLEN, MAXNAMELEN} \subseteq Nat /\ MAXPATHLEN >= 2

Slash == "/"
Dot == <<".">>
DotDot == <<".", ".">>
Root == <<Slash>>
BadPath == <<>>

(* The runs of characters between slashes, in order.                       *)
CompEnd(path, i) == Min({j \in i .. Len(path) + 1 : j = Len(path) + 1 \/ path[j] = Slash}) - 1
CompStarts(path) == {i \in 1 .. Len(path) : path[i] # Slash /\ (i = 1 \/ path[i - 1] = Slash)}
Components(path) ==
  LET starts == SetToSortSeq(CompStarts(path), <)
  IN  [k \in 1 .. Len(starts) |-> SubSeq(path, starts[k], CompEnd(path, starts[k]))]

(* "..": cut at the last slash, but keep the one at the front.  BackTo is  *)
(* the index in the C string at which the search backwards stops.          *)
BackTo(r, from) == Max({0} \cup {i \in 1 .. from : r[i + 1] = Slash})

UpBug(r) ==
  IF Len(r) <= 1 THEN r
  ELSE SubSeq(r, 1, BackTo(r, IF r[Len(r)] = Slash THEN Len(r) - 2 ELSE Len(r) - 1))

Up(r) ==
  IF Len(r) <= 1 THEN r
  ELSE LET i == BackTo(r, IF r[Len(r)] = Slash THEN Len(r) - 2 ELSE Len(r) - 1)
       IN  SubSeq(r, 1, IF i > 0 THEN i ELSE 1)

(* A name: a slash unless the path is the root, and both must fit.         *)
Down(r, name) ==
  LET joined == IF Len(r) > 1 THEN r \o Root \o name ELSE r \o name
  IN  IF Len(joined) >= MAXPATHLEN THEN BadPath ELSE joined

Enter(r, c) ==
  CASE r = BadPath \/ Len(c) >= MAXNAMELEN -> BadPath
    [] c = Dot -> r
    [] c = DotDot -> Up(r)
    [] OTHER -> Down(r, c)

ResolvePath(cwd, path) ==
  IF path = <<>> THEN Root
  ELSE FoldLeft(Enter, IF path[1] = Slash THEN Root ELSE cwd, Components(path))

-----------------------------------------------------------------------------
(* The reference: names from the root.  Written is how such a list is written.*)

StepInto(names, c) ==
  CASE c = Dot -> names
    [] c = DotDot -> IF names = <<>> THEN names ELSE Front(names)
    [] OTHER -> Append(names, c)

Walk(names, path) == FoldLeft(StepInto, IF path # <<>> /\ path[1] # Slash THEN names ELSE <<>>, Components(path))

Written(names) == IF names = <<>> THEN Root ELSE FlattenSeq([i \in DOMAIN names |-> Root \o names[i]])

(* The longest path on the way must fit, not only the last.                *)
Fits(names, path) ==
  LET cs == Components(path)
      start == IF path # <<>> /\ path[1] # Slash THEN names ELSE <<>>
  IN  /\ \A i \in DOMAIN cs : Len(cs[i]) < MAXNAMELEN
      /\ \A n \in 0 .. Len(cs) : Len(Written(FoldLeft(StepInto, start, SubSeq(cs, 1, n)))) < MAXPATHLEN

ResolvesAsWalk(cwd, path) ==
  ResolvePath(cwd, path) = IF Fits(Components(cwd), path)
                           THEN Written(Walk(Components(cwd), path)) ELSE BadPath
=============================================================================
