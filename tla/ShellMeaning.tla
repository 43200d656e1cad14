---------------------------- MODULE ShellMeaning ----------------------------
(***************************************************************************)
(* What a command line means, whatever processes it takes: which commands  *)
(* run, what they write to the screen and to files, the status that is     *)
(* left.  A line is a sequence of commands with the separator after each;  *)
(* a command is a pipeline, a sequence of stages; a stage has words, the   *)
(* pipeline it quotes in backticks, if any, and redirections, "" for none. *)
(***************************************************************************)
EXTENDS Paths, TLC

CONSTANTS
  Programs,    \* the external programs: [echoes, copies, status, rooted]
  PathOf,      \* the text of the words that are paths
  Dirs,        \* the directories
  ReadOnly,    \* the words that name read-only variables
  OutSize,     \* words command substitution can take
  CmdSize,     \* words of a command after it
  MAXARGS      \* words of one stage

Builtins == {"cd", "pwd", "declare", "unset"}

Stage(argv) == [argv |-> argv, sub |-> <<>>, from |-> "", to |-> "", more |-> ""]
Command(pipeline, sep) == [pipe |-> pipeline, sep |-> sep]

WordFor(path) == CHOOSE w \in DOMAIN PathOf : PathOf[w] = path

(* The text of a line, as the words and symbols of it.                     *)
Redirect(symbol, w) == IF w = "" THEN <<>> ELSE <<symbol, w>>
StageText(s, quoted) ==
  s.argv \o quoted \o Redirect("<", s.from) \o Redirect(">", s.to) \o Redirect(">>", s.more)
PipeText(p) ==
  Tail(FlattenSeq([i \in DOMAIN p |-> <<"|">> \o StageText(p[i], <<>>)]))
Quoted(s) == IF s.sub = <<>> THEN <<>> ELSE <<"tick">> \o PipeText(s.sub) \o <<"tick">>
LineText(line) ==
  FlattenSeq([i \in DOMAIN line |->
    Tail(FlattenSeq([k \in DOMAIN line[i].pipe |->
           <<"|">> \o StageText(line[i].pipe[k], Quoted(line[i].pipe[k]))]))
    \o IF line[i].sep = "" THEN <<>> ELSE <<line[i].sep>>])

-----------------------------------------------------------------------------
(* The state a command works on: files, the working directory, what is on  *)
(* the screen, the status, the words of the stages of a pipeline, and the  *)
(* output of the stage before, which may have stopped it.                  *)

(* Op of the value of v, which TLC computes once.                          *)
Given(v, Op(_)) == CHOOSE y \in {Op(x) : x \in {v}} : TRUE

Opened(e, w) == Written(Walk(Components(e.cwd), PathOf[w]))
Holds(e, path) == IF path \in DOMAIN e.files THEN e.files[path] ELSE <<>>
Stored(e, path, text) == [e EXCEPT !.files = (path :> text) @@ @]

Refused(e) == [e EXCEPT !.flow = <<>>, !.status = 1]

Builtin(e, argv) ==
  LET target == IF Len(argv) = 1 THEN Root ELSE Opened(e, argv[2])
      ok == CASE argv[1] = "cd"  -> Len(argv) <= 2 /\ target \in Dirs
              [] argv[1] = "pwd" -> Len(argv) = 1
              [] OTHER           -> \A i \in DOMAIN argv : argv[i] \notin ReadOnly
  IN  [e EXCEPT !.cwd = IF argv[1] = "cd" /\ ok THEN target ELSE @,
                !.flow = IF argv[1] = "pwd" /\ ok THEN <<WordFor(e.cwd)>> ELSE <<>>,
                !.status = IF ok THEN 0 ELSE 1]

(* The programs are in the root directory, and there is no search path: a  *)
(* name that does not begin with a slash is looked up where the shell is.  *)
Found(cwd, w) == w \in DOMAIN Programs /\ (Programs[w].rooted \/ cwd = Root)

External(e, argv, input) ==
  IF argv = <<>> \/ ~Found(e.cwd, argv[1]) THEN [Refused(e) EXCEPT !.missing = TRUE]
  ELSE [e EXCEPT !.flow = (IF Programs[argv[1]].echoes THEN Tail(argv) ELSE <<>>)
                          \o (IF Programs[argv[1]].copies THEN input ELSE <<>>),
                 !.status = Programs[argv[1]].status]

Diverted(e, s) ==
  CASE s.to # ""   -> [Stored(e, Opened(e, s.to), e.flow) EXCEPT !.flow = <<>>]
    [] s.more # "" -> [Stored(e, Opened(e, s.more), Holds(e, Opened(e, s.more)) \o e.flow)
                         EXCEPT !.flow = <<>>]
    [] OTHER       -> e

Exists(e, w) == Opened(e, w) \in DOMAIN e.files
CanStore(e, w) ==
  /\ Fits(Components(e.cwd), PathOf[w])
  /\ Written(Front(Walk(Components(e.cwd), PathOf[w]))) \in Dirs

(* Too many words or a redirection that fails end the pipeline there: the  *)
(* stages to the right, which parsecmd has not come to, do not run.        *)
RunStage(e, s, argv) ==
  IF e.stopped THEN e
  ELSE IF
     \/ Len(argv) > MAXARGS
     \/ s.from # "" /\ ~Exists(e, s.from)
     \/ \E w \in {s.to, s.more} \ {""} : ~CanStore(e, w)
  THEN [Refused(e) EXCEPT !.stopped = TRUE]
  ELSE IF argv # <<>> /\ argv[1] \in Builtins THEN Builtin(e, argv)
  ELSE Given(External(e, argv, IF s.from = "" THEN e.flow ELSE Holds(e, Opened(e, s.from))),
             LAMBDA x : Diverted(x, s))

(* All stages one after the other, each on what the one before has left.   *)
(* The status is the last one's, unless there was a stage without a        *)
(* program to run.                                                         *)
RunStages(e, p, argvs) ==
  LET run[i \in 0 .. Len(p)] ==
        IF i = 0 THEN [e EXCEPT !.flow = <<>>]
        ELSE Given(run[i - 1], LAMBDA x : RunStage(x, p[i], argvs[i]))
  IN  [run[Len(p)] EXCEPT !.stopped = FALSE, !.missing = FALSE,
                          !.status = IF run[Len(p)].missing THEN 1 ELSE @]

(* The words of stage s with the output of what it quotes.                 *)
Expanded(e, s) ==
  Given(RunStages(e, s.sub, [i \in DOMAIN s.sub |-> s.sub[i].argv]),
        LAMBDA x : [x EXCEPT !.cwd = e.cwd,
                             !.argvs = Append(@, s.argv \o SubSeq(x.flow, 1, Min({OutSize, Len(x.flow)})))])

(* A backtick without its partner, or a text that is too long, is refused; *)
(* a substitution must leave room.                                         *)
Refuses(e, p) ==
  LET full == [i \in DOMAIN p |-> [p[i] EXCEPT !.argv = e.argvs[i]]]
      upTo(i) == PipeText(SubSeq(full, 1, i - 1) \o <<Stage(full[i].argv)>>)
  IN  \/ Contains(PipeText(full), "tick") \/ Len(PipeText(full)) > CmdSize
      \/ \E i \in DOMAIN p : p[i].sub # <<>> /\ Len(upTo(i)) >= CmdSize

Shown(e) == [e EXCEPT !.screen = @ \o e.flow, !.flow = <<>>, !.argvs = <<>>]

(* The commands in backticks of all stages run before the first stage.     *)
RunPipe(e, p) ==
  LET expanded[i \in 0 .. Len(p)] ==
        IF i = 0 THEN e ELSE Given(expanded[i - 1], LAMBDA x : Expanded(x, p[i]))
  IN  Given(expanded[Len(p)],
            LAMBDA x : Given(IF Refuses(x, p) THEN Refused(x) ELSE RunStages(x, p, x.argvs), Shown))

(* && and || have the same precedence and associate to the left; each ;    *)
(* begins a new list.                                                      *)
Skips(sep, status) == (sep = "&&" /\ status # 0) \/ (sep = "||" /\ status = 0)

Meaning(files, cwd, line) ==
  LET after[i \in 0 .. Len(line)] ==
        IF i = 0
        THEN [files |-> files, cwd |-> cwd, screen |-> <<>>, status |-> 0,
              flow |-> <<>>, argvs |-> <<>>, stopped |-> FALSE, missing |-> FALSE]
        ELSE Given(after[i - 1],
                   LAMBDA x : IF i > 1 /\ Skips(line[i - 1].sep, x.status) THEN x
                              ELSE RunPipe(x, line[i].pipe))
  IN  after[Len(line)]
=============================================================================
