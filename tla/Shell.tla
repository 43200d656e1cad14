------------------------------- MODULE Shell -------------------------------
(***************************************************************************)
(* The shell (user/sh.c) and the processes it makes: how main takes a line *)
(* apart at ;, && and ||, runs what stands in backticks and puts its       *)
(* output in its place, runs builtins itself and forks for the rest; how   *)
(* parsecmd redirects descriptors and forks at a pipe; how runcmd spawns,  *)
(* waits and exits.  A process is a record, so that fork copies it as it   *)
(* copies memory.  Descriptors share open files and pipe ends.             *)
(*                                                                         *)
(* A pipe is the exact one here, what Pipe.tla has in detail; fork, spawn, *)
(* pipe and open get the pages, the env and the descriptors they need, and *)
(* have no step when there are none (PageMap.tla and EnvSched.tla have     *)
(* these cases).  The user answers a program that reads the console with   *)
(* the end of the input.  Error messages are left out.  A line that        *)
(* redirects to or from a directory is outside of the model: it has no     *)
(* step there.  So is variable expansion: Lines are what it has left.      *)
(*                                                                         *)
(* Three arrays are filled without a look at their size: the copies of a   *)
(* command in runcmd and of a quoted one in handle_backticks, and argv,    *)
(* which has no room for the 0 after MAXARGS arguments.  What follows is   *)
(* undefined.  Here the process goes on as if there had been room, or it   *)
(* stops for good with its descriptors open (Overrun).                     *)
(***************************************************************************)
EXTENDS ShellMeaning

CONSTANTS
  NPROC,       \* processes, the first is the shell
  MAXFD, NOPEN, PIPE_SIZE,
  CopySize,    \* words of a command that its copies have room for
  Lines,       \* the lines the user may type
  MaxLines,    \* how many of them
  Probes       \* paths that are tried in every directory

ASSUME ShellAssumption ==
  {NPROC, MAXFD, NOPEN, PIPE_SIZE, MaxLines, CopySize, MAXARGS} \subseteq Nat \ {0} /\ MAXFD >= 2

Procs == 1 .. NPROC
Sh == 1
Opens == 1 .. NOPEN
Console == 0
Closed == -1

VARIABLES
  proc,        \* every process
  fd,          \* its descriptors: Closed, Console or an open file
  open,        \* the open files and pipe ends
  files,       \* the files there are and what they hold
  screen,      \* what was written to the console since the line was typed
  typed,       \* lines typed
  entry        \* the last one, with the files and the directory it found

vars == <<proc, fd, open, files, screen, typed, entry>>
worldVars == <<files, screen>>
userVars == <<typed, entry>>

NoImage ==
  [pc |-> "free", ret |-> "main", cwd |-> Root,
   line |-> <<>>, last_status |-> 0, should_run |-> TRUE,
   rest |-> <<>>, out |-> <<>>, text |-> <<>>, captured |-> 0, pfd |-> 0, builtin |-> FALSE,
   cmd |-> <<>>, argv |-> <<>>, rightpipe |-> 0, child |-> 0, status |-> 0]

-----------------------------------------------------------------------------
(* Descriptors.  An end of a pipe is an open file whose peer is the other  *)
(* end; what is in the pipe is kept with the reading end.                  *)

NoPeer == -2
NotOpen == [dev |-> "none", path |-> <<>>, off |-> 0, peer |-> NoPeer, data |-> <<>>]
FileOpened(path, off) == [NotOpen EXCEPT !.dev = "file", !.path = path, !.off = off]
PipeEnd(peer) == [NotOpen EXCEPT !.dev = "pipe", !.peer = peer]

Held(f) == {f[p][n] : p \in Procs, n \in 0 .. MAXFD - 1}

(* f and ob are the new tables; what no descriptor holds is gone.  The     *)
(* quantifiers name values, so that TLC computes each of them once.        *)
Descriptors(f, ob) ==
  \E t \in {f} : \E held \in {Held(t)}, u \in {ob} :
    /\ fd' = t
    /\ open' = [o \in Opens |-> IF o \in held \/ u[o].peer \in held THEN u[o] ELSE NotOpen]

FreeOpens == {o \in Opens : open[o] = NotOpen}
FreeFds(p) == {n \in 0 .. MAXFD - 1 : fd[p][n] = Closed}
PipeRoom(p) == Cardinality(FreeFds(p)) > 1 /\ Cardinality(FreeOpens) > 1
AllClosed == [n \in 0 .. MAXFD - 1 |-> Closed]

(* Reading: there is something, or nothing will come any more.             *)
HasData(o) ==
  /\ o \in Opens
  /\ IF open[o].dev = "file" THEN open[o].off < Len(files[open[o].path]) ELSE open[o].data # <<>>
AtEnd(o) ==
  /\ ~HasData(o)
  /\ o \in Opens => (open[o].dev = "pipe" => open[o].peer \notin Held(fd))
Datum(o) == IF open[o].dev = "file" THEN files[open[o].path][open[o].off + 1] ELSE Head(open[o].data)
Taken(o) == IF open[o].dev = "file" THEN [open EXCEPT ![o].off = @ + 1]
                                    ELSE [open EXCEPT ![o].data = Tail(@)]

(* Writing: a full pipe makes the writer wait, and fail if nobody reads.   *)
IsPipe(o) == o \in Opens /\ open[o].dev = "pipe"
FullBug(o) == IsPipe(o) /\ Len(open[open[o].peer].data) = PIPE_SIZE + 1
Full(o) == IsPipe(o) /\ Len(open[open[o].peer].data) = PIPE_SIZE
NobodyReads(o) == Full(o) /\ open[o].peer \notin Held(fd)
WriteReturns(o) == ~Full(o) \/ NobodyReads(o)

PutAt(s, off, d) == SubSeq(s, 1, off) \o <<d>> \o SubSeq(s, off + 2, Len(s))

Wrote(o, d) ==
  CASE o = Console  -> [open |-> open, files |-> files, screen |-> Append(screen, d)]
    [] o = Closed \/ Full(o) -> [open |-> open, files |-> files, screen |-> screen]
    [] IsPipe(o) /\ ~Full(o)
                    -> [open |-> [open EXCEPT ![open[o].peer].data = Append(@, d)],
                        files |-> files, screen |-> screen]
    [] OTHER        -> [open |-> [open EXCEPT ![o].off = @ + 1],
                        files |-> [files EXCEPT ![open[o].path] = PutAt(@, open[o].off, d)],
                        screen |-> screen]

-----------------------------------------------------------------------------
(* Processes.                                                              *)

FreeProcs == {c \in Procs : proc[c].pc = "free"}
NewProc == Min(FreeProcs)

Become(p, r) == proc' = [proc EXCEPT ![p] = r]
Local(p, r) == Become(p, r) /\ UNCHANGED <<fd, open, worldVars, userVars>>

(* Fork: r and rf are the parent's image and descriptors afterwards, and   *)
(* c and cf the child's.                                                   *)
Forks(p, r, rf, c, cf, ob) ==
  /\ FreeProcs # {}
  /\ proc' = [proc EXCEPT ![p] = r, ![NewProc] = c]
  /\ Descriptors([fd EXCEPT ![p] = rf, ![NewProc] = cf], ob)
  /\ UNCHANGED <<worldVars, userVars>>

Exit(p, status, ob) ==
  /\ Become(p, [NoImage EXCEPT !.pc = "zombie", !.status = status])
  /\ Descriptors([fd EXCEPT ![p] = AllClosed], ob)

Exits(p, status) == Exit(p, status, open) /\ UNCHANGED <<worldVars, userVars>>

(* wait: the child must be a zombie, and is gone afterwards.               *)
IsZombie(c) == c \in Procs /\ proc[c].pc = "zombie"
Reaps(p, c, r) ==
  /\ proc' = [proc EXCEPT ![c] = NoImage, ![p] = r]
  /\ UNCHANGED <<fd, open, worldVars, userVars>>

-----------------------------------------------------------------------------
(* main: the next command, and whether it is to run.                       *)

FirstIn(s, S) == Min({Len(s) + 1} \cup {i \in DOMAIN s : s[i] \in S})
Separators == {";", "&&", "||"}
After(s, i) == SubSeq(s, i + 1, Len(s))

(* The locals of the functions main has returned from are dead.            *)
InMain(r) ==
  [NoImage EXCEPT !.cwd = r.cwd, !.line = r.line, !.last_status = r.last_status,
                  !.should_run = r.should_run]

DecidedBug(r) ==
  LET i == FirstIn(r.line, Separators)
  IN  IF i > Len(r.line) THEN [InMain(r) EXCEPT !.pc = "prompt", !.line = <<>>]
      ELSE [InMain(r) EXCEPT !.pc = "next", !.line = After(@, i),
              !.should_run = CASE r.line[i] = "&&" -> r.should_run /\ r.last_status = 0
                               [] r.line[i] = "||" -> r.should_run /\ r.last_status # 0
                               [] OTHER            -> TRUE]

Decided(r) ==
  LET i == FirstIn(r.line, Separators)
  IN  IF i > Len(r.line) THEN [InMain(r) EXCEPT !.pc = "prompt", !.line = <<>>]
      ELSE [InMain(r) EXCEPT !.pc = "next", !.line = After(@, i),
              !.should_run = CASE r.line[i] = "&&" -> r.last_status = 0
                               [] r.line[i] = "||" -> r.last_status # 0
                               [] OTHER            -> TRUE]

ReadLine(p) ==
  /\ proc[p].pc = "prompt" /\ fd[p][0] = Console
  /\ typed < MaxLines /\ typed' = typed + 1
  /\ \E line \in Lines :
       /\ Become(p, [proc[p] EXCEPT !.pc = "next", !.line = LineText(line),
                                    !.last_status = 0, !.should_run = TRUE])
       /\ entry' = [line |-> line, files |-> files, cwd |-> proc[p].cwd]
  /\ screen' = <<>>
  /\ UNCHANGED <<fd, open, files>>

NextCommand(p) ==
  LET r == proc[p]
  IN  /\ r.pc = "next"
      /\ Local(p, CASE r.line = <<>>  -> [r EXCEPT !.pc = "prompt"]
                    [] ~r.should_run  -> Decided(r)
                    [] OTHER -> [r EXCEPT !.pc = "backtick",
                                   !.rest = SubSeq(r.line, 1, FirstIn(r.line, Separators) - 1)])

-----------------------------------------------------------------------------
(* handle_backticks and run_and_capture_output.                            *)

TickAt(r) == FirstIn(r.rest, {"tick"})
TickEnd(r) == TickAt(r) + FirstIn(After(r.rest, TickAt(r)), {"tick"})
Between(r) == SubSeq(r.rest, TickAt(r) + 1, TickEnd(r) - 1)
Plain(r) == r.out \o SubSeq(r.rest, 1, TickAt(r) - 1)

SubstitutionFails(p) ==
  LET r == proc[p]
  IN  /\ r.pc = "backtick"
      /\ \/ Len(Plain(r)) > CmdSize
         \/ TickAt(r) <= Len(r.rest) /\ TickEnd(r) > Len(r.rest)
      /\ Local(p, Decided([r EXCEPT !.last_status = 1]))

SubstitutionDone(p) ==
  LET r == proc[p]
  IN  /\ r.pc = "backtick" /\ TickAt(r) > Len(r.rest) /\ Len(Plain(r)) <= CmdSize
      /\ Local(p, [r EXCEPT !.pc = "dispatch", !.out = Plain(r), !.rest = <<>>,
                     !.last_status = IF r.captured # 0 THEN r.captured ELSE @])

(* The child's output goes to a pipe that the parent reads.                *)
FirstWord(cmd) == IF cmd = <<>> THEN "" ELSE cmd[1]

Capture(p) ==
  LET r == proc[p]
      n == Min(FreeFds(p))
      m == Min(FreeFds(p) \ {n})
      o == Min(FreeOpens)
      q == Min(FreeOpens \ {o})
      sub == Between(r)
  IN  /\ r.pc = "backtick" /\ PipeRoom(p)
      /\ TickEnd(r) <= Len(r.rest) /\ Len(Plain(r)) <= CmdSize
      /\ Forks(p, [r EXCEPT !.pc = "capture", !.out = Plain(r), !.rest = After(@, TickEnd(r)),
                            !.child = NewProc, !.text = <<>>, !.pfd = n],
               [fd[p] EXCEPT ![n] = o],
               [NoImage EXCEPT !.pc = "parse", !.ret = "capture", !.cwd = r.cwd, !.cmd = sub,
                               !.builtin = FirstWord(sub) \in Builtins],
               [fd[p] EXCEPT ![1] = q],
               [open EXCEPT ![o] = PipeEnd(q), ![q] = PipeEnd(o)])

CaptureRead(p) ==
  LET r == proc[p]
      o == fd[p][r.pfd]
  IN  /\ r.pc = "capture" /\ Len(r.text) < OutSize /\ HasData(o)
      /\ Become(p, [r EXCEPT !.text = Append(@, Datum(o))])
      /\ Descriptors(fd, Taken(o))
      /\ UNCHANGED <<worldVars, userVars>>

CaptureEndsBug(p) ==
  LET r == proc[p]
  IN  /\ r.pc = "capture" /\ (Len(r.text) = OutSize \/ AtEnd(fd[p][r.pfd]))
      /\ Become(p, [r EXCEPT !.pc = "captured", !.pfd = 0])
      /\ UNCHANGED <<fd, open, worldVars, userVars>>

CaptureEnds(p) ==
  LET r == proc[p]
  IN  /\ r.pc = "capture" /\ (Len(r.text) = OutSize \/ AtEnd(fd[p][r.pfd]))
      /\ Become(p, [r EXCEPT !.pc = "captured", !.pfd = 0])
      /\ Descriptors([fd EXCEPT ![p][r.pfd] = Closed], open)
      /\ UNCHANGED <<worldVars, userVars>>

CaptureWait(p) ==
  LET r == proc[p]
      status == proc[r.child].status
  IN  /\ r.pc = "captured" /\ IsZombie(r.child)
      /\ Reaps(p, r.child,
               IF Len(r.out) + Len(r.text) >= CmdSize
               THEN Decided([r EXCEPT !.last_status = 1])
               ELSE [r EXCEPT !.pc = "backtick", !.child = 0, !.text = <<>>, !.out = @ \o r.text,
                              !.captured = IF status # 0 THEN status ELSE @])

-----------------------------------------------------------------------------
(* main: what kind of command it is.  history prints a file and is         *)
(* LineEdit's; builtins run in the shell itself.                           *)

DispatchExit(p) ==
  /\ proc[p].pc = "dispatch" /\ FirstWord(proc[p].out) = "exit"
  /\ Exits(p, 0)

DispatchHistory(p) ==
  /\ proc[p].pc = "dispatch" /\ FirstWord(proc[p].out) = "history"
  /\ Local(p, Decided([proc[p] EXCEPT !.last_status = 0]))

DispatchBuiltin(p) ==
  LET r == proc[p]
  IN  /\ r.pc = "dispatch" /\ FirstWord(r.out) \in Builtins
      /\ Local(p, [r EXCEPT !.pc = "parse", !.ret = "main", !.cmd = r.out, !.out = <<>>])

DispatchFork(p) ==
  LET r == proc[p]
  IN  /\ r.pc = "dispatch" /\ FirstWord(r.out) \notin Builtins \cup {"exit", "history"}
      /\ Forks(p, [r EXCEPT !.pc = "wait", !.child = NewProc, !.out = <<>>], fd[p],
               [NoImage EXCEPT !.pc = "parse", !.ret = "child", !.cwd = r.cwd, !.cmd = r.out],
               fd[p], open)

WaitCommand(p) ==
  LET r == proc[p]
  IN  /\ r.pc = "wait" /\ IsZombie(r.child)
      /\ Reaps(p, r.child, Decided([r EXCEPT !.last_status = proc[r.child].status]))

(* runcmd returns v: to main, which goes on, or to a forked process, which *)
(* exits.  ob is what open has become meanwhile.                           *)
Return(p, r, v, f, ob) ==
  \/ /\ r.ret = "main"
     /\ Become(p, IF v > 0 THEN [InMain(r) EXCEPT !.pc = "wait", !.child = v]
                  ELSE Decided([r EXCEPT !.last_status = IF v < 0 THEN 1 ELSE 0]))
     /\ Descriptors([fd EXCEPT ![p] = f], ob)
  \/ /\ r.ret # "main"
     /\ Exit(p, IF r.ret = "capture" /\ r.builtin /\ v >= 0 THEN 0 ELSE 1, ob)

(* resolve_path for every directory and word there is, a constant.         *)
Resolved == [cwd \in Dirs, w \in DOMAIN PathOf |-> ResolvePath(cwd, PathOf[w])]

-----------------------------------------------------------------------------
(* parsecmd, up to the next symbol that is not part of a word.             *)

Symbols == {"<", ">", ">>", "|"}
SymbolAt(r) == FirstIn(r.cmd, Symbols)
WithWords(r) == [r EXCEPT !.argv = @ \o SubSeq(r.cmd, 1, SymbolAt(r) - 1),
                          !.cmd = After(@, SymbolAt(r))]

WordsFit(r) == Len(WithWords(r).argv) <= MAXARGS

ParseTooMany(p) ==
  LET r == proc[p]
  IN  /\ r.pc = "parse" /\ ~WordsFit(r)
      /\ Return(p, r, -1, fd[p], open)
      /\ UNCHANGED <<worldVars, userVars>>

ParseEnd(p) ==
  LET r == proc[p]
  IN  /\ r.pc = "parse" /\ WordsFit(r) /\ SymbolAt(r) > Len(r.cmd)
      /\ Local(p, [WithWords(r) EXCEPT !.pc = "run"])

TargetWord(r) == r.cmd[SymbolAt(r) + 1]
HasTarget(r) == SymbolAt(r) < Len(r.cmd) /\ TargetWord(r) \notin Symbols
Target(r) == Resolved[r.cwd, TargetWord(r)]

CanOpen(symbol, path) ==
  /\ path # BadPath
  /\ path \in DOMAIN files \/ (symbol # "<" /\ Up(path) \in Dirs)

RedirectFails(p) ==
  LET r == proc[p]
  IN  /\ r.pc = "parse" /\ WordsFit(r) /\ SymbolAt(r) <= Len(r.cmd) /\ r.cmd[SymbolAt(r)] # "|"
      /\ HasTarget(r) => Target(r) \notin Dirs /\ ~CanOpen(r.cmd[SymbolAt(r)], Target(r))
      /\ Return(p, r, -1, fd[p], open)
      /\ UNCHANGED <<worldVars, userVars>>

(* > removes and creates the file, >> opens or creates it and seeks to its *)
(* end; the descriptor is moved over 0 or 1.                               *)
RedirectOpens(p) ==
  LET r == proc[p]
      symbol == r.cmd[SymbolAt(r)]
      path == Target(r)
      text == IF path \in DOMAIN files /\ symbol # ">" THEN files[path] ELSE <<>>
      o == Min(FreeOpens)
  IN  /\ r.pc = "parse" /\ WordsFit(r) /\ SymbolAt(r) <= Len(r.cmd) /\ symbol # "|"
      /\ HasTarget(r) /\ path \notin Dirs /\ CanOpen(symbol, path) /\ FreeOpens # {}
      /\ files' = (path :> text) @@ files
      /\ Become(p, [WithWords(r) EXCEPT !.cmd = Tail(@)])
      /\ Descriptors([fd EXCEPT ![p][IF symbol = "<" THEN 0 ELSE 1] = o],
                     [open EXCEPT ![o] = FileOpened(path, IF symbol = ">>" THEN Len(text) ELSE 0)])
      /\ UNCHANGED <<screen, userVars>>

(* A pipe: the child goes on parsing what is on its right.                 *)
ParsePipeBug(p) ==
  LET r == proc[p]
      n == Min(FreeFds(p))
      o == Min(FreeOpens)
      q == Min(FreeOpens \ {o})
  IN  /\ r.pc = "parse" /\ WordsFit(r) /\ SymbolAt(r) <= Len(r.cmd) /\ r.cmd[SymbolAt(r)] = "|"
      /\ PipeRoom(p)
      /\ Forks(p, [WithWords(r) EXCEPT !.pc = "run", !.rightpipe = NewProc, !.cmd = <<>>],
               [fd[p] EXCEPT ![1] = q],
               [WithWords(r) EXCEPT !.argv = <<>>, !.rightpipe = 0],
               [fd[p] EXCEPT ![0] = o, ![n] = q],
               [open EXCEPT ![o] = PipeEnd(q), ![q] = PipeEnd(o)])

ParsePipe(p) ==
  LET r == proc[p]
      o == Min(FreeOpens)
      q == Min(FreeOpens \ {o})
  IN  /\ r.pc = "parse" /\ WordsFit(r) /\ SymbolAt(r) <= Len(r.cmd) /\ r.cmd[SymbolAt(r)] = "|"
      /\ PipeRoom(p)
      /\ Forks(p, [WithWords(r) EXCEPT !.pc = "run", !.rightpipe = NewProc, !.cmd = <<>>],
               [fd[p] EXCEPT ![1] = q],
               [WithWords(r) EXCEPT !.argv = <<>>, !.rightpipe = 0],
               [fd[p] EXCEPT ![0] = o],
               [open EXCEPT ![o] = PipeEnd(q), ![q] = PipeEnd(o)])

-----------------------------------------------------------------------------
(* runcmd.                                                                 *)

(* A text or a list of arguments that has filled its array.                *)
Overruns(r) ==
  \/ r.pc = "parse" /\ Len(r.cmd) > CopySize
  \/ /\ r.pc = "backtick" /\ Len(Plain(r)) <= CmdSize
     /\ TickEnd(r) <= Len(r.rest) /\ Len(Between(r)) > CopySize
  \/ r.pc = "run" /\ Len(r.argv) = MAXARGS

Overrun(p) == Overruns(proc[p]) /\ Local(p, [proc[p] EXCEPT !.pc = "overrun"])

Runs(p, word) == proc[p].pc = "run" /\ FirstWord(proc[p].argv) = word

RunNothing(p) ==
  /\ Runs(p, "")
  /\ Return(p, proc[p], proc[p].rightpipe, fd[p], open)
  /\ UNCHANGED <<worldVars, userVars>>

(* sys_chdir and sys_getcwd: the kernel keeps the directory per process.   *)
Chdir(r, path) == [r EXCEPT !.cwd = path]
Getcwd(r) == WordFor(r.cwd)

RunCd(p) ==
  LET r == proc[p]
      path == IF Len(r.argv) = 1 THEN Root ELSE Resolved[r.cwd, r.argv[2]]
      ok == Len(r.argv) <= 2 /\ path # BadPath /\ path \in Dirs
  IN  /\ Runs(p, "cd")
      /\ Return(p, IF ok THEN Chdir(r, path) ELSE r, IF ok THEN r.rightpipe ELSE -1, fd[p], open)
      /\ UNCHANGED <<worldVars, userVars>>

RunPwd(p) ==
  LET r == proc[p]
      ok == Len(r.argv) = 1
      w == IF ok THEN Wrote(fd[p][1], Getcwd(r)) ELSE [open |-> open, files |-> files, screen |-> screen]
  IN  /\ Runs(p, "pwd") /\ (ok => WriteReturns(fd[p][1]))
      /\ Return(p, r, IF ok THEN r.rightpipe ELSE -1, fd[p], w.open)
      /\ files' = w.files /\ screen' = w.screen
      /\ UNCHANGED userVars

(* declare and unset fail on a read-only variable (ShellVars.tla); declare *)
(* alone lists the variables, of which there are none.                     *)
RunVars(p) ==
  LET r == proc[p]
      ok == (\A i \in DOMAIN r.argv : r.argv[i] \notin ReadOnly)
            /\ (r.argv[1] = "unset" => Len(r.argv) = 2)
  IN  /\ Runs(p, "declare") \/ Runs(p, "unset")
      /\ Return(p, r, IF ok THEN r.rightpipe ELSE -1, fd[p], open)
      /\ UNCHANGED <<worldVars, userVars>>

(* spawn, which opens the program as any file, then close_all.             *)
RunSpawn(p) ==
  LET r == proc[p]
  IN  /\ r.pc = "run" /\ Found(r.cwd, FirstWord(r.argv))
      /\ Forks(p, [r EXCEPT !.pc = "waitchild", !.child = NewProc, !.argv = <<>>], AllClosed,
               [NoImage EXCEPT !.pc = "program", !.ret = "program", !.cwd = r.cwd, !.argv = <<r.argv[1]>>,
                               !.text = IF Programs[r.argv[1]].echoes THEN Tail(r.argv) ELSE <<>>],
               fd[p], open)

SpawnFails(p) ==
  LET r == proc[p]
  IN  /\ r.pc = "run"
      /\ FirstWord(r.argv) \notin Builtins \cup {""} /\ ~Found(r.cwd, FirstWord(r.argv))
      /\ IF r.rightpipe = 0 THEN Exits(p, 1)
         ELSE Local(p, [r EXCEPT !.pc = "failed", !.argv = <<>>])

FailedWait(p) ==
  LET r == proc[p]
  IN  /\ r.pc = "failed" /\ IsZombie(r.rightpipe)
      /\ Reaps(p, r.rightpipe, [r EXCEPT !.pc = "exit", !.status = 1])

WaitChild(p) ==
  LET r == proc[p]
  IN  /\ r.pc = "waitchild" /\ IsZombie(r.child)
      /\ Reaps(p, r.child, [r EXCEPT !.pc = IF r.rightpipe = 0 THEN "exit" ELSE "waitright",
                                     !.status = proc[r.child].status, !.child = 0])

WaitRight(p) ==
  LET r == proc[p]
  IN  /\ r.pc = "waitright" /\ IsZombie(r.rightpipe)
      /\ Reaps(p, r.rightpipe, [r EXCEPT !.pc = "exit", !.status = proc[r.rightpipe].status])

RunExits(p) == proc[p].pc = "exit" /\ Exits(p, proc[p].status)

-----------------------------------------------------------------------------
(* External programs: they write their arguments (echo), copy their input  *)
(* (cat, which panics when it cannot write) or just end with a status.     *)

Doing(p) == Programs[proc[p].argv[1]]

ProgramWrites(p) ==
  LET r == proc[p]
      o == fd[p][1]
      w == Wrote(o, r.text[1])
  IN  /\ r.pc = "program" /\ r.text # <<>> /\ WriteReturns(o)
      /\ IF NobodyReads(o) /\ Doing(p).copies THEN Exit(p, 1, open)
         ELSE Become(p, [r EXCEPT !.text = Tail(@)]) /\ Descriptors(fd, w.open)
      /\ files' = w.files /\ screen' = w.screen
      /\ UNCHANGED userVars

ProgramReads(p) ==
  LET r == proc[p]
      o == fd[p][0]
  IN  /\ r.pc = "program" /\ r.text = <<>> /\ Doing(p).copies /\ HasData(o)
      /\ Become(p, [r EXCEPT !.text = <<Datum(o)>>])
      /\ Descriptors(fd, Taken(o))
      /\ UNCHANGED <<worldVars, userVars>>

ProgramEnds(p) ==
  /\ proc[p].pc = "program" /\ proc[p].text = <<>>
  /\ Doing(p).copies => AtEnd(fd[p][0])
  /\ Exits(p, Doing(p).status)

-----------------------------------------------------------------------------
StdFds == [n \in 0 .. MAXFD - 1 |-> IF n <= 1 THEN Console ELSE Closed]

Init ==
  /\ proc = [p \in Procs |-> IF p = Sh THEN [NoImage EXCEPT !.pc = "prompt"] ELSE NoImage]
  /\ fd = [p \in Procs |-> IF p = Sh THEN StdFds ELSE AllClosed]
  /\ open = [o \in Opens |-> NotOpen]
  /\ files = <<>> /\ screen = <<>> /\ typed = 0
  /\ entry = [line |-> <<>>, files |-> <<>>, cwd |-> Root]

Substitution(p) ==
  \/ SubstitutionFails(p) \/ SubstitutionDone(p)
  \/ Capture(p) \/ CaptureRead(p) \/ CaptureEnds(p) \/ CaptureWait(p)
Main(p) ==
  \/ NextCommand(p) \/ Substitution(p) \/ WaitCommand(p)
  \/ DispatchExit(p) \/ DispatchHistory(p) \/ DispatchBuiltin(p) \/ DispatchFork(p)
Runcmd(p) ==
  \/ ParseTooMany(p) \/ ParseEnd(p) \/ RedirectFails(p) \/ RedirectOpens(p) \/ ParsePipe(p)
  \/ RunNothing(p) \/ RunCd(p) \/ RunPwd(p) \/ RunVars(p) \/ RunSpawn(p)
  \/ SpawnFails(p) \/ FailedWait(p) \/ WaitChild(p) \/ WaitRight(p) \/ RunExits(p)
Program(p) == ProgramWrites(p) \/ ProgramReads(p) \/ ProgramEnds(p)

ProcStep(p) == Main(p) \/ Runcmd(p) \/ Program(p) \/ Overrun(p)

Next == \E p \in Procs : ReadLine(p) \/ ProcStep(p)

(* Every process keeps getting the CPU (EnvSched, EveryRunnableRuns), and  *)
(* one that waits for a child or a pipe asks again each time.              *)
Spec == Init /\ [][Next]_vars /\ \A p \in Procs : WF_vars(ProcStep(p))

-----------------------------------------------------------------------------
AtPrompt == proc[Sh].pc = "prompt"

(* TypeOK: descriptors are open, pipes have two ends and never hold more   *)
(* than they can, and who waits for a process waits for one that is there. *)
TypeOK ==
  /\ \A p \in Procs, n \in 0 .. MAXFD - 1 :
       fd[p][n] \in Opens => open[fd[p][n]].dev \in {"file", "pipe"}
  /\ \A o \in Opens : open[o].dev = "pipe" =>
       open[open[o].peer].peer = o /\ Len(open[o].data) <= PIPE_SIZE
  /\ \A p \in Procs : /\ proc[p].child # 0 => proc[proc[p].child].pc # "free"
                      /\ proc[p].pc \in {"run", "failed", "waitright"} /\ proc[p].rightpipe # 0
                           => proc[proc[p].rightpipe].pc # "free"

(* CleanPrompt: when the shell asks for the next line nothing is left of   *)
(* the one before: no process, zombies included, no descriptor but the     *)
(* console's two.                                                          *)
CleanPrompt ==
  AtPrompt => /\ \A p \in Procs \ {Sh} : proc[p].pc = "free"
              /\ fd[Sh] = StdFds

(* BuiltinsAlone: a builtin that the shell runs itself has no redirection  *)
(* and no pipe, and no builtin and no empty command has a pipe to its      *)
(* right (section 3 of the README has what the code does with these).      *)
(* Lines of this kind are what the theorem about CleanPrompt is about.     *)
BuiltinsAlone ==
  /\ proc[Sh].pc = "parse" => ~ (SymbolAt(proc[Sh]) <= Len(proc[Sh].cmd))
  /\ \A p \in Procs :
       proc[p].pc = "run" /\ FirstWord(proc[p].argv) \in Builtins \cup {""} => proc[p].rightpipe = 0

(* ExecutesMeaning: in whatever order the processes of a line have run,    *)
(* the screen, the files, the working directory and the status are what    *)
(* the line means.                                                         *)
ExecutesMeaning ==
  AtPrompt /\ typed > 0 =>
    \E m \in {Meaning(entry.files, entry.cwd, entry.line)} :
      /\ screen = m.screen /\ files = m.files
      /\ proc[Sh].cwd = m.cwd /\ proc[Sh].last_status = m.status

(* PathsResolve: resolve_path finds what walking the names finds, and what *)
(* the shell has resolved stays the same when open resolves it again.      *)
PathsResolve ==
  AtPrompt => \A path \in Probes :
    LET cwd == proc[Sh].cwd
        resolved == ResolvePath(cwd, path)
    IN  /\ ResolvesAsWalk(cwd, path)
        /\ resolved # BadPath => ResolvePath(cwd, resolved) = resolved

(* PromptReturns: every line ends, and the shell asks for the next one or  *)
(* has exited: nobody waits for ever for a child, or for a pipe that       *)
(* somebody who waits keeps open.  Only a process that has written past an *)
(* array, which may do anything, can keep the shell from it.               *)
PromptReturns ==
  \/ []<>(proc[Sh].pc \in {"prompt", "zombie"})
  \/ <>(\E p \in Procs : proc[p].pc = "overrun")

(* RuncmdExits: a process that runs an external command, or does not find  *)
(* it, exits.                                                              *)
RuncmdExits ==
  \A p \in Procs : proc[p].ret \in {"child", "capture"} ~> proc[p].ret \notin {"child", "capture"}
=============================================================================
