# A TLA+ verification of the MOS enhanced shell

MOS is a teaching kernel for MIPS with user level environments (processes), a
file system server, pipes and a shell; this repository extends it with exit
statuses and zombies, per-environment variables, a working directory, command
chains and line editing.  This directory holds TLA+ models of its core, the TLC
configurations that check them and proofs that TLAPS checks.  `PROJECT.json`
lists components, runs, mutants, findings, hazards and theorems, and maps every
definition to the lines it models.

    tlc -workers 2 -config EnvSched.cfg MCEnvSched     # model-check one run
    tlapm EnvSchedProofs.tla                           # check one proof module

## 1. The system

### Parts and how they interact

| part | state | operations | talks to |
|---|---|---|---|
| tail queue, `include/queue.h` | head, last, and the links inside the elements | INIT, INSERT_HEAD, INSERT_TAIL, REMOVE | used by the scheduler |
| environments, `kern/env.c` | `envs[]`, `env_free_list`, `env_sched_list`, `asid_bitmap`, `curenv`, the id counter | env_create, env_alloc, env_free, env_destroy, env_run | pmap (pages), scheduler |
| scheduler, `kern/sched.c` | `count`, the queue | schedule(yield) from the timer, yields, exits, receives | env_run |
| system calls, `kern/syscall_all.c` | the fields of `struct Env` | yield, exofork, set_env_status, env_destroy, ipc_recv, ipc_try_send, memory, variables, cwd | all of the kernel |
| process library, `user/lib/{fork,spawn,wait,libos,ipc}.c` | locals of the routines | fork, spawn, wait, exit, ipc_send, ipc_recv | sequences of system calls; wait also reads `envs[]` directly |
| pipes, `user/lib/pipe.c` | `struct Pipe` in a page shared by envs; no list of its users | pipe, read, write, is_closed, close | kernel page reference counts, fd table |
| descriptors, `user/lib/fd.c` | an fd page and data pages per number, mapped or not | fd_alloc, dup, close, close_all, read, write | devices: pipe, file, console |
| shell variables | a table of 64 entries per env in a page of its own | set, get, unset, list, inheritance in env_alloc | shell builtins |
| memory, `kern/pmap.c`, `kern/tlbex.c` | free list, `pp_ref`, page tables, TLB | page_alloc, insert, remove, the memory system calls, refill and modify exceptions | everything; fork, cow_entry and spawn build address spaces with it |
| file system, `fs/fs.c` | bitmap, block cache with dirty bits, super block, the disk | file_open, file_create, file_remove, file_set_size, file_get_block, file_dirty, file_close, fs_sync | called by the server |
| file server, `fs/serv.c` | table of open files, recycled by `pp_ref` | one handler per request | IPC, fs.c; its cache pages are mapped in the clients |
| file routines, `user/lib/{file,fsipc}.c` | a Filefd page shared with the server, the mapped data pages | open, write, ftruncate, close, remove, sync | requests to the server |
| shell, `user/sh.c` | token state, last status, cwd (in the kernel), the descriptors of each process | pipelines, redirections, builtins, `;` `&&` `\|\|`, backquotes | library, file server, line editor |
| line editor, `user/lib/shellio.c` | line buffer, cursor, history ring, `/.mos_history` | one per key, history_add, history_load, history_save | console, file server |
| paths, `user/lib/path.c` | none; the cwd is in `struct Env` | resolve_path, chdir, getcwd | open, the shell |

### What is hard

* The kernel is sequential (interrupts are off), but user code is interrupted
  between any two instructions, and fork, wait, pipes and IPC are user code
  that works on kernel state with several system calls.
* Nothing but `pp_ref` records who has a pipe end or a file open, and its
  values are read one after the other.
* A zombie is taken out of the run queue twice, the second time with stale
  links.
* A client holds pages of the server's block cache, and pointers into
  directory blocks stay in the open file table, while other clients remove,
  truncate and create files; the disk fills up in the middle of any of it.
* A page is shared by reference count between envs that map, copy and unmap it
  with separate system calls, and the TLB remembers mappings by ASID.
* A line of the shell is a tree of processes that inherit descriptors of pipes
  from each other; one that keeps an end open too long blocks the others.
* Slots, ids, ASIDs, blocks, directory and variable entries are reused; names,
  values and positions have a limited width; several error paths stop half way.

The list of hazards with their lines is in `PROJECT.json`.

### What makes each part correct

* run queue: no runnable env is ever lost, none is queued twice, `env_run` is
  never given an env that is not runnable, a yield gives way, everybody runs;
* slots: an ASID belongs to one env, an id names one env, wait finds its child;
* IPC: only a blocked env is woken, and it reads the message that woke it;
* pipes: bytes arrive once and in order, "closed" is only said of a pipe that
  is closed, end of file only when nothing is left, nobody waits for ever;
* variables: the table is a dictionary, READONLY is for ever, a child has the
  exported variables and no others;
* file system: a block belongs to one file or is free, an open file keeps its
  entry, the server never panics, what was closed is on the disk;
* memory: `pp_ref` counts the mappings, a page is free exactly when nobody has
  it, the TLB never contradicts a page table, and programs see private memory
  that fork copies;
* shell: a line has the effect it means in whatever order its processes run,
  leaves nothing behind, and ends;
* line editor: the array and the ring are a line with a cursor and a list; what
  was saved is loaded again;
* paths: resolve_path is a walk over names.

## 2. Modules

| module | models | kind |
|---|---|---|
| `Tailq` | the TAILQ macros on pointers | operators |
| `EnvSched` | environments, scheduler, environment and IPC system calls, and the library routines around them; instantiates `Tailq` | state machine |
| `MCEnvSched` | boot priorities for TLC | TLC |
| `EnvSchedProofs` | theorems about `EnvSched`: the run queue; ASIDs, messages, wait | proofs |
| `Pipe` | one pipe, descriptors, fork, exit | state machine |
| `PipeProofs` | theorems about `Pipe`: reference counts, the ring buffer | proofs |
| `VarStore` | what the variable calls promise: a dictionary per env | abstract specification |
| `ShellVars` | the variable table; instantiates `VarStore` with `dict <- Dict` | state machine |
| `MCShellVars` | strings and flags for TLC | TLC |
| `ShellVarsProofs` | theorems about `ShellVars`, the refinement included | proofs |
| `FileSystem` | fs.c: functions from a file system to its next state and a result | operators |
| `FsServer` | serv.c and the file routines of its clients; extends `FileSystem` | state machine |
| `MCFsServer` | paths and modes for TLC | TLC |
| `FsServerProofs` | theorems about `FsServer` and `FileSystem`: the open file table, block ownership, the server's assertions | proofs |
| `MemSpaces` | what memory promises: private and shared words per address | abstract specification |
| `PageMap` | pages, page tables, TLB, memory system calls, fork, copy-on-write, spawn; instantiates `MemSpaces` | state machine |
| `MCPageMap` | page directory layout and the view for TLC | TLC |
| `PageMapProofs` | theorems about `PageMap`: counters, tables, TLB, faults | proofs |
| `PageShareProofs` | theorems about `PageMap`: who may write a page, the refinement of `MemSpaces`; extends `PageMapProofs` | proofs |
| `Editor` | what the line editor promises: text left and right of a cursor, a list of commands | abstract specification |
| `LineEdit` | readline_advanced, the history ring and its file; instantiates `Editor` | state machine |
| `MCLineEdit` | characters for TLC | TLC |
| `LineEditProofs` | theorems about `LineEdit`: the line, the ring, the file, the refinement of `Editor` | proofs |
| `Paths` | resolve_path, and the walk over names it is compared with | operators |
| `ShellMeaning` | what a command line means; extends `Paths` | reference definition |
| `Shell` | the shell, its processes and their descriptors; extends `ShellMeaning` | state machine |
| `MCShell` | programs, directories and lines for TLC | TLC |
| `ShellProofs` | theorems about `Shell`: its processes and descriptors | proofs |

Definitions named `...Bug` are plausible mistakes in the definition that follows
them.  No specification uses them; putting one in the place of its original
must break the property that `PROJECT.json` names with it.

### EnvSched

The variables carry the names of the C fields and globals.  `env_sched_list` is
the pointer structure of `Tailq`, so that an element that was removed keeps its
links; `env_free_list`, a LIST used as a stack, is a sequence; `asid_bitmap` is
a set; pages are a counter, `freePages`, of which an env takes two.  An id is a
record of mkenvid's counter and the slot.  `upc`, `uarg`, `uval` and `kids` are
the library's side: which routine an env is in, its argument, its value and the
children it may wait for.  `inbox` is a history variable.

A system call or an interrupt is one action, with the `schedule` at its end as
part of it (`Schedule(yield, q, st)` takes the queue and the statuses that the
handler has computed).  fork and spawn are `SysExofork`, then `StartChild` or
`AbandonChild`: `sys_env_destroy` refuses a child that is not a zombie, so an
abandoned child stays for ever.  wait is `WaitCall`, `WaitYield` for each turn
of the loop, `WaitDone` and `WaitReap`.  ipc_send is `IpcSendCall` and
`IpcSendRetry`, `IpcSendBadEnv` or `IpcTrySend`.  env_alloc's four outcomes are
those of the code: no slot and no first page return an error, a missing second
page calls page_free on a referenced page and stops the kernel, a missing ASID
loses both pages.

### Pipe

A descriptor is a slot `<<env, number>>` with an fd page (`fdmap`: which end)
and a data page (`datamap`); the reference counts are the numbers of slots.
Every map, unmap and access to `struct Pipe` is an action, `pc` says where an
env is and `op` why.  `env_runs` is not counted: `quiet = p` says that it has
not changed since p read it, any step of another env or a timer interrupt ends
that, and the comparison in `_pipe_is_closed` is `Stable(p)`.  Positions are
modulo `WORD`.  fork copies all fd pages, then all data pages, in the order of
their addresses.  The k-th byte written has the value k.  At most one env reads
and one writes at a time, as in the shell's pipelines.

### ShellVars and VarStore

`env_vars` is the array of entries with their flags, names and values; an unset
entry keeps its name.  `Copy` is the truncation to 16 characters, any function
that is idempotent.  EXPORT and READONLY are inherited in place.  `Dict` is the
abstraction: for every name the value and flags of the entry that find_var
finds.

### FileSystem and FsServer

`FileSystem` has one operator for each function of fs.c, on a record of the
bitmap, the cache, the dirty blocks, the root's struct File and the disk.  A
pointer to a struct File is `ROOT` or a block and a slot in it, so that an open
file table entry keeps pointing at a slot that was emptied or reused.  A block
holds zeroes, block numbers, struct Files or a client's text; `Table` and
`Entries` read any of them as what the code takes it for.  The assertions of
fs.c set `panic`.  Loops over the blocks of a file are sets where the order does
not matter (`FileFlush`, `ClearBlocks`) and recursive functions where it does
(`EachBlock`, `WalkPath`).

The server has one thread and a client waits for its reply, so that a request,
its service and its reply are one action of `FsServer`; a library routine is
several, with other clients between them: open is `Open` and an `OpenMap` for
each block, ftruncate is `Ftruncate`, `Grow` for each block, or `Undo`, a write
past the end adds `Copy`, close is `Close`, `Dirty` for each block, `CloseFile`
and `FdClose`.  `opentab` is the server's table with the f_size of the shared
Filefd page; `fd` and `va` are what the client has mapped, and give the
reference counts.  What a client stores in a mapped page is in the cache in the
same step, whoever owns the block by then.  `done` remembers the request just
served, for the properties.  Sizes are in blocks; O_APPEND never reaches the
server, because open takes it out of the mode.

### PageMap and MemSpaces

An address is the number of a page.  The page directory maps itself, so the page
tables are entries of `pte` too (`Tables`), as the code sees them through UVPT;
`PDX[s]` is the table that holds the entry of `s`.  The functions of pmap.c work
on a record of the memory state, built by `Mem`, so that
`PageInsert(PageAlloc(m), ...)` reads as the code does.  A system call or an exception is one action; cow_entry is
four (`CowAlloc`, `CowCopy`, `CowMap`, `CowUnmap`), fork is `ForkCall`, a
`DupChild` and perhaps a `DupParent` for each page, and `ForkDone`; spawn is
`SpawnCall`, three steps of init_stack, the loading of a page of a segment
(`LoadAlloc`, `LoadFill`, `LoadUnmap`, `LoadFails`), a `ShareLibrary` for each
shared page and `SpawnDone`, each with what the code does when memory is missing: fork takes
exofork's error for a child and panics in the first duppage; spawn stores it in
an unsigned `child`, so that its test for an error is never true; a failed fork
or spawn leaves a child that nobody can destroy; sys_mem_alloc loses the page
when it finds none for the page table (`lost`); cow_entry relies on the kernel
to allocate at UCOW when its own allocation has failed.  The TLB is a set of
entries of an even and an odd page for an ASID, refilled over any other.  Free
pages are alike, so the free list is a set; a page that is freed keeps `Junk`.

The kernel halts for a program in three ways, and each is in the model: memory
runs out in an exception; `BadAccess` is a use of an address that passive_alloc
refuses (its five other panics, `tlbex.c:21-39`; an exception without a handler,
do_reserved, has the same effect); and a write fault finds no handler
(`tlbex.c:97`), on a page of a segment that spawn has loaded without PTE_D
(`SegmentPerms`) or on what every env has read-only, the page tables, UENVS and
UPAGES (`WriteWindow`).  With a handler, such a write ends the program
(`UserPanics`, from cow_entry).  A segment is one page, `UTEXT`.

`MemSpaces` has no pages: every env has words at addresses, which it alone
changes, a child starts with a copy, and shared objects that all holders see.
A page in the middle of duppage is the child's only when its parent has it
copy-on-write too.

### LineEdit and Editor

`local_buf` is the array with everything behind the NUL, `Move` is memmove and
`StrCpy` strcpy.  One action is one key.  history_add and the cleaning of the
line in main are part of `Enter`.  `Restart` is a new shell that runs
history_load, which reads `CHUNK` bytes, one less than a line buffer holds, at a
time, and `RunHistory` is the command `history`, or another program, that opens
the file.  `Editor` keeps the text left and right of the cursor, the list of
commands, the place in it, the draft, and whether the disk has `kept` the list.

history_save is three actions, remove, open and print, and looks at no result.
Print is the one that a full disk makes hard, and `SavePrint` follows
`shellio.c:87-92` and `file.c:194-256` command by command: fprintf writes the
text and then the newline (`PrintLine`), and each write past the size the client
knows asks the server for a larger file and for the block that is new (`Write`).
When there is no block the server's size goes back, the client's stays, and
nothing is written; the loop goes on with the next command.  A later write then
finds its size there, asks for no block, and stores where nothing is mapped
(write allocates a page of its own there, which nobody flushes), or extends the
file over a block it never got.  So commands are skipped, glued together without
their newline, or missing with a block in the middle of the file.  `full` is the
set of blocks the disk does not give during the save; a missing block is `HOLE`s,
and when the file is opened and there is room again its bytes are those of a
block that alloc_block did not clear (`Opens`, `Stale`).  They are taken to be
characters, NUL and newline.  Opening asks for the blocks in turn and may fail at
any of them; then a new shell has no history.

`saved` is true of a save in which nothing failed.  Not modelled are what a save
on a full disk leaves behind in the shell besides the file: a descriptor and an
entry of the server's table stay in use when open fails at a map or close at a
dirty request, and so do pages mapped in the descriptor's window, which the next
file with that descriptor would find there instead of its own blocks.

### Paths, ShellMeaning and Shell

A process of `Shell` is a record of the shell's variables, so that fork copies
it; descriptors point to open files and pipe ends that the processes share, and
an end that no descriptor holds is gone.  Text is a sequence of words and
symbols; a character count is a number of words (`OutSize`, `CmdSize`,
`CopySize`).  main is
`ReadLine`, `NextCommand`, handle_backticks with run_and_capture_output
(`Capture`, `CaptureRead`, `CaptureEnds`, `CaptureWait`), and the dispatch;
parsecmd is one step for each symbol; runcmd is one step for each builtin, and
spawn and the two waits for the rest.  External programs write their arguments,
copy their input or only return a status, a word at a time.  A step that needs a
free process, descriptor or open file is there only when there is one.

parsecmd gives up at the word for which argv has no room (`ParseTooMany`,
`MAXARGS`, `sh.c:191-194`).  Three other limits are not looked at by the code:
runcmd copies an expanded command, up to `CmdSize` long, into cmd_copy, which has
half of that (`sh.c:279-280`); handle_backticks copies a quoted one likewise; and
the 0 after `MAXARGS` arguments is written behind argv.  What the program does
then is undefined.  In the model it goes on as if there had been room, or it
stops for good with its descriptors open (`Overrun`); that it could do anything
else is not modelled.  The values of variables are copied into the expanded line
without a look at its size, too (`sh.c:631-655`), and are not modelled.

`ShellMeaning` says what a line means without processes: the stages of a
pipeline one after the other, each on the output of the one before.  It follows
the code where a usual shell does otherwise: a redirection that fails ends the
pipeline there with status 1; a pipeline in which a program is missing has
status 1; an empty command too; a substitution is cut at the size of its buffer; a stage with more than `MAXARGS`
words has status 1;
there is no search path, so that after a `cd` programs need a leading slash.

## 3. Runs

| run | question | result |
|---|---|---|
| `env_sched` | is the run queue complete, are ASIDs, ids and messages never confused, does a yield give way? | holds |
| `env_live` | does every runnable env get the CPU, is a zombie reaped whose parent waits for it? | holds |
| `pipe_fifo` | do bytes arrive once and in order, and do readers and writers return when the other end is gone? | holds |
| `pipe_closed` | does `_pipe_is_closed` say "closed" only when it is, while no fork copies? | holds |
| `pipe_eof_race` | does read return 0 only when nothing is left (`pipe.c:124-125`)? | violated |
| `shell_vars` | does the table implement the dictionary, are READONLY variables kept? | holds |
| `fs_files` | has every block one owner, has every open file its entry, does the server survive, is what was closed on the disk? | holds |
| `page_map` | do counters, tables and TLB agree, is no writable page shared, do envs see private memory and shared pages? | holds |
| `line_edit` | does the array with its ring implement an editor, does the history survive, what does a save on a full disk leave? | holds |
| `shell` | does every line have the effect it means, leave nothing behind and end? Does resolve_path walk? | holds |
| `shell_deadlock` | does a process that runs a command exit (`sh.c:276`)? | violated |
| `fs_stale` | does read_block only get numbers of used blocks (`fs.c:98`)? | violated |

### The disagreements

* `pipe_eof_race`.  pipe_read finds the buffer empty, the writer writes and
  exits, and `_pipe_is_closed` then says "closed": read returns 0 and the bytes
  are never read.  The buffer should be tested once more after a "closed".
* `shell_deadlock`.  When spawn fails, `sh.c:396-399` waits for the right side
  of the pipe before it exits.  Its descriptor 1 is still the write end, so that
  for `nosuch | cat` cat never sees the end of its input and both wait for each
  other, and the shell for them.  On success close_all comes before the waits.
* `fs_stale`.  The cache keeps a freed block's contents, and alloc_block does
  not clear a block that is cached.  As a data block it shows the old text; as
  an indirect block its words are taken for block numbers.

Met while modelling and without a run:

* `env_sched_list` is not the runnable envs
  at every moment, as `env.c:15` says.  A zombie was removed from the queue when
  it exited, as the head of it; when its parent reaps it, `TAILQ_REMOVE` at
  `env.c:467` writes its old successor into `tqh_first`, and until the parent is
  rotated the queue may miss envs.  The rotation repairs it: `RunQueueComplete`
  states that no env is lost and is proved.
* `env.c:258` calls page_free on the page directory that env_setup_vm has given
  a reference; the assertion in page_free (`pmap.c:148-149`) stops the kernel
  where -E_NO_MEM was meant.  `EnvSched` and `PageMap` both have the panic.
* Between fork's copies of the fd pages and of the data pages of a pipe a third
  env sees equal counts and takes the pipe for closed; dup and pipe_close were
  put in the order that avoids this, fork and spawn go by address.
  `ClosedVerdictSound` excludes the time of a copy, and what
  comes after a fork or spawn that failed in the middle, whose child keeps the
  part that was copied for good: from then on the property says nothing, and a
  verdict against such a child is no part of what is checked.
* A file grows past its direct pointers when the disk is full.  ftruncate asks
  for the old size again, file_truncate clears a block that has no word for its
  number, and panic_on at `fs.c:705` ends the server, where `fs.c:425` says that
  clearing a block that is not there succeeds.
* file_create (`fs.c:675`) changes a cached directory block and does not mark it
  dirty; sync writes dirty blocks only.  The entry reaches the disk when the
  file is closed after it was found by its name once: `CloseDurable` holds.
* dir_alloc_file (`fs.c:540`) counts the new directory block before it has it;
  after a full disk every later lookup that gets there fails.
* A builtin on the left of a pipe, or with a redirection, runs in the shell
  itself and leaves the shell's descriptors redirected (`sh.c:245-246`,
  `257-264`): `pwd | cat` blocks the shell, `cd | pwd` makes a second one.  On
  the right of an external command a builtin's process exits with 1.
* A redirection to a directory removes it (`>`) or writes into it (`>>`).
* Ctrl-D on an empty line returns 0 without touching buf, and main leaves its
  loop only below 0: the command before runs once more (`shellio.c:112`,
  `sh.c:604`).  `CtrlD` has it, and `Editor`'s `EndOfInput` too.
* history_load keeps line_start over chunks (`shellio.c:43-57`), and loses the
  line that is cut; `HistorySurvives` is about files of one chunk.
* history_save removes the old file before it knows whether there is room for
  the new one, and looks at no result; on a full disk it goes on after a command
  that could not be written.  `SaveKeepsOrder` states what is left.
* `touch.c:20` says that open with
  O_CREAT succeeds on a file that exists, where serve_open fails.

### Bounds, and why they are enough

* `env_sched`: three slots, two boot envs of priority 1 (as in `init.c`), four
  allocations.  A slot is then reused after its first env was reaped, a zombie
  can be reaped after its neighbours have exited, moved or been reaped, and a
  third sender or waiter is there.  Six pages and three ASIDs are just enough
  for three envs.  `env_live` starts
  with one env whose slices are two ticks, so that ticks without a switch
  happen.
* `pipe`: two envs, three descriptors (`MAXFD`; fd_alloc gives out the
  lower two, dup also the third), a buffer of one or two bytes and positions
  modulo two or four, so that the buffer fills and the positions wrap within
  the five bytes that may be written.  `MemFails` lets every mapping fail in
  `pipe_closed`, the run about the mappings.
* `shell_vars`: two envs, tables of two entries, three names of which one is a
  17 character string that is cut off, so that a table fills up; no flag or
  both.
* `fs_files`: two clients and two open file entries; a disk with three blocks
  besides the reserved ones, one of them free at first, two names, files of up
  to two blocks, six library calls in all.  The disk fills up, blocks and
  entries are reused, and one client removes or truncates what the other one has
  open or is opening.  Files stay within their direct pointers and in the root
  directory, and a directory block is never full.  This is a limit on what the
  run shows, and a needed one: with one direct pointer the panic of `fs.c:705`
  and `fs_stale` end the server, and removing a directory with files in it frees
  the block that their entries are in.  Clients are symmetric, and nothing
  depends on which is which.
* `page_map`: two envs, one TLB entry, page contents 0 and 1, one page of a
  segment, read-only or writable, besides the stack, two page tables, and a
  machine with eight or with eleven pages.  An env that has mapped everything holds seven (directory, variables,
  two tables, data, stack, exception stack) and an eighth in cow_entry.  Memory
  thus runs out in refills, in cow_entry, in the middle of fork and spawn and,
  with eight pages, at each of env_alloc's two; with eleven a fork and a spawn
  come to their end, and either env gets a copy of a page the two share.  The one TLB entry is replaced by every other
  refill, and an ASID is reused as soon as an env was reaped.  The VIEW
  `PagesRenamed` identifies states that differ in which physical page is which:
  the code takes whatever page is at the head of the free list and compares
  pages only for equality, so such states behave alike, and no property
  names a page.  71,120 states, a minute; with thirteen pages
  the run has 257,486 states and finds nothing more.
* `line_edit`: buffers of five characters, chunks and blocks of four bytes
  (`CHUNK` is `MAX_CMD_LEN` - 1, as in the code), a ring of two commands; two
  letters, a blank and the comment sign.  The constraint `BoundedLines` lets the
  first line be any line of up to four characters without the second letter, so
  that all keys meet all such lines and what they leave behind the NUL; it may
  be recorded when it is short or fills the buffer.  Later lines are one
  character, `yx`, or a full line recalled.  Two short commands fit in a chunk,
  so that a full ring is loaded again; the ring wraps; with `yx` or a full
  command a newline or a command begins a block, any of which the disk may not
  give; files are longer than a chunk.  A block given late holds a letter, a
  newline or a NUL at each place.  151,998 states, two minutes.
* `shell`: seven processes, which is what a pipeline of three stages needs, four
  descriptors and open files, pipes of one word, three lines out of thirty-five in
  every combination: chains of three with skipped commands, pipelines of up to
  three stages whose reader or writer ends first, redirections in two
  directories, substitutions that are empty, cut, too long or without a partner,
  as many words as argv has room for and one more, in a program, a builtin and
  on the right of a pipe, commands and quoted commands longer than their copies.
  `MAXARGS` is 5 for 128, `CopySize` 7 and `CmdSize` 8 for 1024 and 2048 bytes,
  so that each limit is met alone; an expansion longer than `CmdSize` is refused.
  Buffers of five characters for a path and three for a name, so that paths do
  not fit; `Probes` has all paths of up to four characters.
* `MaxLines`, `MaxAlloc`, `MaxBytes`, `MaxReq`, `MaxBlocks` and `MaxCalls` are
  bounds of the models, in guards; the theorems hold for every value of them.

Deadlock is checked in the runs of `EnvSched`, `Pipe`, `ShellVars`, `FsServer`
and `LineEdit`: a kernel that has panicked and envs that have all exited are the
only ends, and have a step of their own (`Halted`, `Finished`).  It is switched
off for `PageMap`, where the kernel halts or all envs exit, and for `Shell`,
where the user stops after `MaxLines` lines; there `PromptReturns` shows that
nothing stops earlier but a process that has written past an array.

### Fairness

* `TimerFairness`: boot goes on and the timer keeps firing.  `EveryRunnableRuns`
  rests on this part, programs may loop or stop.
* `WaitFairness`: an env that is scheduled again and again gets to execute the
  end of wait's loop and the reap (strong fairness).  A slice is 500000 cycles,
  so an env always executes instructions in it.
* `Fairness` of `Pipe`: envs in a routine go on (weak), and an env that tries
  again and again reads both counts in one slice (strong, on the three reads
  and the decision).  No fairness is assumed of what programs call.
* `Shell`: every process goes on (weak fairness of `ProcStep`), which is
  `EveryRunnableRuns` of `EnvSched`; a process that waits polls, and finds what
  it waits for when it is there.  None is assumed of the user.

The runs `env_sched`, `pipe_fifo`, `pipe_closed`, `page_map`, `line_edit` and
`fs_files` check the inductive invariants of section 4 too (`KernelInv`,
`FifoInv`, `PipeInv`, `SpaceInv`, `LineInv`, `DiskInv`), each of which contains the type invariant of its module.

## 4. Theorems

All theorems are about `Spec` with constants of any value that satisfies the
assumptions named in the modules.

### EnvSched: `SchedInvariant`, `TypeCorrect`, `EnvRunSafe`, `NoRunnableLost`, `OnlyBlockedReceive`, `YieldIsFair`

Assumptions: at least one slot, ASID and boot env, priorities at least 1.

"The queue holds the runnable envs" is not an invariant, and the back links are
wrong after a reap.  What is preserved (`QueueInv`): from curenv on, the forward
links run through the runnable envs, each once, to tqh_last; curenv's back link
is the head; a zombie's stale links are those of a head that had a successor.
The last part holds because only curenv exits, and when it had no successor the
kernel panics in the same step.  So the second removal writes `tqh_first` and
one back link to the head and nothing else (`ReapQueue`), the forward chain
stays, and the rotation of curenv (`RotateQueue`) or its removal (`BlockQueue`)
restores `tqh_first`.  Adding at the tail (`WakeQueue`) needs only tqh_last.
The invariant also needs that ids of slots match (`IdsOk`), that the free list
holds free slots once (`FreeListOk`), that the child of a fork has not run
(`SetupOk`) and `RecvingMeansBlocked`, or StartChild and IpcTrySend could queue
an env twice.

### EnvSched, the life of an env: `KernelInvariant`, `AsidsAreExclusive`, `MessageIntact`, `WaitIsSound`

`KernelInv` adds to the scheduler's invariant what connects an env with the
others from its allocation to its reap (`LifeInv`).

* wait finds its child by slot and id, so the invariant has to say that nobody
  else reaps it: `KidsOk` says of every id that fork or spawn returned, and of
  the one wait works on, that it names a child that is still there, and that no
  id is both.  An id contains its slot (`IdsOk`), so ids of slots in use are
  different and a child has one parent; a new id's slot was free, so it is in
  nobody's list.  The status wait remembered is the
  zombie's because a zombie does not run.
* `InboxOk`: no message has reached an env that is still receiving.  With
  `RecvingMeansBlocked`, from the moment of a delivery until the receiver runs
  `env_ipc_recving` is 0 and every other sender gets -E_IPC_NOT_RECV.
* `AsidsExclusive` is inductive by itself: the allocated ASID is outside of the
  bitmap, and a reap removes the ASID of one env, which no other one has.

### Pipe: `PipeInvariant`, `TypeCorrect`, `ClosedVerdictIsSound`

Assumptions: finitely many envs and at least one descriptor.

`PipeInv`: behind each fd page there is its data page, except in a child that a
fork is filling (`DataBehindFd`; `CloseOk` and `ForkOk` are what close, dup and
fork need for it); a descriptor stays open during a call on it (`FdOpen`); and
the counts read so far are the current ones while env_runs is unchanged
(`RefsCurrent`).  When the counts are equal, the slots with the caller's end are
a subset of the slots with the data page of the same size, so they are the same
set and no slot has the other end (`EqualRefsMeanClosed`).

### Pipe, the ring: `FifoInvariant`, `BytesInOrder`

Assumptions: the same; of the buffer's size it needs that it is not 0, divides
the word and is smaller.

The history counts bytes, the code has positions that wrap, and the test for
full compares their difference with PIPE_SIZE.  `RingOk` says that the positions
are the counts `Taken` and `Stored` modulo `WORD`, where a byte that is copied
and not yet announced (`Pending`) counts for neither.  The two counts differ by
at most PIPE_SIZE, and that is below `WORD`: equal positions then mean equal
counts, and a difference of PIPE_SIZE means full (`ModDiff`, `ModApart`).  A byte's cell
is its position modulo PIPE_SIZE, which is its count modulo PIPE_SIZE because
PIPE_SIZE divides `WORD`; the bytes between the two counts are in different
cells, so the writer overwrites none of them.  At a test the other env may be
anywhere: the reader's decision to go on stays right because only it moves
p_rpos (`RoutineOk`: one reader, one writer).

### PageMap: `MapInvariant`, `CountersAreExact`, `NoPageIsFreeInUse`, `TlbIsCoherent`, `CowIsHandled`

Assumptions (`MapAssumption`): at least one env and one TLB entry, a machine with
at least four pages for the boot env; UTEMP, UCOW, the text, the stack and the
exception stack are different user pages, the last two in this order and above
the others; `PDX` gives a user page a page
table, and the tables and the directory the directory.  The number of envs,
pages, addresses and page tables is any.

A system call is a composition of functions of pmap.c, so the proof is one, too.
`Good` says of a memory state what `PagesOk` says of the variables: counters are the cardinalities of the sets of
entries that hold a page (`Holders`), a page has the counter 0 exactly when it is
free or lost, and a valid half of a TLB entry is in the table of an env with that
ASID.  A page that page_alloc returned and no table has yet is the state in
between, so `Good` names it.  There is one lemma for each function: PageAlloc
opens that state, `Link` closes it, PageDecref and PageRemove, PageInsert and
PgdirWalk, SysMemAlloc, SysMemMap and PassiveAlloc go from good to good, and say
what they leave alone.  The counting is in the lemmas about `Holders`: setting an
entry adds one pair to a finite set, or removes one, or leaves its cardinality.
env_free takes away a whole env, whose entries are the image of `Refs`.

`TlbCoherent` is not inductive without `AsidsDistinct`, or invalidating an entry
under one env's ASID could leave that of another env wrong; a new env finds
an ASID because there are as many as slots and its own slot is free
(`AsidThere`).  `FreeEnvsEmpty` makes an env that is allocated start without
entries.  `CowIsHandled` is about the kernel's panic on a write fault without a
handler: a program meets it when it writes what it may not, and never because of
a page that fork has made copy-on-write behind its back.  Only fork makes such
entries, after it has set the handler; a child of fork does not run before it
has one, and the child that spawn builds gets no such page, not even with the
shared ones (`FaultsHandled`, `EntryPerms`, `BuildsChild`, `ForkOk`).  That the
handler works on a page
that is there is `HandlerOk`; it holds only until the copy is made, because the
handler's own map may fail after it has unmapped the page.

### PageMap, sharing: `ShareInvariant`, `WritableIsExclusive`

`WritableOnce` is about the moments between system calls, and fork, spawn and
cow_entry all map a writable page twice for a moment.  It holds only because of
what the routine that runs does next, so the invariant has to know each of
these moments.  `SharingOk` says that a page with a private writable entry is
in another entry only if `MayShare` says so: cow_entry is about to unmap UCOW
(`Remapped`), duppage has given the page to the child and not yet protected the
parent's entry (`Protecting`), or init_stack has given its page to the child and
not yet unmapped UTEMP, or spawn_mapper has filled a page of the child through
UTEMP and not yet unmapped it (`Giving`).  In the last two the other entry is that of
a child that is NOT_RUNNABLE (`BuildsChild`), which makes `WritableOnce` follow.

`ScratchOk` is what makes a step end such a moment rather than begin a second
one: UTEMP is empty unless init_stack is using it, UCOW is empty unless
cow_entry is, both hold a private page when it matters, and the page duppage is
protecting is still private although the parent ran, faulted on its stack and
had its handler called in between.  That is where the order of duppage's two
system calls and the handler's look at PTE_COW are used (`PermsOk`: no entry has
PTE_D and PTE_COW).  `FillOk` is for the segments: the page spawn is about to
fill may be read-only in the child, and is nobody else's.

The proof has one lemma for each kind of step of an entry: it gets a page that
nobody has (`SharingAlone`, because the page's counter was 0), it is removed
(`SharingShrinks`), or it joins others (`SharingJoins`).  `ExcusesKept` says that
a step does not end a moment while the page is still mapped twice.

### PageMap implements MemSpaces: `SpaceInvariant`, `MemoryImplementsSpaces`

The mapping (`UserSpaces`, `SharedHeap`, `StartedEnvs`) reads what a program would:
an entry without PTE_LIBRARY is a private word, one with it an object whose word
all who have it see.  What makes it more than a renaming is that private words
are shared by copy-on-write, and that the pages below them are freed, used again
and copied behind the program's back.

`SpaceInv` adds three facts to `ShareInv`.  `LibraryOk`: PTE_LIBRARY is in all
entries of a page or in none, so that no private word is also an object's.
`CopyOk`: cow_entry works on a page that is there and private, and when it is
about to map its copy, the copy has the word of the page: the map is invisible.
It holds although others may store in between, because a page that two have is
not writable (`SharingOk`).  `ForkedOk`: the child has no entry beyond the address
that the scan has come to, so that duppage never replaces one; the entry duppage
is working on has the parent's page.

Each memory function changes one user entry and keeps the words of all pages
that other entries hold (`Change`; a page that is freed or taken had no other,
`TwoHolders`).  The entry then is empty, as it was, a new page of zeros, or a
page that another entry has (`Gone`, `Same`, `Fresh`, `Joined`), and for each of
these there is one lemma that finds the step of `MemSpaces`: `OwnStep` (Replace),
`InheritStep` (Inherit), `ElsewhereStep` (nothing: UCOW, UTEMP and the exception
stack are no memory of programs).  Left are a store through the TLB, where
`TlbCoherent` gives the entry and `WritableOnce`'s argument that nobody else sees
it (`StorePrivate`, `StoreShared`); duppage, whose page is the parent's alone until
its second system call and the child's, too, from then on (`DupChildOk`,
`DupParentOk`); and env_free, which takes one env's entries and leaves the words
of pages whose counters say that others have them (`FreedWords`).

### ShellVars: `VarsInvariant`, `TypeCorrect`, `UniqueNames`, `ReadonlyNeverChanges`, `TableImplementsStore`

Assumptions: truncation is idempotent; the table is not empty; `NoVar` is none
of the values of a variable.

`VarsInv` adds to unique names that names in use are names that were passed.
The refinement shows for each system call that the table's step is the
dictionary's.  -E_NO_MEM is the step that needs more than the names: a full
table has as many names as entries (`FullTable`, by an injection between finite
sets).

### LineEdit: `BuffersInvariant`, `LineInvariant`, `LenIsLength`, `HistoryIsKept`, `LineIsEditor`

Assumptions (`LineAssumption`): buffers of at least two characters, a ring of at
least one command, a chunk that is smaller than a buffer, a block that is at
least as large as a command; NUL and newline cannot be typed, and what a block
given late holds are characters, NULs and newlines.

`BufferInv` is about what fits: local_buf has a NUL at len and none before it
(`EndsAt`), which each memmove keeps (`MoveLeft`, `Insert`); a command in the
ring, the draft and buf are shorter than a line buffer, which every strcpy
relies on.  Commands also come from the file, and of that nothing is known when
the disk was full: a piece without a newline may be as long as the file.  What
bounds them is that history_load copies a command out of a buffer of `CHUNK`
bytes, from line_start to where it is (`LoadByteOk`), also where line_start is
left over from the chunk before, and `CHUNK` is below `MAX_CMD_LEN`.  So this
part holds for any contents of the file (`HistoryLoadOk`, `LeftOk`, `OpensOk`).
`Packed` says that a ring that is not full begins at 0, and that in a full one
the tail is at the head.

`SaveInv` adds that after a save that succeeded the file has no holes and is
what history_save prints of the ring, or else the ring is what history_load
makes of the file.  Of a save that failed it says nothing; `SaveKeepsOrder`, an
action property of `line_edit`, says what such a save can leave: the commands in
their order, each whole, without its newline or not at all, with holes where a
block is missing.
`NewestInv`: buf is empty or the command recorded last.  The end of the input
hands buf to main again, which therefore records nothing then (`CtrlDText`).
`HistorySurvives` is then that loading undoes printing (`ReadBack`): a text
printed line by line begins with what was printed of the first n lines
(`PrintPrefixes`), after these history_load is right behind their last newline
and its ring holds these n lines (`Holds`), and the next line adds one
(`LoadLine`).

No run checks it by itself: that a new shell has the list of the old one when
the disk has kept it is a step of `Editor`, which `line_edit` checks.  Two
conditions are in the property.  Of a file longer than a chunk history_load
loses the line that is cut.  And a command can be empty in a shell that has
loaded a block given late, when a line there begins with a NUL; it is printed as
an empty line and not loaded again.

`LineIsEditor` is the refinement, `Spec => ImplementsEditor`,
with one lemma for each key.  A memmove or strcpy is described by the text left
and right of the cursor (`InsertText`, `MoveText`, `CutLine`, `RecallText`);
Ctrl-W's two loops stop where a word begins (`WordIs`); the cleaned line is the
one `Command` chooses, because there is only one place to cut (`CommandCut`,
`OneCut`); adding to the ring is appending to the list and dropping the oldest
(`ListedAdd`), and counting back from the tail is counting back from the end of
the list (`RecentIs`).  `kept` is `saved` and a file of at most a chunk.  A new
shell then has the same list (`Survives`); otherwise `Editor` promises of its
list only that it is not longer than the ring and that its commands fit, because
after a failed save the code promises no more (`RestartText`).

The loops of history_load and history_save are recursive functions over the
data.  They are proved without an
induction theorem: `UpTo` (a set of numbers with 0 and every successor has them
all) is proved from the well-foundedness of the naturals, and gives both that
the functions exist (`LoadExists`, `PrintExists`, `SaveExists`) and what they compute.

### Shell: `ShellInvariant`, `ShellTypes`, `PromptIsClean`

Assumptions (`ShellAssumption`): at least one process, open file, place in a pipe
and line, and two descriptors for the console.  The lines, the programs and the
files are any.

`SafeInv` has a part for each of the two things processes share.  `Waited` is
whom a process has forked and will wait for: the child of run_and_capture_output,
main or runcmd, and rightpipe until it is reaped.  `WaitedOk`: these are there,
none is the shell, and no two processes wait for the same one; so a wait reaps
its own child, and fork finds a process nobody waits for.  `ImagesOk` says in
which steps child and rightpipe are in use, so that none is overwritten.
`FdsOk`: a descriptor names something open, and the peer of a pipe end is an end
whose peer it is; both go at the same time, because Descriptors keeps an end
while either is held (`DescriptorsKeep`).

Every step of a process changes who waits for whom in one of three ways: it
changes itself, forks, or reaps (`Kin`, proved for each action in `MainKin` and
`RunKin`); and it closes, opens, hands on or leaves descriptors (`MainFds`,
`RunFds`).

`PromptIsClean` is `Spec /\ []BuiltinsAlone => []CleanPrompt`.  `LeftInv` adds
that everybody but the shell is waited for (`Adopted`), and that a waiting
process comes before whom it waits for in some order (`Ranked`; a fork puts the
child after its parent): then of the processes that are left a first one is
waited for by the shell (`NobodyLeft`), and at its prompt the shell waits for
nobody.  `ShellOk` follows the shell's own descriptors: nothing but the read end
of a substitution's pipe is ever added, from `Capture` to `CaptureEnds`.
`BuiltinsAlone` is needed: a builtin that runs in the shell with a redirection or
a pipe leaves the shell's descriptors redirected, and one that exits with a pipe
on its right leaves that process to nobody (section 3).  It says nothing of
external commands, and all lines of the run `shell` are within it.

### FsServer: `OpenEntriesExclusive`, `DiskInvariant`, `BlocksHaveOneOwner`, `ServerNeverPanics`

Assumptions: finitely many clients, at least one entry, a disk with the blocks
that fsformat uses, blocks larger than the direct pointers, and sentinels that
are no numbers.  The last three theorems are about instances that satisfy
`SmallFiles`, as that of `fs_files` does: no path is empty, O_MKDIR does not
come with O_CREAT, the directory's block has room for all names, and files stay
within their direct pointers.  Without it the two properties are false: a file
that grows into its indirect block on a full disk ends in the panic of
`fs.c:705`, and a block that alloc_block left uncleared is read as block numbers
(`fs_stale`) or as struct Files.  The numbers of clients, blocks, names, direct
pointers and open files are any, and the calls of the clients are in any order.

open_alloc finds a free entry by its page's counter, which another env's close
changes at any time.  `OpentabOk`: an entry that a client has mapped has its
page, so its counter is above 1 and open_alloc passes it by (`FreeEntry`).

`DiskInv` adds the file system.  `DirectoryOk`: the root's block has regular
files, whose names differ.  `BlocksOk`: a block number that a struct File has,
named or emptied, is in use in the bitmap, is not the directory's, and nobody
else has it.  These two give `BlocksOwnedOnce`, whose `Words` are then the
pointers in block 3 and the root's own (`OwnedOnce`).  `OpenOk`: an open file is
a slot of the directory, and the directory is cached, which is why a removed
file that is still open keeps its slot, also when file_create has given that to
another name: set_size, map and dirty then work on the new file, and need
nothing but that it is a small file.  `RequestsOk`: the block a client asks for
next is below the size in its shared page, which is at most NDIRECT; so
file_get_block and file_dirty get block numbers within the direct pointers,
although the file itself may have become shorter by then.
`PagesOk`: no client has the directory's page mapped, so that no store of a
client reaches a struct File.

There is one lemma for each function of fs.c, from `FsOk` to `FsOk`, with what
it leaves alone: `ReadOk`, `AllocOk` (the free block of the bitmap is
`Unowned`), `MapOk`, `GetOk`, `ClearOk`, `TruncateOk` and `SetSizeOk` (a block
below the old size may be missing, and clearing a direct pointer that is 0 does
nothing), `LookupOk`, `DirAllocOk`, `WalkOk` (by `UpTo`, over the names of a
path of any length), `FileCreateOk`, `FileRemoveOk`, `FileCloseOk`, `ServeOpenOk`.
DirAllocOk needs that there is a free slot when the name is not in the
directory: names that differ are an injection into `Names`, so that fewer than
FILE2BLK slots are taken (`FreeSlot`).

### What is only model-checked

* Liveness (`EveryRunnableRuns`, `WaitedZombieIsReaped`, `HangupReturns`,
  `PromptReturns`): the
  prover does not do fairness and ENABLED.
* `SaveKeepsOrder`, what a save on a full disk leaves.
* `ExecutesMeaning` and `PathsResolve`.  A line's meaning and the paths are folds
  and recursive functions over lines, out of the prover's reach for every line;
  `CleanPrompt` for lines outside of `BuiltinsAlone`, where it does not hold.
* `CloseDurable`.  It is not true for all values of the constants, `SmallFiles`
  or not: with a third client that truncates and extends the file between two
  requests of a close, a block whose file_dirty failed can be the file's again
  and not be dirty.  With two clients it holds in `fs_files`.
* `BlocksOwnedOnce` and `ServerAlive` beyond `SmallFiles`: see above, they fail.

## 5. What is not modelled

Registers, the layout of ELF files, the detection of memory at boot, the disk
driver, device registers and formatting.
Left out of the modelled parts:

* ids that wrap after 2^21 allocations;
* sys_set_env_status on anything but a fresh child, which no program does, and
  the system calls' -E_INVAL for arguments no program passes;
* several concurrent readers or writers of one pipe end, which pipe.c does not
  support: its positions are not protected by anything;
* in `EnvSched`, pages other than the page directory and the variable table; in
  `PageMap`, the page sent with a message;
* in `Shell`, scripts (getline, `sh.c:17-31`), the shell's option flags, the
  expansion of variables (`sh.c:632-654`), error messages, builtins in pipelines
  and with redirections and redirections to directories (see above); fork, spawn
  and pipe never fail there (they have no step when nothing is free), and pipes
  are exact: `PageMap`, `EnvSched` and
  `Pipe` have the failures, and `pipe_eof_race` is a caveat for every pipeline;
* descriptors of files that are shared by fork or dup, several open files of
  one client, a server that runs out of memory or is started again; bytes
  within a block.  `unmap_block` is never called by the server.

## 6. Plan

1. `FsServer`, continued: a server that starts again from the disk;
   subdirectories and full directory blocks; shared descriptors.
2. Refinements: `Pipe` implements a bounded FIFO channel, the one `Shell` uses;
   `EnvSched` a queue of environments.
3. `Shell`: builtins in pipelines as the code has them, variable expansion
   composed with `ShellVars`, failing forks.
