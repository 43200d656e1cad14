------------------------------ MODULE FsServer ------------------------------
(***************************************************************************)
(* The fs server (fs/serv.c) and the file routines of its clients          *)
(* (user/lib/file.c, user/lib/fsipc.c).                                    *)
(*                                                                         *)
(* The server takes one request at a time and the client waits for the     *)
(* reply, so that a request, its service and its reply are one step; a     *)
(* library routine that makes several requests is several steps, with the  *)
(* other clients' requests in between.  A client works on one open file.   *)
(* The pages of the file that open and ftruncate map are the pages of the  *)
(* server's block cache: what the client stores is in the cache at once,   *)
(* and nobody takes a page away from it when its block is freed.           *)
(***************************************************************************)
EXTENDS FileSystem

CONSTANTS
  Clients,
  MAXOPEN,     \* entries of the open file table
  Paths,       \* the paths the clients use, as sequences of names
  Modes,       \* the sets of flags they open them with
  MaxBlocks,   \* bound on the blocks a client gives a file
  MaxCalls     \* bound on the library calls the clients make

ASSUME ServerAssumption ==
  /\ IsFiniteSet(Clients) /\ MAXOPEN \in Nat \ {0}
  /\ \A p \in Paths : p \in Seq(Names)
  /\ \E a \in Names \ LongNames : <<a>> \in Paths
  /\ Modes \subseteq SUBSET {"CREAT", "MKDIR", "TRUNC"}
  /\ MaxBlocks \in 1 .. NINDIRECT /\ MaxCalls \in Nat

VARIABLES
  fs,
  opentab,  \* each entry: its Filefd page exists, o_file, f_file.f_size
  fd,       \* the Filefd page each client has mapped: a file id, or NULL
  va,       \* the block whose page it has mapped as block n of the file
  pc, i, old, val,  \* where each client is in the library, its locals
  done,     \* the client whose close the server just served, or "sync"
  calls     \* the library calls so far
vars == <<fs, opentab, fd, va, pc, i, old, val, done, calls>>
locals == <<i, old, val>>

FileId == 0 .. MAXOPEN - 1
NoPages == [n \in 0 .. NINDIRECT - 1 |-> 0]

\* the disk as tools/fsformat.c leaves it: one file, of one block
FirstName == CHOOSE a \in Names \ LongNames : <<a>> \in Paths
FirstFile == [BlankFile EXCEPT !.name = FirstName, !.size = 1, !.ptr[0] = 4]
FormattedDisk ==
  [bitmap |-> [b \in Block |-> b \notin {3, 4}],
   blk |-> [b \in Block |->
              IF b = 3 THEN EntriesBlock([j \in FileSlot |->
                              IF j = 0 THEN FirstFile ELSE BlankFile])
              ELSE Zero],
   root |-> [BlankFile EXCEPT !.size = 1, !.type = "DIR", !.ptr[0] = 3]]

ForAll(v) == [c \in Clients |-> v]
\* serve_init
NoOpens == [k \in FileId |-> [page |-> FALSE, file |-> NULL, size |-> 0]]

Init ==
  /\ fs = FsInit(FormattedDisk) /\ opentab = NoOpens
  /\ fd = ForAll(NULL) /\ va = ForAll(NoPages)
  /\ pc = ForAll("idle")
  /\ i = ForAll(0) /\ old = ForAll(0) /\ val = ForAll(NULL)
  /\ done = NULL /\ calls = 0

-----------------------------------------------------------------------------
(* The server.                                                             *)

\* pageref(o_ff): the server's own mapping and the clients'
PageRef(k) ==
  IF opentab[k].page THEN 1 + Cardinality({c \in Clients : fd[c] = k}) ELSE 0

FreeOpensBug == {k \in FileId : PageRef(k) <= 2}

FreeOpens == {k \in FileId : PageRef(k) <= 1}

\* serve_open after open_alloc
ServeOpen(path, mode) ==
  LET Typed(o) ==
        IF {"CREAT", "MKDIR"} \subseteq mode
        THEN SetFile(o.fs, o.at, [File(o.fs, o.at) EXCEPT !.type = "DIR"])
        ELSE o.fs
      Opened(t, f) ==
        IF "MKDIR" \in mode /\ File(t, f).type # "DIR"
        THEN Result(t, "NOT_A_DIR", NULL)
        ELSE IF "TRUNC" \notin mode THEN Ok(t, f)
        ELSE Then(FileSetSize(t, f, 0), LAMBDA s : Ok(s.fs, f))
  IN Then(IF "CREAT" \in mode THEN FileCreate(fs, path)
          ELSE FileOpen(fs, path), LAMBDA o : Opened(Typed(o), o.at))

\* open_lookup, and the request t on the file of the entry
OpenLookup(c, t) ==
  IF PageRef(fd[c]) <= 1 THEN Result(fs, "INVAL", NULL) ELSE t
OFile(c) == opentab[fd[c]].file

ServeMap(c, n) == OpenLookup(c, FileGetBlock(fs, OFile(c), n))
ServeSetSize(c, size) == OpenLookup(c, FileSetSize(fs, OFile(c), size))
ServeDirty(c, n) == OpenLookup(c, FileDirty(fs, OFile(c), n))
ServeClose(c) == OpenLookup(c, FileClose(fs, OFile(c)))

\* The client gets the result t and goes on at next; if the server
\* panicked it waits for ever.
Reply(c, t, next) ==
  /\ fs.panic = "no"
  /\ fs' = t.fs
  /\ pc' = [pc EXCEPT ![c] = IF t.r = "PANIC" THEN "hung" ELSE next]

\* a program calls a routine of the library
Call == calls < MaxCalls /\ calls' = calls + 1

\* a step of a client that makes no request
Local(c, next) == fs' = fs /\ pc' = [pc EXCEPT ![c] = next]

-----------------------------------------------------------------------------
(* The clients.                                                            *)

Size(c) == opentab[fd[c]].size

\* The Filefd page of the entry is cleared; on success it is filled in and
\* mapped in the client, which then maps the blocks one by one.
Open(c, path, mode) ==
  LET k == Min(FreeOpens)
      t == ServeOpen(path, mode)
      size == IF t.r = "OK" THEN File(t.fs, t.at).size ELSE 0
  IN /\ Call /\ pc[c] = "idle" /\ FreeOpens # {}
     /\ Reply(c, t, IF t.r # "OK" THEN "idle"
                    ELSE IF size = 0 THEN "ready" ELSE "map")
     /\ opentab' = [opentab EXCEPT ![k] =
          [page |-> TRUE, file |-> IF t.r = "OK" THEN t.at ELSE @.file,
           size |-> size]]
     /\ fd' = [fd EXCEPT ![c] = IF t.r = "OK" THEN k ELSE NULL]
     /\ i' = [i EXCEPT ![c] = 0]
     /\ done' = NULL
     /\ UNCHANGED <<va, old, val>>

\* the loop over fsipc_map of open; on an error the descriptor is left behind
OpenMap(c) ==
  LET t == ServeMap(c, i[c]) IN
  /\ pc[c] = "map"
  /\ Reply(c, t, IF t.r # "OK" THEN "leak"
                 ELSE IF i[c] + 1 < Size(c) THEN "map" ELSE "ready")
  /\ va' = IF t.r = "OK" THEN [va EXCEPT ![c][i[c]] = t.at] ELSE va
  /\ i' = [i EXCEPT ![c] = IF t.r = "OK" /\ @ + 1 < Size(c) THEN @ + 1 ELSE 0]
  /\ done' = NULL
  /\ UNCHANGED <<opentab, fd, old, val, calls>>

\* memcpy to the mapped page of block n
Store(c, n, v) ==
  IF va[c][n] = 0 THEN fs ELSE [fs EXCEPT !.cache[va[c][n]] = Data(v)]

\* file_write inside the file
Write(c, n, v) ==
  /\ Call /\ pc[c] = "ready" /\ n < Size(c) /\ va[c][n] # 0
  /\ fs' = Store(c, n, v)
  /\ done' = NULL
  /\ UNCHANGED <<opentab, fd, va, pc, locals>>

\* ftruncate, called by a program (v = NULL) or by file_write, which then
\* stores v in the last block
Ftruncate(c, size, v) ==
  LET was == Size(c)
      t == ServeSetSize(c, size)
  IN /\ Call /\ pc[c] = "ready"
     /\ v # NULL => size > was
     /\ opentab' = [opentab EXCEPT ![fd[c]].size = size]
     /\ Reply(c, t, IF size > was THEN "grow" ELSE "ready")
     /\ va' = [va EXCEPT ![c] = [n \in DOMAIN @ |->
                 IF size <= n /\ n < was THEN 0 ELSE @[n]]]
     /\ i' = [i EXCEPT ![c] = IF size > was THEN was ELSE 0]
     /\ old' = [old EXCEPT ![c] = IF size > was THEN was ELSE 0]
     /\ val' = [val EXCEPT ![c] = v]
     /\ done' = NULL
     /\ UNCHANGED <<fd>>

\* the loop over fsipc_map of ftruncate
Grow(c) ==
  LET t == ServeMap(c, i[c])
      last == i[c] + 1 = Size(c)
  IN /\ pc[c] = "grow"
     /\ Reply(c, t, IF t.r # "OK" THEN "undo"
                    ELSE IF ~last THEN "grow"
                    ELSE IF val[c] = NULL THEN "ready" ELSE "copy")
     /\ va' = IF t.r = "OK" THEN [va EXCEPT ![c][i[c]] = t.at] ELSE va
     /\ i' = [i EXCEPT ![c] = IF t.r = "OK" /\ ~last THEN @ + 1 ELSE 0]
     /\ done' = NULL
     /\ UNCHANGED <<opentab, fd, old, val, calls>>

\* No block: the server gets the old size back, the client's Filefd does not.
Undo(c) ==
  /\ pc[c] = "undo"
  /\ Reply(c, ServeSetSize(c, old[c]), "ready")
  /\ old' = [old EXCEPT ![c] = 0]
  /\ val' = [val EXCEPT ![c] = NULL]
  /\ done' = NULL
  /\ UNCHANGED <<opentab, fd, va, i, calls>>

\* the memcpy of file_write after ftruncate
Copy(c) ==
  /\ pc[c] = "copy"
  /\ fs' = Store(c, Size(c) - 1, val[c])
  /\ pc' = [pc EXCEPT ![c] = "ready"]
  /\ old' = [old EXCEPT ![c] = 0]
  /\ val' = [val EXCEPT ![c] = NULL]
  /\ done' = NULL
  /\ UNCHANGED <<opentab, fd, va, i, calls>>

\* close, or exit, which closes what open left behind too
Close(c) ==
  /\ Call /\ pc[c] \in {"ready", "leak"}
  /\ Local(c, IF Size(c) = 0 THEN "close" ELSE "dirty")
  /\ old' = [old EXCEPT ![c] = 0]
  /\ val' = [val EXCEPT ![c] = NULL]
  /\ done' = NULL
  /\ UNCHANGED <<opentab, fd, va, i>>

\* the loop over fsipc_dirty; on an error the file is not closed
Dirty(c) ==
  LET t == ServeDirty(c, i[c]) IN
  /\ pc[c] = "dirty"
  /\ Reply(c, t, IF t.r # "OK" THEN "unmap"
                 ELSE IF i[c] + 1 < Size(c) THEN "dirty" ELSE "close")
  /\ i' = [i EXCEPT ![c] = IF t.r = "OK" /\ @ + 1 < Size(c) THEN @ + 1 ELSE 0]
  /\ done' = NULL
  /\ UNCHANGED <<opentab, fd, va, old, val, calls>>

CloseFile(c) ==
  /\ pc[c] = "close"
  /\ Reply(c, ServeClose(c), "unmap")
  /\ done' = c
  /\ UNCHANGED <<opentab, fd, va, locals, calls>>

FdCloseBug(c) ==
  /\ pc[c] = "unmap"
  /\ Local(c, "idle")
  /\ va' = [va EXCEPT ![c] = NoPages]
  /\ done' = NULL
  /\ UNCHANGED <<opentab, fd, locals, calls>>

\* The data pages and the Filefd page are unmapped.  (The data pages stay
\* after an error, at addresses that the next open maps anew.)
FdClose(c) ==
  /\ pc[c] = "unmap"
  /\ Local(c, "idle")
  /\ fd' = [fd EXCEPT ![c] = NULL]
  /\ va' = [va EXCEPT ![c] = NoPages]
  /\ done' = NULL
  /\ UNCHANGED <<opentab, locals, calls>>

RemoveFile(c, path) ==
  /\ Call /\ pc[c] \in {"idle", "ready"}
  /\ Reply(c, FileRemove(fs, path), pc[c])
  /\ done' = NULL
  /\ UNCHANGED <<opentab, fd, va, locals>>

Sync(c) ==
  /\ Call /\ pc[c] \in {"idle", "ready"}
  /\ Reply(c, Ok(FsSync(fs), NULL), pc[c])
  /\ done' = "sync"
  /\ UNCHANGED <<opentab, fd, va, locals>>

\* the server has panicked, or the bound is reached
Finished ==
  /\ \/ fs.panic # "no"
     \/ calls = MaxCalls /\ \A c \in Clients : pc[c] \in {"idle", "ready", "leak"}
  /\ UNCHANGED vars

Next ==
  \/ \E c \in Clients :
       \/ \E p \in Paths, m \in Modes : Open(c, p, m)
       \/ OpenMap(c)
       \/ \E n \in 0 .. MaxBlocks - 1, v \in Vals : Write(c, n, v)
       \/ \E n \in 0 .. MaxBlocks, v \in Vals \union {NULL} : Ftruncate(c, n, v)
       \/ Grow(c) \/ Undo(c) \/ Copy(c)
       \/ Close(c) \/ Dirty(c) \/ CloseFile(c) \/ FdClose(c)
       \/ \E p \in Paths : RemoveFile(c, p)
       \/ Sync(c)
  \/ Finished

Spec == Init /\ [][Next]_vars

-----------------------------------------------------------------------------
(* Properties.                                                             *)

\* An entry of the open file table that a client has mapped has its page.
EntryOk(k) ==
  opentab[k] = [page |-> opentab[k].page, file |-> opentab[k].file, size |-> opentab[k].size]
OpentabOk ==
  /\ DOMAIN opentab = FileId /\ \A k \in FileId : EntryOk(k)
  /\ DOMAIN fd = Clients
  /\ \A c \in Clients : fd[c] # NULL => fd[c] \in FileId /\ opentab[fd[c]].page

Stages == {"idle", "map", "leak", "ready", "grow", "undo", "copy", "dirty", "close",
           "unmap", "hung"}

\* Cached blocks only are dirty, and a client holds a Filefd page from the
\* reply to its open to the end of its close.
TypeOK ==
  /\ OpentabOk
  /\ fs.bitmap \in [Block -> BOOLEAN]
  /\ fs.dirty \subseteq {b \in Block : fs.cache[b] # NotMapped}
  /\ opentab \in [FileId -> [page : BOOLEAN, file : Loc \union {NULL}, size : Nat]]
  /\ va \in [Clients -> [0 .. NINDIRECT - 1 -> Block \union {0}]]
  /\ i \in [Clients -> Nat] /\ old \in [Clients -> Nat]
  /\ val \in [Clients -> Vals \union {NULL}]
  /\ pc \in [Clients -> Stages]
  /\ \A c \in Clients :
       IF fd[c] = NULL THEN pc[c] \in {"idle", "hung"} ELSE pc[c] # "idle"

\* The words that hold a block number: the pointers of the files that are in
\* a directory one can reach, whether their name is set or not, and of the
\* directories themselves.
Contents(b) == IF fs.cache[b] = NotMapped THEN fs.disk.blk[b] ELSE fs.cache[b]
At(f) == IF f = ROOT THEN fs.root ELSE Entries(Contents(f[1]))[f[2]]
BlockOf(f, n) ==
  IF n \in Direct THEN At(f).ptr[n]
  ELSE IF At(f).ind \in Block THEN Table(Contents(At(f).ind))[n] ELSE 0
FilesIn(dir) ==
  {f \in Loc \ {ROOT} : \E n \in 0 .. At(dir).size - 1 : BlockOf(dir, n) = f[1]}
Subdirs(dirs) ==
  dirs \union UNION {{f \in FilesIn(d) : At(f).type = "DIR"} : d \in dirs}
LiveFiles == {ROOT} \union UNION {FilesIn(d) : d \in Subdirs({ROOT})}
Word(w) == IF w[2] = NINDIRECT THEN At(w[1]).ind ELSE BlockOf(w[1], w[2])
Words == {w \in LiveFiles \X (0 .. NINDIRECT) : Word(w) # 0}

\* A block has one owner at most, and an owned block is not free: whatever
\* two clients do to the same files in turn (removing, truncating and
\* creating what the other one has open), alloc_block never hands out a block
\* that some file still has, and no two files come to share one.
BlocksOwnedOnce ==
  LET words == Words
      owned == {Word(w) : w \in words}
  IN /\ \A b \in owned : b \in Block /\ ~fs.bitmap[b]
     /\ Cardinality(owned) = Cardinality(words)

\* open_alloc takes an entry of the open file table for free when its page
\* has no reference but the server's: it never gives away the entry of a file
\* that another client still has open, in whatever state of its close.
OpenEntryExclusive ==
  \A c, d \in Clients : fd[c] = fd[d] /\ fd[c] # NULL => c = d

\* No sequence of requests makes one of the assertions of fs.c fail, which
\* would end the server and leave its clients waiting.
ServerAlive == fs.panic = "no"

\* "Step 2: validate this block is used, not free." (fs/fs.c:98): the blocks
\* that read_block is asked for are blocks of the disk, and in use.
ReadsUsedBlocks ==
  fs.panic \notin {"reading free block", "reading non-existent block"}

\* When the server has served a close, and nobody else has the file open,
\* what the client stored in the blocks that are still those of its file is
\* on the disk, and so is the directory entry if the file was found by its
\* name.
CloseDurable ==
  done \in Clients =>
    LET f == opentab[fd[done]].file
        alone == \A c \in Clients \ {done} : fd[c] # NULL => opentab[fd[c]].file # f
    IN /\ \A n \in 0 .. Size(done) - 1 :
            alone /\ n < At(f).size /\ va[done][n] \in Block /\ va[done][n] = BlockOf(f, n)
              => fs.disk.blk[va[done][n]] = fs.cache[va[done][n]]
       /\ f # ROOT /\ At(f).dir = ROOT => fs.disk.blk[f[1]] = fs.cache[f[1]]

\* What keeps fs.c out of trouble.  Files stay within their direct pointers
\* and in the root directory, and its one block has room for all names: no
\* block that alloc_block has not cleared is read as block numbers or as
\* struct Files, and no file has a block without a word for its number.
SmallFiles ==
  /\ \A p \in Paths : p # <<>>
  /\ \A m \in Modes : ~ {"CREAT", "MKDIR"} \subseteq m
  /\ IsFiniteSet(Names) /\ Cardinality(Names) <= FILE2BLK
  /\ MaxBlocks <= NDIRECT

\* Then every struct File is in block 3, and this is the invariant: a file
\* system with a cached directory (DirectoryOk) in which each block has one
\* owner (BlocksOk); open files that are slots of that directory (OpenOk); and
\* clients that ask for blocks within a size that file_set_size has had
\* (RequestsOk) and hold no page of the directory (PagesOk).
DIRBLOCK == 3
RootDir == [BlankFile EXCEPT !.size = 1, !.type = "DIR", !.ptr[0] = DIRBLOCK]
Slots == {DIRBLOCK} \X FileSlot
SmallFile ==
  [name : Names \union {NoName}, size : 0 .. NDIRECT, type : {"REG"},
   dir : {NULL, ROOT}, ptr : [Direct -> Block \union {0}], ind : {0}]

Directory(s) ==
  Entries(IF s.cache[DIRBLOCK] = NotMapped THEN s.disk.blk[DIRBLOCK] ELSE s.cache[DIRBLOCK])

DirectoryOk(e) ==
  /\ e \in [FileSlot -> SmallFile]
  /\ \A j, l \in FileSlot : e[j].name = e[l].name /\ e[j].name # NoName => j = l

BlocksOk(e, bitmap) ==
  /\ \A j \in FileSlot, n \in Direct :
       e[j].ptr[n] # 0 => e[j].ptr[n] # DIRBLOCK /\ ~ bitmap[e[j].ptr[n]]
  /\ \A j, l \in FileSlot, n, m \in Direct :
       e[j].ptr[n] = e[l].ptr[m] /\ e[j].ptr[n] # 0 => j = l /\ n = m

DiskShape(d) == d = [bitmap |-> d.bitmap, blk |-> d.blk, root |-> d.root]
FsShape(s) ==
  /\ s = [bitmap |-> s.bitmap, cache |-> s.cache, dirty |-> s.dirty,
          root |-> s.root, disk |-> s.disk, panic |-> s.panic]
  /\ DiskShape(s.disk)
  /\ DOMAIN s.cache = Block /\ DOMAIN s.disk.blk = Block

FsOk(s) ==
  /\ FsShape(s) /\ s.panic = "no" /\ s.root = RootDir
  /\ s.bitmap \in [Block -> BOOLEAN] /\ ~ s.bitmap[DIRBLOCK]
  /\ s.dirty \subseteq {b \in Block : s.cache[b] # NotMapped}
  /\ s.disk.blk[DIRBLOCK] # NotMapped
  /\ DirectoryOk(Directory(s)) /\ BlocksOk(Directory(s), s.bitmap)

OpenOk ==
  /\ \A k \in FileId :
       /\ opentab[k].size <= NDIRECT
       /\ opentab[k].file # NULL =>
            opentab[k].file \in Slots /\ fs.cache[DIRBLOCK] # NotMapped
  /\ \A c \in Clients : fd[c] # NULL => opentab[fd[c]].file # NULL
RequestsOk ==
  \A c \in Clients :
    /\ IF pc[c] \in {"map", "grow", "dirty"} THEN i[c] < Size(c) ELSE i[c] = 0
    /\ pc[c] = "copy" => Size(c) > 0
    /\ old[c] <= NDIRECT
PagesOk == \A c \in Clients : \A n \in 0 .. NINDIRECT - 1 : va[c][n] # DIRBLOCK

\* No request of a client, and none of those that a library call still has to
\* make after others have removed, truncated or replaced its file, takes the
\* server out of this: every file_get_block, file_truncate and file_close
\* finds the directory, pointers and bitmap that it relies on.
DiskInv ==
  TypeOK /\ OpenEntryExclusive /\ FsOk(fs) /\ OpenOk /\ RequestsOk /\ PagesOk
=============================================================================
