----------------------------- MODULE FileSystem -----------------------------
(***************************************************************************)
(* The file system of the fs server (fs/fs.c) on the record                *)
(*   fs.bitmap  the bitmap in memory: is the block free?                   *)
(*   fs.cache   the block cache: contents of each block, or NotMapped      *)
(*   fs.dirty   the cached blocks that have PTE_DIRTY set                  *)
(*   fs.root    s_root of the super block in memory                        *)
(*   fs.disk    what the disk holds: bitmap, blk, root                     *)
(*   fs.panic   "no", or the assertion that stopped the server             *)
(*                                                                         *)
(* The server is single-threaded, so that a function of fs.c is an         *)
(* operator from the record to a result: the record after it, the value it *)
(* returns and the location it found.  The location of a struct File is    *)
(* what its address is in the code: ROOT, or a block and a slot in it.     *)
(*                                                                         *)
(* A block holds zeroes, a table of block numbers, an array of struct      *)
(* File, or what a client wrote: the word v all over.  Nothing in the code *)
(* records which: every one of them can be read as any other.              *)
(*                                                                         *)
(* Sizes are in blocks, so that ROUND(size, BLOCK_SIZE) / BLOCK_SIZE is    *)
(* the size itself.  The server does not run out of memory.                *)
(***************************************************************************)
EXTENDS Naturals, Sequences, FiniteSetsExt

CONSTANTS
  NBLOCKS,    \* s_nblocks
  NDIRECT,    \* direct pointers of a file
  NINDIRECT,  \* words of the indirect block; a file has fewer blocks
  FILE2BLK,   \* struct Files of a directory block
  Names,      \* file names
  LongNames,  \* those of MAXNAMELEN characters or more
  NoName,     \* the empty name
  Garbage,    \* a name that nobody gave
  Vals,       \* the words clients write
  Junk,       \* a word that is no block number
  ROOT, NULL,
  Wild        \* a pointer that nobody set

ASSUME FsAssumption ==
  /\ NBLOCKS \in Nat /\ NBLOCKS > 4
  /\ NDIRECT \in Nat \ {0} /\ NINDIRECT \in Nat /\ NDIRECT < NINDIRECT
  /\ FILE2BLK \in Nat \ {0}
  /\ LongNames \subseteq Names
  /\ NoName \notin Names /\ Garbage \notin Names /\ NoName # Garbage
  /\ Junk \in Nat /\ Junk >= NBLOCKS
  /\ \A v \in Vals : v \in Nat /\ v >= 3
  /\ ROOT # NULL /\ NULL # Wild /\ ROOT # Wild
  /\ \A x \in {ROOT, NULL, Wild} : x \notin Nat /\ x \notin Nat \X Nat

\* 0 is the boot block, 1 the super block and 2 the bitmap
Block == 3 .. NBLOCKS - 1
FileSlot == 0 .. FILE2BLK - 1
Loc == {ROOT} \union (Block \X FileSlot)
Direct == 0 .. NDIRECT - 1
Indirect == NDIRECT .. NINDIRECT - 1

-----------------------------------------------------------------------------
(* What is in a block.                                                     *)

NotMapped == [k |-> "none"]
Zero == [k |-> "zero"]
Data(v) == [k |-> "data", v |-> v]

BlankFile == [name |-> NoName, size |-> 0, type |-> "REG", dir |-> NULL,
              ptr |-> [n \in Direct |-> 0], ind |-> 0]

\* text read as a struct File
GarbageFile(v) == [name |-> Garbage, size |-> v, type |-> "REG", dir |-> Wild,
                   ptr |-> [n \in Direct |-> v], ind |-> v]

\* the block as a table of block numbers
Table(c) ==
  CASE c.k = "ptr"  -> c.p
    [] c.k = "data" -> [n \in Indirect |-> c.v]
    [] c.k = "dir"  -> [n \in Indirect |-> Junk]
    [] OTHER        -> [n \in Indirect |-> 0]

TableBlock(p) ==
  IF \A n \in Indirect : p[n] = 0 THEN Zero ELSE [k |-> "ptr", p |-> p]

\* the block as an array of struct File
Entries(c) ==
  CASE c.k = "dir"  -> c.e
    [] c.k = "data" -> [j \in FileSlot |-> GarbageFile(c.v)]
    [] c.k = "ptr"  -> [j \in FileSlot |-> GarbageFile(Junk)]
    [] OTHER        -> [j \in FileSlot |-> BlankFile]

EntriesBlock(e) ==
  IF \A j \in FileSlot : e[j] = BlankFile THEN Zero ELSE [k |-> "dir", e |-> e]

\* *f for a pointer f, and the assignment *f = file
File(fs, f) ==
  IF f = ROOT THEN fs.root ELSE Entries(fs.cache[f[1]])[f[2]]

SetFile(fs, f, file) ==
  IF f = ROOT THEN [fs EXCEPT !.root = file]
  ELSE [fs EXCEPT !.cache[f[1]] =
          EntriesBlock([Entries(@) EXCEPT ![f[2]] = file])]

-----------------------------------------------------------------------------
(* Results.                                                                *)

Result(fs, r, at) == [fs |-> fs, r |-> r, at |-> at]
Ok(fs, at) == Result(fs, "OK", at)
\* user_panic, panic_on and user_assert end the server
Panic(fs, why) == Result([fs EXCEPT !.panic = why], "PANIC", NULL)

\* if ((r = ...) < 0) return r; and go on
Then(s, Rest(_)) == IF s.r = "OK" THEN Rest(s) ELSE s

-----------------------------------------------------------------------------
(* Blocks.                                                                 *)

\* a fresh server: fs_init reads the super block and the bitmap
FsInit(disk) ==
  [bitmap |-> disk.bitmap, cache |-> [b \in Block |-> NotMapped],
   dirty |-> {}, root |-> disk.root, disk |-> disk, panic |-> "no"]

BlockIsFree(fs, b) == b \in Block /\ fs.bitmap[b]
BlockIsMapped(fs, b) == b \in Block /\ fs.cache[b] # NotMapped
BlockIsDirty(fs, b) == BlockIsMapped(fs, b) /\ b \in fs.dirty

ReadBlock(fs, b) ==
  IF b >= NBLOCKS THEN Panic(fs, "reading non-existent block")
  ELSE IF BlockIsFree(fs, b) THEN Panic(fs, "reading free block")
  ELSE IF BlockIsMapped(fs, b) THEN Ok(fs, b)
  ELSE Ok([fs EXCEPT !.cache[b] = fs.disk.blk[b]], b)

AllocBlockBug(fs) ==
  LET free == {b \in Block : fs.bitmap[b]}
      b == Min(free)
  IN IF free = {} THEN Result(fs, "NO_DISK", NULL)
     ELSE Ok([fs EXCEPT !.disk.bitmap[b] = FALSE,
                        !.cache[b] = IF @ = NotMapped THEN Zero ELSE @], b)

\* The bitmap goes to the disk.  A block that is still in the cache keeps
\* what it held; syscall_mem_alloc gives a zeroed page to one that is not.
AllocBlock(fs) ==
  LET free == {b \in Block : fs.bitmap[b]}
      b == Min(free)
      bitmap == [fs.bitmap EXCEPT ![b] = FALSE]
  IN IF free = {} THEN Result(fs, "NO_DISK", NULL)
     ELSE Ok([fs EXCEPT !.bitmap = bitmap,
                        !.disk.bitmap = bitmap,
                        !.cache[b] = IF @ = NotMapped THEN Zero ELSE @], b)

\* in memory only
FreeBlocks(fs, bs) ==
  [fs EXCEPT !.bitmap = [b \in Block |-> @[b] \/ b \in bs]]

DirtyBlock(fs, b) ==
  IF BlockIsMapped(fs, b) THEN Ok([fs EXCEPT !.dirty = @ \union {b}], b)
  ELSE Result(fs, "NOT_FOUND", NULL)

\* write_block of the dirty ones of the blocks
WriteDirty(fs, bs) ==
  [fs EXCEPT !.disk.blk =
     [b \in Block |-> IF b \in bs /\ BlockIsDirty(fs, b) THEN fs.cache[b]
                      ELSE @[b]]]

-----------------------------------------------------------------------------
(* The blocks of a file.                                                   *)

\* find the word that holds the number of block n, reading the indirect
\* block, or making one
FileBlockWalk(fs, f, n, alloc) ==
  IF n \in Direct THEN Ok(fs, NULL)
  ELSE IF n \notin Indirect THEN Result(fs, "INVAL", NULL)
  ELSE IF File(fs, f).ind # 0 THEN ReadBlock(fs, File(fs, f).ind)
  ELSE IF ~alloc THEN Result(fs, "NOT_FOUND", NULL)
  ELSE Then(AllocBlock(fs), LAMBDA new :
         ReadBlock(SetFile(new.fs, f, [File(fs, f) EXCEPT !.ind = new.at]),
                   new.at))

\* the word found: *ptr, and *ptr = b
PtrAt(fs, f, n) ==
  IF n \in Direct THEN File(fs, f).ptr[n]
  ELSE Table(fs.cache[File(fs, f).ind])[n]

SetPtr(fs, f, n, b) ==
  IF n \in Direct THEN SetFile(fs, f, [File(fs, f) EXCEPT !.ptr[n] = b])
  ELSE [fs EXCEPT !.cache[File(fs, f).ind] =
          TableBlock([Table(@) EXCEPT ![n] = b])]

FileMapBlock(fs, f, n, alloc) ==
  Then(FileBlockWalk(fs, f, n, alloc), LAMBDA w :
    IF PtrAt(w.fs, f, n) # 0 THEN Ok(w.fs, PtrAt(w.fs, f, n))
    ELSE IF ~alloc THEN Result(w.fs, "NOT_FOUND", NULL)
    ELSE Then(AllocBlock(w.fs), LAMBDA new :
           Ok(SetPtr(new.fs, f, n, new.at), new.at)))

FileGetBlock(fs, f, n) ==
  Then(FileMapBlock(fs, f, n, TRUE), LAMBDA m : ReadBlock(m.fs, m.at))

FileDirty(fs, f, n) ==
  Then(FileMapBlock(fs, f, n, FALSE), LAMBDA m : DirtyBlock(m.fs, m.at))

\* The loop over the blocks n of the file that file_truncate and file_flush
\* make: it reads the indirect block when one of them is past the direct
\* pointers and there is one.
ReadIndirect(fs, f, ns) ==
  IF ns \cap Indirect = {} \/ File(fs, f).ind = 0 THEN Ok(fs, NULL)
  ELSE ReadBlock(fs, File(fs, f).ind)

\* those of the blocks ns that have a word to hold their number
Walkable(fs, f, ns) ==
  (ns \cap Direct)
    \union (IF File(fs, f).ind = 0 THEN {} ELSE ns \cap Indirect)

PtrsAt(fs, f, ns) == {PtrAt(fs, f, n) : n \in Walkable(fs, f, ns)} \ {0}

FileFlush(fs, f) ==
  LET ns == {n \in Direct \union Indirect : n < File(fs, f).size}
  IN Then(ReadIndirect(fs, f, ns), LAMBDA t :
       Ok(WriteDirty(t.fs, PtrsAt(t.fs, f, ns)), f))

ClearBlocksBug(fs, f, ns) == FreeBlocks(fs, PtrsAt(fs, f, ns))

\* file_clear_block of the blocks ns
ClearBlocks(fs, f, ns) ==
  LET file == File(fs, f)
      ptr == [n \in Direct |-> IF n \in ns THEN 0 ELSE file.ptr[n]]
      clear == SetFile(FreeBlocks(fs, PtrsAt(fs, f, ns)), f,
                       [file EXCEPT !.ptr = ptr])
  IN IF file.ind = 0 \/ ns \cap Indirect = {} THEN clear
     ELSE [clear EXCEPT !.cache[file.ind] =
             TableBlock([n \in Indirect |->
                           IF n \in ns THEN 0 ELSE Table(@)[n]])]

\* the new size, and no indirect block if it needs none
Shrink(fs, f, newsize) ==
  LET file == [File(fs, f) EXCEPT !.size = newsize]
  IN IF newsize > NDIRECT THEN SetFile(fs, f, file)
     ELSE SetFile(FreeBlocks(fs, {file.ind} \ {0}), f, [file EXCEPT !.ind = 0])

FileTruncate(fs, f, newsize) ==
  LET ns == newsize .. File(fs, f).size - 1
  IN Then(ReadIndirect(fs, f, ns), LAMBDA t :
       IF Walkable(t.fs, f, ns) # ns THEN Panic(t.fs, "clearing a block")
       ELSE Ok(Shrink(ClearBlocks(t.fs, f, ns), f, newsize), f))

\* if (f->f_dir) file_flush(f->f_dir)
FlushDir(fs, f) ==
  LET dir == File(fs, f).dir
  IN CASE dir = NULL -> Ok(fs, f)
       [] dir = Wild -> Panic(fs, "wild pointer")
       [] OTHER      -> FileFlush(fs, dir)

FileSetSize(fs, f, newsize) ==
  Then(IF File(fs, f).size > newsize THEN FileTruncate(fs, f, newsize)
       ELSE Ok(fs, f), LAMBDA t :
    FlushDir(SetFile(t.fs, f, [File(t.fs, f) EXCEPT !.size = newsize]), f))

-----------------------------------------------------------------------------
(* Directories.                                                            *)

\* The blocks 0, 1, .. of a directory, visited while the result is "NEXT".
EachBlock(fs, dir, Visit(_, _)) ==
  LET N == File(fs, dir).size
      After(s, n) == IF s.r = "NEXT" THEN Visit(s.fs, n) ELSE s
      visit[n \in 0 .. N] ==
        IF n = 0 THEN Result(fs, "NEXT", NULL) ELSE After(visit[n - 1], n - 1)
  IN visit[N]

\* the struct Files of block n of the directory
FindInBlock(fs, dir, name, n) ==
  Then(FileGetBlock(fs, dir, n), LAMBDA g :
    LET hits == {j \in FileSlot : File(g.fs, <<g.at, j>>).name = name}
    IN IF hits = {} THEN Result(g.fs, "NEXT", NULL)
       ELSE Ok(g.fs, <<g.at, Min(hits)>>))

\* the first struct File of the directory with the name, or what
\* file_get_block returned
FindEntry(fs, dir, name) ==
  EachBlock(fs, dir, LAMBDA s, n : FindInBlock(s, dir, name, n))

DirLookup(fs, dir, name) ==
  LET Found(s) ==
        CASE s.r = "OK"   -> Ok(SetFile(s.fs, s.at, [File(s.fs, s.at)
                                                       EXCEPT !.dir = dir]), s.at)
          [] s.r = "NEXT" -> Result(s.fs, "NOT_FOUND", NULL)
          [] OTHER        -> s
  IN Found(FindEntry(fs, dir, name))

\* A free struct File, the directory made a block longer if there is none.
\* It stays longer when there is no block for it.
Lengthen(fs, dir, size) ==
  Then(FileGetBlock(SetFile(fs, dir, [File(fs, dir) EXCEPT !.size = size + 1]),
                    dir, size), LAMBDA g : Ok(g.fs, <<g.at, 0>>))

DirAllocFile(fs, dir) ==
  LET Found(s) ==
        IF s.r # "NEXT" THEN s ELSE Lengthen(s.fs, dir, File(s.fs, dir).size)
  IN Found(FindEntry(fs, dir, NoName))

\* One name of the path.  dir is the directory that the file is in or, if only
\* the last name is missing, should be in.
Walked(fs, r, at, dir) == [fs |-> fs, r |-> r, at |-> at, dir |-> dir]

WalkName(s, name, last) ==
  LET Looked(l) ==
        CASE l.r = "OK" -> Walked(l.fs, "OK", l.at, s.at)
          [] l.r = "NOT_FOUND" /\ last -> Walked(l.fs, l.r, NULL, s.at)
          [] OTHER -> Walked(l.fs, l.r, NULL, NULL)
  IN IF s.r # "OK" THEN s
     ELSE IF name \in LongNames THEN Walked(s.fs, "BAD_PATH", NULL, NULL)
     ELSE IF File(s.fs, s.at).type # "DIR" THEN Walked(s.fs, "NOT_FOUND", NULL, NULL)
     ELSE Looked(DirLookup(s.fs, s.at, name))

WalkPath(fs, path) ==
  LET walk[k \in 0 .. Len(path)] ==
        IF k = 0 THEN Walked(fs, "OK", ROOT, NULL)
        ELSE WalkName(walk[k - 1], path[k], k = Len(path))
  IN walk[Len(path)]

FileOpen(fs, path) == WalkPath(fs, path)

\* Of the struct File only the name is set.
FileCreate(fs, path) ==
  LET Create(w) ==
        IF w.r = "OK" THEN Result(w.fs, "FILE_EXISTS", NULL)
        ELSE IF w.r # "NOT_FOUND" \/ w.dir = NULL THEN w
        ELSE Then(DirAllocFile(w.fs, w.dir), LAMBDA d :
               Ok(SetFile(d.fs, d.at, [File(d.fs, d.at)
                                         EXCEPT !.name = path[Len(path)]]), d.at))
  IN Create(WalkPath(fs, path))

FileRemove(fs, path) ==
  Then(WalkPath(fs, path), LAMBDA w :
    Then(FileTruncate(w.fs, w.at, 0), LAMBDA t :
      FlushDir(SetFile(t.fs, w.at, [File(t.fs, w.at) EXCEPT !.name = NoName]),
               w.at)))

\* the loop of file_close that marks the block of the struct File dirty
DirtyInBlock(fs, dir, f, n) ==
  LET Mapped(m) ==
        IF m.r = "PANIC" THEN m
        ELSE IF m.r # "OK" THEN Ok(m.fs, f)
        ELSE Then(ReadBlock(m.fs, m.at), LAMBDA b :
               IF f # ROOT /\ b.at = f[1] THEN DirtyBlock(b.fs, b.at)
               ELSE Result(b.fs, "NEXT", NULL))
  IN Mapped(FileMapBlock(fs, dir, n, FALSE))

DirtyEntry(fs, dir, f) ==
  EachBlock(fs, dir, LAMBDA s, n : DirtyInBlock(s, dir, f, n))

FileCloseBug(fs, f) ==
  Then(FileFlush(fs, f), LAMBDA t :
    LET dir == File(t.fs, f).dir
    IN CASE dir = NULL -> t
         [] dir = Wild -> Panic(t.fs, "wild pointer")
         [] OTHER      -> Then(FileFlush(t.fs, dir), LAMBDA d :
                            DirtyEntry(d.fs, dir, f)))

FileClose(fs, f) ==
  Then(FileFlush(fs, f), LAMBDA t :
    LET dir == File(t.fs, f).dir
        Flush(d) == IF d.r = "PANIC" THEN d ELSE FileFlush(d.fs, dir)
    IN CASE dir = NULL -> t
         [] dir = Wild -> Panic(t.fs, "wild pointer")
         [] OTHER      -> Flush(DirtyEntry(t.fs, dir, f)))

FsSync(fs) == WriteDirty(fs, Block)
=============================================================================
