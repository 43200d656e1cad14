--------------------------- MODULE FsServerProofs ---------------------------
(***************************************************************************)
(* The fs server, for any number of clients and open files: nobody loses   *)
(* the entry of a file that is open; and as long as files stay within      *)
(* their direct pointers and in one directory block (SmallFiles), blocks   *)
(* have one owner and no assertion of fs.c fails.                          *)
(***************************************************************************)
EXTENDS FsServer, FiniteSetTheorems, WellFoundedInduction, TLAPS

(* A set of numbers that is not empty has a least one.                     *)
LEMMA Least ==
  ASSUME NEW S \in SUBSET Nat, S # {}
  PROVE  Min(S) \in S /\ \A y \in S : Min(S) <= y
<1>1. PICK x \in S : \A y \in S : ~ (<<y, x>> \in OpToRel(<, Nat))
  BY NatLessThanWellFounded, WFMin, Zenon
<1>2. \A y \in S : ~ (y < x)
  BY <1>1, Zenon DEF OpToRel
<1>3. \E z \in S : \A y \in S : z =< y
  BY <1>2
<1> QED BY <1>3 DEF Min

(* open_alloc finds an entry that no client has mapped.                    *)
LEMMA FreeEntry ==
  ASSUME OpentabOk, FreeOpens # {}
  PROVE  /\ Min(FreeOpens) \in FileId
         /\ \A c \in Clients : fd[c] # NULL => fd[c] # Min(FreeOpens)
<1> DEFINE k == Min(FreeOpens)
<1>1. FreeOpens \in SUBSET Nat
  BY ServerAssumption DEF FreeOpens, FileId
<1>2. k \in FreeOpens
  BY <1>1, Least
<1> HIDE DEF k
<1>3. k \in FileId /\ PageRef(k) <= 1
  BY <1>2 DEF FreeOpens
<1>4. ASSUME NEW c \in Clients, fd[c] # NULL, fd[c] = k PROVE FALSE
  <2> DEFINE Users == {d \in Clients : fd[d] = k}
  <2>1. opentab[k].page
    BY <1>4 DEF OpentabOk
  <2>2. IsFiniteSet(Users) /\ c \in Users
    BY <1>4, ServerAssumption, FS_Subset
  <2>3. Cardinality(Users) \in Nat /\ Cardinality(Users) # 0
    BY <2>2, FS_CardinalityType, FS_EmptySet
  <2>4. PageRef(k) = 1 + Cardinality(Users)
    BY <2>1 DEF PageRef
  <2> HIDE DEF Users
  <2> QED BY <1>3, <2>3, <2>4
<1> QED BY <1>3, <1>4 DEF k

(* Open gives a free entry to one client.                                  *)
LEMMA OpenTable ==
  ASSUME OpentabOk, OpenEntryExclusive, NEW c \in Clients, NEW p, NEW m, Open(c, p, m)
  PROVE  OpentabOk' /\ OpenEntryExclusive'
<1> DEFINE k == Min(FreeOpens)
<1>1. k \in FileId /\ \A d \in Clients : fd[d] # NULL => fd[d] # k
  BY FreeEntry DEF Open
<1>2. PICK f, s, u : /\ opentab' = [opentab EXCEPT ![k] = [page |-> TRUE, file |-> f, size |-> s]]
                     /\ fd' = [fd EXCEPT ![c] = u] /\ u \in {k, NULL}
  BY Zenon DEF Open
<1> HIDE DEF k
<1>3. /\ DOMAIN opentab' = FileId /\ DOMAIN fd' = Clients
      /\ \A j \in FileId : opentab'[j] = IF j = k THEN [page |-> TRUE, file |-> f, size |-> s] ELSE opentab[j]
      /\ \A d \in Clients : fd'[d] = IF d = c THEN u ELSE fd[d]
  BY <1>2 DEF OpentabOk
<1>4. \A j \in FileId : EntryOk(j)'
  BY <1>3 DEF OpentabOk, EntryOk
<1>5. ASSUME NEW d \in Clients, fd'[d] # NULL PROVE fd'[d] \in FileId /\ opentab'[fd'[d]].page
  BY <1>1, <1>2, <1>3, <1>5 DEF OpentabOk
<1>6. OpenEntryExclusive'
  BY <1>1, <1>2, <1>3 DEF OpenEntryExclusive
<1> QED BY <1>3, <1>4, <1>5, <1>6 DEF OpentabOk

(* Another size in an entry.                                               *)
LEMMA SizeTable ==
  ASSUME OpentabOk, OpenEntryExclusive, fd' = fd, NEW k, NEW s,
         opentab' = [opentab EXCEPT ![k].size = s]
  PROVE  OpentabOk' /\ OpenEntryExclusive'
<1>1. DOMAIN opentab' = FileId
  BY DEF OpentabOk
<1>2. ASSUME NEW j \in FileId PROVE EntryOk(j)' /\ opentab'[j].page = opentab[j].page
  <2>1. CASE j = k
    <3>1. opentab'[j] = [opentab[j] EXCEPT !.size = s]
      BY <2>1 DEF OpentabOk
    <3>2. opentab[j] = [page |-> opentab[j].page, file |-> opentab[j].file, size |-> opentab[j].size]
      BY DEF OpentabOk, EntryOk
    <3>3. opentab'[j] = [page |-> opentab[j].page, file |-> opentab[j].file, size |-> s]
      BY <3>1, <3>2
    <3> QED BY <3>3 DEF EntryOk
  <2>2. CASE j # k
    <3>1. opentab'[j] = opentab[j]
      BY <2>2 DEF OpentabOk
    <3> QED BY <3>1 DEF OpentabOk, EntryOk
  <2> QED BY <2>1, <2>2
<1>3. OpentabOk'
  BY <1>1, <1>2 DEF OpentabOk
<1> QED BY <1>3 DEF OpenEntryExclusive

(* A close that has unmapped the page of an entry, or a step that leaves   *)
(* the table alone.                                                        *)
LEMMA CloseTable ==
  ASSUME OpentabOk, OpenEntryExclusive, opentab' = opentab, NEW c,
         fd' = fd \/ fd' = [fd EXCEPT ![c] = NULL]
  PROVE  OpentabOk' /\ OpenEntryExclusive'
<1>1. DOMAIN fd' = Clients /\ \A d \in Clients : fd'[d] \in {fd[d], NULL}
  BY DEF OpentabOk
<1>2. OpentabOk'
  BY <1>1 DEF OpentabOk, EntryOk
<1> QED BY <1>1, <1>2 DEF OpenEntryExclusive

(* Every step.                                                             *)
LEMMA NextTable == OpentabOk /\ OpenEntryExclusive /\ [Next]_vars => (OpentabOk /\ OpenEntryExclusive)'
<1> SUFFICES ASSUME OpentabOk, OpenEntryExclusive, [Next]_vars PROVE (OpentabOk /\ OpenEntryExclusive)'
  OBVIOUS
<1>1. ASSUME NEW c \in Clients, NEW p \in Paths, NEW m \in Modes, Open(c, p, m)
      PROVE  (OpentabOk /\ OpenEntryExclusive)'
  BY <1>1, OpenTable
<1>2. ASSUME NEW c \in Clients, NEW n, NEW v, Ftruncate(c, n, v)
      PROVE  (OpentabOk /\ OpenEntryExclusive)'
  <2>1. opentab' = [opentab EXCEPT ![fd[c]].size = n] /\ fd' = fd
    BY <1>2 DEF Ftruncate
  <2> QED BY <2>1, SizeTable
<1>3. ASSUME NEW c \in Clients, FdClose(c)
      PROVE  (OpentabOk /\ OpenEntryExclusive)'
  <2>1. opentab' = opentab /\ fd' = [fd EXCEPT ![c] = NULL]
    BY <1>3 DEF FdClose
  <2> QED BY <2>1, CloseTable
<1>4. ASSUME opentab' = opentab, fd' = fd
      PROVE  (OpentabOk /\ OpenEntryExclusive)'
  BY <1>4, CloseTable
<1>5. ASSUME NEW c \in Clients,
             \/ OpenMap(c) \/ Grow(c) \/ Undo(c) \/ Copy(c) \/ Close(c) \/ Dirty(c) \/ CloseFile(c)
             \/ \E p \in Paths : RemoveFile(c, p)
             \/ \E n \in 0 .. MaxBlocks - 1, v \in Vals : Write(c, n, v)
             \/ Sync(c)
      PROVE  opentab' = opentab /\ fd' = fd
  BY <1>5, Zenon DEF OpenMap, Grow, Undo, Copy, Close, Dirty, CloseFile, RemoveFile, Write, Sync
<1>6. CASE Finished \/ UNCHANGED vars
  BY <1>4, <1>6 DEF Finished, vars
<1> QED BY <1>1, <1>2, <1>3, <1>4, <1>5, <1>6, Zenon DEF Next

(* open_alloc takes an entry of the open file table for free when the      *)
(* server alone references its page.  For any number of clients, in        *)
(* whatever states of their opens and closes, this is never the entry of a *)
(* file that a client still has open.                                      *)
THEOREM OpenEntriesExclusive == Spec => []OpenEntryExclusive
<1>1. ASSUME Init PROVE OpentabOk /\ OpenEntryExclusive
  <2>1. /\ opentab = [k \in FileId |-> [page |-> FALSE, file |-> NULL, size |-> 0]]
        /\ fd = [c \in Clients |-> NULL]
    BY <1>1, Zenon DEF Init, NoOpens, ForAll
  <2>2. DOMAIN opentab = FileId /\ DOMAIN fd = Clients /\ \A c \in Clients : fd[c] = NULL
    BY <2>1, Zenon
  <2>3. \A k \in FileId : EntryOk(k)
    BY <2>1 DEF EntryOk
  <2>4. OpentabOk
    BY <2>2, <2>3, Zenon DEF OpentabOk
  <2>5. OpenEntryExclusive
    BY <2>2, Zenon DEF OpenEntryExclusive
  <2> QED BY <2>4, <2>5
<1>2. OpentabOk /\ OpenEntryExclusive /\ [Next]_vars => (OpentabOk /\ OpenEntryExclusive)'
  BY NextTable
<1> QED BY <1>1, <1>2, PTL DEF Spec

-----------------------------------------------------------------------------
(* The file system, as long as SmallFiles holds: every function of fs.c    *)
(* that the server calls takes a file system that is FsOk to one.          *)

(* Some numbers and places.                                                *)
LEMMA Places ==
  /\ DIRBLOCK \in Block /\ 0 \notin Block /\ Block \subseteq Nat /\ 4 \in Block
  /\ 0 \in Direct /\ 0 \notin Indirect /\ 0 \in FileSlot /\ FileSlot \subseteq Nat
  /\ Direct \intersect Indirect = {}
  /\ \A f \in Slots : f # ROOT /\ f # NULL
  /\ \A f \in Slots : f[1] = DIRBLOCK /\ f[2] \in FileSlot /\ f = <<DIRBLOCK, f[2]>>
  /\ \A j \in FileSlot : <<DIRBLOCK, j>> \in Slots
<1>1. /\ DIRBLOCK \in Block /\ 0 \notin Block /\ Block \subseteq Nat /\ 4 \in Block
      /\ 0 \in Direct /\ 0 \notin Indirect /\ 0 \in FileSlot /\ FileSlot \subseteq Nat
      /\ Direct \intersect Indirect = {}
  BY FsAssumption DEF DIRBLOCK, Block, Direct, Indirect, FileSlot
<1>2. ASSUME NEW f \in Slots
      PROVE  f[1] = DIRBLOCK /\ f[2] \in FileSlot /\ f = <<DIRBLOCK, f[2]>> /\ f # ROOT /\ f # NULL
  <2>1. f[1] = DIRBLOCK /\ f[2] \in FileSlot /\ f = <<DIRBLOCK, f[2]>>
    BY <1>2 DEF Slots
  <2>2. f \in Nat \X Nat
    BY <1>1, <2>1
  <2> QED BY <2>1, <2>2, FsAssumption
<1>3. \A j \in FileSlot : <<DIRBLOCK, j>> \in Slots
  BY DEF Slots
<1> QED BY <1>1, <1>2, <1>3

(* The array of struct Files in a block is what was stored.                *)
LEMMA EntriesIs ==
  ASSUME NEW e, e = [j \in FileSlot |-> e[j]]
  PROVE  Entries(EntriesBlock(e)) = e /\ EntriesBlock(e) # NotMapped
<1>1. CASE \A j \in FileSlot : e[j] = BlankFile
  <2>1. EntriesBlock(e) = Zero
    BY <1>1 DEF EntriesBlock
  <2>2. Entries(Zero) = [j \in FileSlot |-> BlankFile]
    BY DEF Entries, Zero
  <2>3. e = [j \in FileSlot |-> BlankFile]
    BY <1>1
  <2> QED BY <2>1, <2>2, <2>3 DEF Zero, NotMapped
<1>2. CASE ~ \A j \in FileSlot : e[j] = BlankFile
  <2>1. EntriesBlock(e) = [k |-> "dir", e |-> e]
    BY <1>2 DEF EntriesBlock
  <2>2. Entries([k |-> "dir", e |-> e]) = e
    BY DEF Entries
  <2>3. [k |-> "dir", e |-> e].k = "dir" /\ [k |-> "none"].k = "none"
    OBVIOUS
  <2> QED BY <2>1, <2>2, <2>3 DEF NotMapped
<1> QED BY <1>1, <1>2

(* The directory is in the cache.                                          *)
Cached(s) == s.cache[DIRBLOCK] # NotMapped

(* t has the files and the free blocks of s; what was cached still is.     *)
SameFiles(s, t) ==
  /\ FsOk(t) /\ Directory(t) = Directory(s) /\ t.bitmap = s.bitmap
  /\ Cached(s) => Cached(t)

(* read_block finds a block that is in use.                                *)
LEMMA ReadOk ==
  ASSUME NEW s, FsOk(s), NEW b \in Block, ~ s.bitmap[b]
  PROVE  /\ ReadBlock(s, b).r = "OK" /\ ReadBlock(s, b).at = b
         /\ SameFiles(s, ReadBlock(s, b).fs)
         /\ b = DIRBLOCK => Cached(ReadBlock(s, b).fs)
<1>1. ~ (b >= NBLOCKS) /\ ~ BlockIsFree(s, b)
  BY FsAssumption DEF Block, BlockIsFree
<1>2. CASE BlockIsMapped(s, b)
  <2>1. ReadBlock(s, b) = [fs |-> s, r |-> "OK", at |-> b]
    BY <1>1, <1>2 DEF ReadBlock, Ok, Result
  <2> QED BY <1>2, <2>1 DEF SameFiles, Cached, BlockIsMapped
<1>3. CASE ~ BlockIsMapped(s, b)
  <2> DEFINE t == [s EXCEPT !.cache[b] = s.disk.blk[b]]
  <2>1. ReadBlock(s, b) = [fs |-> t, r |-> "OK", at |-> b]
    BY <1>1, <1>3 DEF ReadBlock, Ok, Result
  <2>2. t = [bitmap |-> s.bitmap, cache |-> [s.cache EXCEPT ![b] = s.disk.blk[b]], dirty |-> s.dirty,
             root |-> s.root, disk |-> s.disk, panic |-> s.panic]
    BY DEF FsOk, FsShape
  <2> HIDE DEF t
  <2>3. /\ t.cache[b] = s.disk.blk[b] /\ DOMAIN t.cache = Block
        /\ \A d \in Block : d # b => t.cache[d] = s.cache[d]
    BY <2>2 DEF FsOk, FsShape
  <2>4. s.cache[b] = NotMapped
    BY <1>3 DEF BlockIsMapped
  <2>5. Directory(t) = Directory(s)
    <3>1. CASE b = DIRBLOCK
      BY <2>2, <2>3, <2>4, <3>1 DEF Directory
    <3>2. CASE b # DIRBLOCK
      BY <2>2, <2>3, <3>2, Places DEF Directory
    <3> QED BY <3>1, <3>2
  <2>6. t.dirty \subseteq {d \in Block : t.cache[d] # NotMapped}
    BY <2>2, <2>3, <2>4 DEF FsOk
  <2>7. FsShape(t)
    BY <2>2, <2>3 DEF FsOk, FsShape
  <2>8. FsOk(t)
    BY <2>2, <2>5, <2>6, <2>7 DEF FsOk
  <2>9. Cached(s) => Cached(t)
    BY <2>3, <2>4, Places DEF Cached
  <2>10. b = DIRBLOCK => Cached(t)
    BY <2>3 DEF FsOk, Cached
  <2> QED BY <2>1, <2>2, <2>5, <2>8, <2>9, <2>10 DEF SameFiles
<1> QED BY <1>2, <1>3

(* *f and *f = file for a slot of the cached directory.                    *)
LEMMA SlotIs ==
  ASSUME NEW s, FsOk(s), Cached(s), NEW f \in Slots
  PROVE  File(s, f) = Directory(s)[f[2]] /\ File(s, f) \in SmallFile
<1>1. f # ROOT /\ f[1] = DIRBLOCK /\ f[2] \in FileSlot
  BY Places
<1>2. File(s, f) = Entries(s.cache[DIRBLOCK])[f[2]]
  BY <1>1 DEF File
<1>3. Directory(s) = Entries(s.cache[DIRBLOCK])
  BY DEF Directory, Cached
<1> QED BY <1>1, <1>2, <1>3 DEF FsOk, DirectoryOk

LEMMA SetSlotIs ==
  ASSUME NEW s, FsShape(s), Cached(s), NEW f \in Slots, NEW file,
         Directory(s) = [j \in FileSlot |-> Directory(s)[j]]
  PROVE  /\ SetFile(s, f, file) = [s EXCEPT !.cache = SetFile(s, f, file).cache]
         /\ FsShape(SetFile(s, f, file)) /\ Cached(SetFile(s, f, file))
         /\ \A b \in Block : b # DIRBLOCK => SetFile(s, f, file).cache[b] = s.cache[b]
         /\ Directory(SetFile(s, f, file)) = [Directory(s) EXCEPT ![f[2]] = file]
<1> DEFINE e == [Directory(s) EXCEPT ![f[2]] = file]
           t == SetFile(s, f, file)
           c == [s.cache EXCEPT ![DIRBLOCK] = EntriesBlock(e)]
<1>1. f # ROOT /\ f[1] = DIRBLOCK /\ f[2] \in FileSlot /\ DIRBLOCK \in Block
  BY Places
<1>2. Directory(s) = Entries(s.cache[DIRBLOCK])
  BY DEF Directory, Cached
<1>3. t = [s EXCEPT !.cache[DIRBLOCK] = EntriesBlock(e)]
  BY <1>1, <1>2 DEF SetFile
<1>4. t = [bitmap |-> s.bitmap, cache |-> c, dirty |-> s.dirty,
           root |-> s.root, disk |-> s.disk, panic |-> s.panic]
  BY <1>3 DEF FsShape
<1>5. e = [j \in FileSlot |-> e[j]]
  BY <1>1
<1>6. Entries(EntriesBlock(e)) = e /\ EntriesBlock(e) # NotMapped
  <2> HIDE DEF e
  <2> QED BY <1>5, EntriesIs
<1> HIDE DEF e, t
<1>7. DOMAIN c = Block /\ c[DIRBLOCK] = EntriesBlock(e) /\ \A b \in Block : b # DIRBLOCK => c[b] = s.cache[b]
  BY <1>1 DEF FsShape
<1>8. t.cache = c
  BY <1>4
<1>9. t = [s EXCEPT !.cache = t.cache]
  <2>1. [s EXCEPT !.cache = c] = [bitmap |-> s.bitmap, cache |-> c, dirty |-> s.dirty,
                                   root |-> s.root, disk |-> s.disk, panic |-> s.panic]
    BY DEF FsShape
  <2> QED BY <1>4, <1>8, <2>1
<1> HIDE DEF c
<1>10. FsShape(t)
  BY <1>4, <1>7 DEF FsShape
<1>11. Cached(t) /\ Directory(t) = e
  BY <1>6, <1>7, <1>8 DEF Cached, Directory
<1> QED BY <1>7, <1>8, <1>9, <1>10, <1>11 DEF e, t

(* A file whose blocks stay may get another name, size or directory.       *)
LEMMA SetAttr ==
  ASSUME NEW s, FsOk(s), Cached(s), NEW f \in Slots, NEW file \in SmallFile,
         file.ptr = File(s, f).ptr,
         \/ file.name \in {NoName, File(s, f).name}
         \/ \A j \in FileSlot : Directory(s)[j].name # file.name
  PROVE  LET t == SetFile(s, f, file)
         IN  /\ FsOk(t) /\ Cached(t) /\ t.bitmap = s.bitmap
             /\ Directory(t) = [Directory(s) EXCEPT ![f[2]] = file]
<1> DEFINE e == Directory(s)
           t == SetFile(s, f, file)
<1>1. e \in [FileSlot -> SmallFile] /\ f[2] \in FileSlot /\ File(s, f) = e[f[2]]
  BY SlotIs, Places DEF FsOk, DirectoryOk
<1>2. /\ t = [s EXCEPT !.cache = t.cache] /\ FsShape(t) /\ Cached(t)
      /\ \A b \in Block : b # DIRBLOCK => t.cache[b] = s.cache[b]
      /\ Directory(t) = [e EXCEPT ![f[2]] = file]
  <2>1. e = [j \in FileSlot |-> e[j]]
    BY <1>1
  <2>2. FsShape(s)
    BY DEF FsOk
  <2> QED BY <2>1, <2>2, SetSlotIs
<1>3. /\ t.bitmap = s.bitmap /\ t.dirty = s.dirty /\ t.root = s.root /\ t.disk = s.disk
      /\ t.panic = s.panic
  <2>1. s = [bitmap |-> s.bitmap, cache |-> s.cache, dirty |-> s.dirty,
             root |-> s.root, disk |-> s.disk, panic |-> s.panic]
    BY DEF FsOk, FsShape
  <2> HIDE DEF t
  <2> QED BY <1>2, <2>1
<1> DEFINE d == Directory(t)
<1> HIDE DEF t, e
<1>4. d = [e EXCEPT ![f[2]] = file]
  BY <1>2
<1> HIDE DEF d
<1>5. \A j \in FileSlot : d[j].ptr = e[j].ptr /\ d[j].name \in {NoName, e[j].name, file.name}
                          /\ (j # f[2] => d[j] = e[j])
  BY <1>1, <1>4
<1>6. DirectoryOk(d)
  <2>1. d \in [FileSlot -> SmallFile] /\ d[f[2]] = file
    BY <1>1, <1>4
  <2>2. \A j, l \in FileSlot : e[j].name = e[l].name /\ e[j].name # NoName => j = l
    BY DEF FsOk, DirectoryOk, e
  <2>3. ASSUME NEW j \in FileSlot, NEW l \in FileSlot, d[j].name = d[l].name, d[j].name # NoName, j # l
        PROVE  FALSE
    <3>1. CASE j # f[2] /\ l # f[2]
      BY <1>5, <2>2, <2>3, <3>1
    <3>2. CASE j = f[2]
      <4>1. d[l] = e[l] /\ d[j] = file
        BY <1>5, <2>1, <2>3, <3>2
      <4>2. file.name = e[l].name /\ file.name # NoName
        BY <2>3, <4>1
      <4>3. file.name = e[j].name
        BY <1>1, <3>2, <4>2 DEF e
      <4> QED BY <2>2, <2>3, <4>2, <4>3
    <3>3. CASE l = f[2]
      <4>1. d[j] = e[j] /\ d[l] = file
        BY <1>5, <2>1, <2>3, <3>3
      <4>2. file.name = e[j].name /\ file.name # NoName
        BY <2>3, <4>1
      <4>3. file.name = e[l].name
        BY <1>1, <3>3, <4>2 DEF e
      <4> QED BY <2>2, <2>3, <4>2, <4>3
    <3> QED BY <3>1, <3>2, <3>3
  <2> QED BY <2>1, <2>3 DEF DirectoryOk
<1>7. BlocksOk(d, t.bitmap)
  <2>1. BlocksOk(e, s.bitmap)
    BY DEF FsOk, e
  <2> QED BY <1>3, <1>5, <2>1 DEF BlocksOk
<1>8. t.dirty \subseteq {b \in Block : t.cache[b] # NotMapped}
  <2>1. s.dirty \subseteq {b \in Block : s.cache[b] # NotMapped}
    BY DEF FsOk
  <2> QED BY <1>2, <1>3, <2>1 DEF Cached
<1>9. FsOk(t)
  BY <1>2, <1>3, <1>6, <1>7, <1>8 DEF FsOk, d
<1> QED BY <1>2, <1>3, <1>9 DEF t, e

(* alloc_block gives out a block that no file has.                         *)
Unowned(s, b) ==
  b \in Block /\ b # DIRBLOCK /\ \A j \in FileSlot, n \in Direct : Directory(s)[j].ptr[n] # b

LEMMA DiskIs ==
  ASSUME NEW d, DiskShape(d), NEW bm
  PROVE  [d EXCEPT !.bitmap = bm] = [bitmap |-> bm, blk |-> d.blk, root |-> d.root]
BY DEF DiskShape

LEMMA FsIs ==
  ASSUME NEW s, FsShape(s), NEW bm, NEW c, NEW dk
  PROVE  [s EXCEPT !.bitmap = bm, !.disk = dk, !.cache = c]
           = [bitmap |-> bm, cache |-> c, dirty |-> s.dirty,
              root |-> s.root, disk |-> dk, panic |-> s.panic]
<1> DEFINE t == [s EXCEPT !.bitmap = bm]
           u == [t EXCEPT !.disk = dk]
<1>1. t = [bitmap |-> bm, cache |-> s.cache, dirty |-> s.dirty,
           root |-> s.root, disk |-> s.disk, panic |-> s.panic]
  BY DEF FsShape
<1>2. [s EXCEPT !.bitmap = bm, !.disk = dk, !.cache = c] = [u EXCEPT !.cache = c]
  OBVIOUS
<1> HIDE DEF t
<1>3. u = [bitmap |-> bm, cache |-> s.cache, dirty |-> s.dirty,
           root |-> s.root, disk |-> dk, panic |-> s.panic]
  BY <1>1
<1> HIDE DEF u
<1> QED BY <1>2, <1>3

LEMMA AllocOk ==
  ASSUME NEW s, FsOk(s)
  PROVE  LET q == AllocBlock(s)
         IN  \/ q.r = "NO_DISK" /\ q.fs = s
             \/ /\ q.r = "OK" /\ Unowned(s, q.at) /\ Unowned(q.fs, q.at)
                /\ FsOk(q.fs) /\ ~ q.fs.bitmap[q.at]
                /\ Directory(q.fs) = Directory(s) /\ (Cached(s) => Cached(q.fs))
<1> DEFINE free == {b \in Block : s.bitmap[b]}
           a == Min(free)
           bm == [s.bitmap EXCEPT ![a] = FALSE]
           c == [s.cache EXCEPT ![a] = IF @ = NotMapped THEN Zero ELSE @]
           dk == [s.disk EXCEPT !.bitmap = bm]
           t == [bitmap |-> bm, cache |-> c, dirty |-> s.dirty,
                 root |-> s.root, disk |-> dk, panic |-> s.panic]
<1>1. CASE free = {}
  BY <1>1 DEF AllocBlock, Result
<1>2. CASE free # {}
  <2>1. a \in free
    <3>1. free \in SUBSET Nat
      BY Places
    <3> QED BY <1>2, <3>1, Least
  <2>2. a \in Block /\ s.bitmap[a] /\ a # DIRBLOCK
    BY <2>1 DEF FsOk
  <2>3. AllocBlock(s) = [fs |-> t, r |-> "OK", at |-> a]
    <3>1. [s EXCEPT !.bitmap = bm, !.disk = dk, !.cache = c] = t
      <4> HIDE DEF bm, c, dk
      <4> QED BY FsIs DEF FsOk
    <3>2. AllocBlock(s) = [fs |-> [s EXCEPT !.bitmap = bm, !.disk = dk, !.cache = c], r |-> "OK", at |-> a]
      BY <1>2 DEF AllocBlock, Ok, Result
    <3> HIDE DEF t
    <3> QED BY <3>1, <3>2
  <2> HIDE DEF a, free
  <2>4. /\ DOMAIN c = Block /\ c[a] # NotMapped
        /\ \A b \in Block : s.cache[b] # NotMapped => c[b] # NotMapped
        /\ c[DIRBLOCK] = s.cache[DIRBLOCK]
    <3>1. DOMAIN s.cache = Block
      BY DEF FsOk, FsShape
    <3>2. Zero # NotMapped
      <4>1. [k |-> "zero"].k = "zero" /\ [k |-> "none"].k = "none"
        OBVIOUS
      <4> QED BY <4>1 DEF Zero, NotMapped
    <3> QED BY <2>2, <3>1, <3>2
  <2>5. dk = [bitmap |-> bm, blk |-> s.disk.blk, root |-> s.disk.root]
    BY DiskIs DEF FsOk, FsShape
  <2>6. /\ bm \in [Block -> BOOLEAN] /\ ~ bm[a]
        /\ \A b \in Block : ~ s.bitmap[b] => ~ bm[b]
    BY <2>2 DEF FsOk
  <2> HIDE DEF bm, c, dk
  <2>7. /\ t.bitmap = bm /\ t.cache = c /\ t.dirty = s.dirty /\ t.root = s.root /\ t.disk = dk
        /\ t.panic = s.panic /\ dk.blk = s.disk.blk
    BY <2>5
  <2>8. FsShape(t)
    <3>1. DiskShape(dk)
      BY <2>5 DEF DiskShape
    <3>2. DOMAIN dk.blk = Block
      BY <2>7 DEF FsOk, FsShape
    <3> QED BY <2>4, <2>7, <3>1, <3>2 DEF FsShape
  <2> HIDE DEF t
  <2>9. Directory(t) = Directory(s)
    BY <2>4, <2>7 DEF Directory
  <2>10. Directory(s) \in [FileSlot -> SmallFile]
    BY DEF FsOk, DirectoryOk
  <2>11. BlocksOk(Directory(s), t.bitmap)
    <3>1. BlocksOk(Directory(s), s.bitmap)
      BY DEF FsOk
    <3>2. ASSUME NEW j \in FileSlot, NEW n \in Direct, Directory(s)[j].ptr[n] # 0
          PROVE  Directory(s)[j].ptr[n] \in Block
      BY <2>10, <3>2 DEF SmallFile
    <3> QED BY <2>6, <2>7, <3>1, <3>2 DEF BlocksOk
  <2>12. t.dirty \subseteq {b \in Block : t.cache[b] # NotMapped}
    <3>1. s.dirty \subseteq {b \in Block : s.cache[b] # NotMapped}
      BY DEF FsOk
    <3> QED BY <2>4, <2>7, <3>1
  <2>13. FsOk(t)
    <3>1. /\ s.panic = "no" /\ s.root = RootDir /\ ~ s.bitmap[DIRBLOCK]
          /\ s.disk.blk[DIRBLOCK] # NotMapped /\ DirectoryOk(Directory(s))
      BY DEF FsOk
    <3> QED BY <2>6, <2>7, <2>8, <2>9, <2>11, <2>12, <3>1, Places DEF FsOk
  <2>14. Unowned(s, a)
    <3>1. BlocksOk(Directory(s), s.bitmap)
      BY DEF FsOk
    <3> QED BY <2>2, <3>1, Places DEF Unowned, BlocksOk
  <2>15. Unowned(t, a) /\ (Cached(s) => Cached(t))
    BY <2>4, <2>7, <2>9, <2>14 DEF Unowned, Cached
  <2> QED BY <2>3, <2>6, <2>7, <2>9, <2>13, <2>14, <2>15
<1> QED BY <1>1, <1>2

(* A file gets a block that no file has.                                   *)
LEMMA SetPtrOk ==
  ASSUME NEW s, FsOk(s), Cached(s), NEW f \in Slots, NEW n \in Direct, NEW b,
         Unowned(s, b), ~ s.bitmap[b]
  PROVE  LET t == SetPtr(s, f, n, b)
         IN  FsOk(t) /\ Cached(t) /\ t.bitmap = s.bitmap
<1> DEFINE e == Directory(s)
           file == [File(s, f) EXCEPT !.ptr[n] = b]
           t == SetFile(s, f, file)
<1>1. e \in [FileSlot -> SmallFile] /\ f[2] \in FileSlot /\ File(s, f) = e[f[2]] /\ File(s, f) \in SmallFile
  BY SlotIs, Places DEF FsOk, DirectoryOk
<1>2. b \in Block /\ b # DIRBLOCK /\ b # 0 /\ \A j \in FileSlot, m \in Direct : e[j].ptr[m] # b
  BY Places DEF Unowned
<1>3. /\ file \in SmallFile /\ file.name = File(s, f).name
      /\ \A m \in Direct : file.ptr[m] = IF m = n THEN b ELSE File(s, f).ptr[m]
  <2> DEFINE prior == File(s, f)
  <2>1. prior = [name |-> prior.name, size |-> prior.size, type |-> prior.type, dir |-> prior.dir,
                 ptr |-> prior.ptr, ind |-> prior.ind]
    BY <1>1 DEF SmallFile
  <2>2. file = [name |-> prior.name, size |-> prior.size, type |-> prior.type, dir |-> prior.dir,
                ptr |-> [prior.ptr EXCEPT ![n] = b], ind |-> prior.ind]
    <3> HIDE DEF prior
    <3>1. file = [prior EXCEPT !.ptr = [prior.ptr EXCEPT ![n] = b]]
      BY DEF prior
    <3> QED BY <2>1, <3>1
  <2>3. prior.ptr \in [Direct -> Block \union {0}] /\ prior \in SmallFile
    BY <1>1 DEF SmallFile
  <2>4. [prior.ptr EXCEPT ![n] = b] \in [Direct -> Block \union {0}]
    BY <1>2, <2>3
  <2> HIDE DEF file, prior
  <2>5. file \in SmallFile
    BY <2>2, <2>3, <2>4 DEF SmallFile
  <2> QED BY <2>2, <2>3, <2>5 DEF prior
<1>4. SetPtr(s, f, n, b) = t
  BY DEF SetPtr
<1>5. /\ t = [s EXCEPT !.cache = t.cache] /\ FsShape(t) /\ Cached(t)
      /\ \A d \in Block : d # DIRBLOCK => t.cache[d] = s.cache[d]
      /\ Directory(t) = [e EXCEPT ![f[2]] = file]
  <2>1. e = [j \in FileSlot |-> e[j]]
    BY <1>1
  <2>2. FsShape(s)
    BY DEF FsOk
  <2> HIDE DEF file
  <2> QED BY <2>1, <2>2, SetSlotIs
<1>6. /\ t.bitmap = s.bitmap /\ t.dirty = s.dirty /\ t.root = s.root /\ t.disk = s.disk
      /\ t.panic = s.panic
  <2>1. s = [bitmap |-> s.bitmap, cache |-> s.cache, dirty |-> s.dirty,
             root |-> s.root, disk |-> s.disk, panic |-> s.panic]
    BY DEF FsOk, FsShape
  <2> HIDE DEF t
  <2> QED BY <1>5, <2>1
<1> DEFINE d == Directory(t)
<1> HIDE DEF t, e, file
<1>7. d = [e EXCEPT ![f[2]] = file]
  BY <1>5
<1> HIDE DEF d
<1>8. \A j \in FileSlot : d[j] = IF j = f[2] THEN file ELSE e[j]
  BY <1>1, <1>7
<1>9. DirectoryOk(d)
  <2>1. d \in [FileSlot -> SmallFile]
    BY <1>1, <1>3, <1>7
  <2>2. \A j \in FileSlot : d[j].name = e[j].name
    BY <1>1, <1>3, <1>8
  <2>3. DirectoryOk(e)
    BY DEF FsOk, e
  <2> QED BY <2>1, <2>2, <2>3 DEF DirectoryOk
<1>10. BlocksOk(d, t.bitmap)
  <2>1. BlocksOk(e, s.bitmap)
    BY DEF FsOk, e
  <2>2. \A j \in FileSlot, m \in Direct :
          d[j].ptr[m] = IF j = f[2] /\ m = n THEN b ELSE e[j].ptr[m]
    BY <1>1, <1>3, <1>8
  <2>3. \A j \in FileSlot, m \in Direct :
          d[j].ptr[m] # 0 => d[j].ptr[m] # DIRBLOCK /\ ~ s.bitmap[d[j].ptr[m]]
    BY <1>2, <2>1, <2>2 DEF BlocksOk
  <2>4. ASSUME NEW j \in FileSlot, NEW l \in FileSlot, NEW m \in Direct, NEW k \in Direct,
               d[j].ptr[m] = d[l].ptr[k], d[j].ptr[m] # 0
        PROVE  j = l /\ m = k
    <3>1. CASE d[j].ptr[m] = b
      <4>1. j = f[2] /\ m = n
        BY <1>2, <2>2, <3>1
      <4>2. d[l].ptr[k] = b
        BY <2>4, <3>1
      <4>3. l = f[2] /\ k = n
        BY <1>2, <2>2, <4>2
      <4> QED BY <4>1, <4>3
    <3>2. CASE d[j].ptr[m] # b
      <4>1. d[j].ptr[m] = e[j].ptr[m] /\ d[l].ptr[k] = e[l].ptr[k]
        BY <2>2, <2>4, <3>2
      <4>2. e[j].ptr[m] = e[l].ptr[k] /\ e[j].ptr[m] # 0
        BY <2>4, <4>1
      <4>3. \A j2, l2 \in FileSlot, n2, m2 \in Direct :
              e[j2].ptr[n2] = e[l2].ptr[m2] /\ e[j2].ptr[n2] # 0 => j2 = l2 /\ n2 = m2
        BY <2>1 DEF BlocksOk
      <4> QED BY <4>2, <4>3
    <3> QED BY <3>1, <3>2
  <2> QED BY <1>6, <2>3, <2>4 DEF BlocksOk
<1>11. t.dirty \subseteq {c \in Block : t.cache[c] # NotMapped}
  <2>1. s.dirty \subseteq {c \in Block : s.cache[c] # NotMapped}
    BY DEF FsOk
  <2> QED BY <1>5, <1>6, <2>1 DEF Cached
<1>12. FsOk(t)
  BY <1>5, <1>6, <1>9, <1>10, <1>11 DEF FsOk, d
<1> QED BY <1>4, <1>5, <1>6, <1>12

(* What a request may return, with the directory in the cache.             *)
Answers(q) == FsOk(q.fs) /\ Cached(q.fs) /\ q.r # "PANIC"
IsOwned(t, b) == b \in Block /\ b # DIRBLOCK /\ ~ t.bitmap[b]

(* file_map_block on a block that the file may have.                       *)
LEMMA MapOk ==
  ASSUME NEW s, FsOk(s), Cached(s), NEW f \in Slots, NEW n \in Direct, NEW alloc \in BOOLEAN
  PROVE  LET q == FileMapBlock(s, f, n, alloc)
         IN  Answers(q) /\ (q.r = "OK" => IsOwned(q.fs, q.at))
<1> DEFINE p == File(s, f).ptr[n]
<1>1. FileBlockWalk(s, f, n, alloc) = [fs |-> s, r |-> "OK", at |-> NULL]
  BY DEF FileBlockWalk, Ok, Result
<1>2. PtrAt(s, f, n) = p
  BY DEF PtrAt
<1>3. p # 0 => IsOwned(s, p)
  <2>1. File(s, f) = Directory(s)[f[2]] /\ File(s, f) \in SmallFile /\ f[2] \in FileSlot
    BY SlotIs, Places
  <2>2. p \in Block \union {0}
    BY <2>1 DEF SmallFile
  <2>3. BlocksOk(Directory(s), s.bitmap)
    BY DEF FsOk
  <2> QED BY <2>1, <2>2, <2>3 DEF BlocksOk, IsOwned
<1>4. FileMapBlock(s, f, n, alloc) =
        IF p # 0 THEN [fs |-> s, r |-> "OK", at |-> p]
        ELSE IF ~alloc THEN [fs |-> s, r |-> "NOT_FOUND", at |-> NULL]
        ELSE Then(AllocBlock(s), LAMBDA new : Ok(SetPtr(new.fs, f, n, new.at), new.at))
  BY <1>1, <1>2 DEF FileMapBlock, Then, Ok, Result
<1>5. CASE p # 0
  BY <1>3, <1>4, <1>5 DEF Answers
<1>6. CASE p = 0 /\ ~ alloc
  BY <1>4, <1>6 DEF Answers
<1>7. CASE p = 0 /\ alloc
  <2> DEFINE new == AllocBlock(s)
  <2>1. FileMapBlock(s, f, n, alloc) =
          IF new.r = "OK" THEN [fs |-> SetPtr(new.fs, f, n, new.at), r |-> "OK", at |-> new.at] ELSE new
    BY <1>4, <1>7 DEF Then, Ok, Result
  <2>2. \/ new.r = "NO_DISK" /\ new.fs = s
        \/ /\ new.r = "OK" /\ Unowned(new.fs, new.at) /\ FsOk(new.fs) /\ ~ new.fs.bitmap[new.at]
           /\ Cached(new.fs)
    BY AllocOk
  <2> HIDE DEF new
  <2>3. CASE new.r = "NO_DISK" /\ new.fs = s
    BY <2>1, <2>3 DEF Answers
  <2>4. CASE new.r # "NO_DISK"
    <3> DEFINE t == SetPtr(new.fs, f, n, new.at)
    <3>1. FsOk(t) /\ Cached(t) /\ t.bitmap = new.fs.bitmap
      BY <2>2, <2>4, SetPtrOk
    <3> HIDE DEF t
    <3>2. FileMapBlock(s, f, n, alloc) = [fs |-> t, r |-> "OK", at |-> new.at]
      BY <2>1, <2>2, <2>4 DEF t
    <3> QED BY <2>2, <2>4, <3>1, <3>2 DEF Answers, IsOwned, Unowned
  <2> QED BY <2>2, <2>3, <2>4
<1> QED BY <1>5, <1>6, <1>7

(* file_get_block and file_dirty.                                          *)
LEMMA GetOk ==
  ASSUME NEW s, FsOk(s), Cached(s), NEW f \in Slots, NEW n \in Direct
  PROVE  LET q == FileGetBlock(s, f, n)
         IN  Answers(q) /\ (q.r = "OK" => q.at \in Block /\ q.at # DIRBLOCK)
<1> DEFINE m == FileMapBlock(s, f, n, TRUE)
<1>1. Answers(m) /\ (m.r = "OK" => IsOwned(m.fs, m.at))
  BY MapOk
<1>2. FileGetBlock(s, f, n) = IF m.r = "OK" THEN ReadBlock(m.fs, m.at) ELSE m
  BY DEF FileGetBlock, Then
<1> HIDE DEF m
<1>3. CASE m.r # "OK"
  BY <1>1, <1>2, <1>3
<1>4. CASE m.r = "OK"
  <2> DEFINE q == ReadBlock(m.fs, m.at)
  <2>1. q.r = "OK" /\ q.at = m.at /\ SameFiles(m.fs, q.fs)
    BY <1>1, <1>4, ReadOk DEF Answers, IsOwned
  <2> HIDE DEF q
  <2>2. Answers(q)
    BY <1>1, <2>1 DEF Answers, SameFiles
  <2> QED BY <1>1, <1>2, <1>4, <2>1, <2>2 DEF q, IsOwned
<1> QED BY <1>3, <1>4

LEMMA FsSet ==
  ASSUME NEW s, FsShape(s), NEW d
  PROVE  [s EXCEPT !.dirty = d] = [bitmap |-> s.bitmap, cache |-> s.cache, dirty |-> d,
                                   root |-> s.root, disk |-> s.disk, panic |-> s.panic]
BY DEF FsShape

LEMMA DirtyBlockOk ==
  ASSUME NEW s, FsOk(s), NEW b
  PROVE  /\ SameFiles(s, DirtyBlock(s, b).fs) /\ DirtyBlock(s, b).r \in {"OK", "NOT_FOUND"}
         /\ BlockIsMapped(s, b) => DirtyBlock(s, b).r = "OK"
<1>1. CASE ~ BlockIsMapped(s, b)
  BY <1>1 DEF DirtyBlock, Result, SameFiles
<1>2. CASE BlockIsMapped(s, b)
  <2> DEFINE t == [s EXCEPT !.dirty = s.dirty \union {b}]
  <2>1. DirtyBlock(s, b) = [fs |-> t, r |-> "OK", at |-> b]
    BY <1>2 DEF DirtyBlock, Ok, Result
  <2>2. t = [bitmap |-> s.bitmap, cache |-> s.cache, dirty |-> s.dirty \union {b},
             root |-> s.root, disk |-> s.disk, panic |-> s.panic]
    BY FsSet DEF FsOk
  <2> HIDE DEF t
  <2>3. FsShape(t) /\ Directory(t) = Directory(s)
    BY <2>2 DEF FsOk, FsShape, Directory
  <2>4. t.dirty \subseteq {c \in Block : t.cache[c] # NotMapped}
    BY <1>2, <2>2 DEF FsOk, BlockIsMapped
  <2>5. FsOk(t)
    BY <2>2, <2>3, <2>4 DEF FsOk
  <2> QED BY <2>1, <2>2, <2>3, <2>5 DEF SameFiles, Cached
<1> QED BY <1>1, <1>2

LEMMA FileDirtyOk ==
  ASSUME NEW s, FsOk(s), Cached(s), NEW f \in Slots, NEW n \in Direct
  PROVE  Answers(FileDirty(s, f, n))
<1> DEFINE m == FileMapBlock(s, f, n, FALSE)
<1>1. Answers(m)
  BY MapOk
<1>2. FileDirty(s, f, n) = IF m.r = "OK" THEN DirtyBlock(m.fs, m.at) ELSE m
  BY DEF FileDirty, Then
<1> HIDE DEF m
<1>3. /\ SameFiles(m.fs, DirtyBlock(m.fs, m.at).fs) 
      /\ DirtyBlock(m.fs, m.at).r \in {"OK", "NOT_FOUND"}
  BY <1>1, DirtyBlockOk DEF Answers
<1> QED BY <1>1, <1>2, <1>3 DEF Answers, SameFiles

(* write_block of some blocks, and file_flush.                             *)
LEMMA WriteOk ==
  ASSUME NEW s, FsOk(s), NEW bs
  PROVE  SameFiles(s, WriteDirty(s, bs))
<1> DEFINE blk == [b \in Block |-> IF b \in bs /\ BlockIsDirty(s, b) THEN s.cache[b] ELSE s.disk.blk[b]]
           dk == [s.disk EXCEPT !.blk = blk]
           t == [s EXCEPT !.disk = dk]
<1>1. WriteDirty(s, bs) = t
  BY DEF WriteDirty
<1>2. dk = [bitmap |-> s.disk.bitmap, blk |-> blk, root |-> s.disk.root]
  <2> HIDE DEF blk
  <2> QED BY DEF FsOk, FsShape, DiskShape
<1>3. t = [bitmap |-> s.bitmap, cache |-> s.cache, dirty |-> s.dirty,
           root |-> s.root, disk |-> dk, panic |-> s.panic]
  <2> HIDE DEF dk
  <2> QED BY DEF FsOk, FsShape
<1>4. DOMAIN blk = Block /\ blk[DIRBLOCK] # NotMapped
      /\ (~ Cached(s) => blk[DIRBLOCK] = s.disk.blk[DIRBLOCK])
  BY Places DEF FsOk, BlockIsDirty, BlockIsMapped, Cached
<1> HIDE DEF blk, t
<1>5. DiskShape(dk) /\ dk.blk = blk
  BY <1>2 DEF DiskShape
<1> HIDE DEF dk
<1>6. FsShape(t)
  BY <1>3, <1>4, <1>5 DEF FsOk, FsShape
<1>7. Directory(t) = Directory(s)
  BY <1>3, <1>4, <1>5 DEF Directory, Cached
<1>8. FsOk(t)
  BY <1>3, <1>4, <1>5, <1>6, <1>7 DEF FsOk
<1> QED BY <1>1, <1>3, <1>7, <1>8 DEF SameFiles, Cached

(* The root, like a file, has no indirect block.                           *)
IsFile(s, f) == f = ROOT \/ (f \in Slots /\ Cached(s))

LEMMA NoIndirect ==
  ASSUME NEW s, FsOk(s), NEW f, IsFile(s, f)
  PROVE  File(s, f).ind = 0
<1>1. CASE f = ROOT
  BY <1>1 DEF File, FsOk, RootDir, BlankFile
<1>2. CASE f # ROOT
  BY <1>2, SlotIs DEF IsFile, SmallFile
<1> QED BY <1>1, <1>2

LEMMA FlushOk ==
  ASSUME NEW s, FsOk(s), NEW f, IsFile(s, f)
  PROVE  FileFlush(s, f).r = "OK" /\ SameFiles(s, FileFlush(s, f).fs)
<1>1. \A ns : ReadIndirect(s, f, ns) = [fs |-> s, r |-> "OK", at |-> NULL]
  BY NoIndirect DEF ReadIndirect, Ok, Result
<1>2. PICK bs : FileFlush(s, f) = [fs |-> WriteDirty(s, bs), r |-> "OK", at |-> f]
  <2> DEFINE ns == {n \in Direct \union Indirect : n < File(s, f).size}
  <2>1. FileFlush(s, f) = [fs |-> WriteDirty(s, PtrsAt(s, f, ns)), r |-> "OK", at |-> f]
    BY <1>1 DEF FileFlush, Then, Ok, Result
  <2> HIDE DEF ns
  <2> QED BY <2>1
<1>3. SameFiles(s, WriteDirty(s, bs))
  BY WriteOk
<1> QED BY <1>2, <1>3

(* file_clear_block of some blocks of a file: they are free, and the       *)
(* pointers to them are gone.                                              *)
LEMMA FreeIs ==
  ASSUME NEW s, FsShape(s), NEW bs
  PROVE  FreeBlocks(s, bs) = [bitmap |-> [b \in Block |-> s.bitmap[b] \/ b \in bs],
                              cache |-> s.cache, dirty |-> s.dirty,
                              root |-> s.root, disk |-> s.disk, panic |-> s.panic]
<1> DEFINE bm == [b \in Block |-> s.bitmap[b] \/ b \in bs]
<1>1. FreeBlocks(s, bs) = [s EXCEPT !.bitmap = bm]
  BY DEF FreeBlocks
<1> HIDE DEF bm
<1>2. [s EXCEPT !.bitmap = bm] = [bitmap |-> bm, cache |-> s.cache, dirty |-> s.dirty,
                                  root |-> s.root, disk |-> s.disk, panic |-> s.panic]
  BY DEF FsShape
<1> QED BY <1>1, <1>2 DEF bm

LEMMA ClearOk ==
  ASSUME NEW s, FsOk(s), Cached(s), NEW f \in Slots, NEW ns \in SUBSET Direct
  PROVE  LET t == ClearBlocks(s, f, ns)
         IN  FsOk(t) /\ Cached(t)
<1> DEFINE e == Directory(s)
           prior == File(s, f)
           ptr == [n \in Direct |-> IF n \in ns THEN 0 ELSE prior.ptr[n]]
           file == [prior EXCEPT !.ptr = ptr]
           ps == {prior.ptr[n] : n \in ns} \ {0}
           u == FreeBlocks(s, ps)
           t == SetFile(u, f, file)
<1>1. e \in [FileSlot -> SmallFile] /\ f[2] \in FileSlot /\ prior = e[f[2]] /\ prior \in SmallFile
  BY SlotIs, Places DEF FsOk, DirectoryOk
<1>2. ClearBlocks(s, f, ns) = t
  <2>1. prior.ind = 0
    BY <1>1 DEF SmallFile
  <2>2. Walkable(s, f, ns) = ns
    BY <2>1 DEF Walkable
  <2>3. PtrsAt(s, f, ns) = ps
    <3>1. \A n \in ns : PtrAt(s, f, n) = prior.ptr[n]
      BY DEF PtrAt
    <3> HIDE DEF prior
    <3> QED BY <2>2, <3>1 DEF PtrsAt
  <2> QED BY <2>1, <2>3 DEF ClearBlocks
<1>3. /\ file \in SmallFile /\ file.name = prior.name
      /\ \A m \in Direct : file.ptr[m] = IF m \in ns THEN 0 ELSE prior.ptr[m]
  <2>1. prior = [name |-> prior.name, size |-> prior.size, type |-> prior.type, dir |-> prior.dir,
                 ptr |-> prior.ptr, ind |-> prior.ind]
    BY <1>1 DEF SmallFile
  <2>2. ptr \in [Direct -> Block \union {0}] /\ prior \in SmallFile
    <3>1. prior.ptr \in [Direct -> Block \union {0}]
      BY <1>1 DEF SmallFile
    <3> HIDE DEF prior
    <3> QED BY <1>1, <3>1
  <2>3. \A m \in Direct : ptr[m] = IF m \in ns THEN 0 ELSE prior.ptr[m]
    OBVIOUS
  <2> HIDE DEF prior, ptr
  <2>4. file = [name |-> prior.name, size |-> prior.size, type |-> prior.type, dir |-> prior.dir,
                ptr |-> ptr, ind |-> prior.ind]
    BY <2>1
  <2> HIDE DEF file
  <2>5. file \in SmallFile
    BY <2>2, <2>4 DEF SmallFile
  <2> QED BY <2>3, <2>4, <2>5
<1>4. \A b \in ps : \E n \in ns : b = e[f[2]].ptr[n] /\ b # 0
  <2> HIDE DEF e, prior
  <2> QED BY <1>1
<1>5. BlocksOk(e, s.bitmap) /\ DirectoryOk(e) /\ s.bitmap \in [Block -> BOOLEAN] /\ ~ s.bitmap[DIRBLOCK]
  BY DEF FsOk
<1>6. DIRBLOCK \notin ps
  <2> HIDE DEF e, ps
  <2> QED BY <1>1, <1>4, <1>5 DEF BlocksOk
<1> HIDE DEF ps
<1> DEFINE bm == [b \in Block |-> s.bitmap[b] \/ b \in ps]
<1>7. u = [bitmap |-> bm, cache |-> s.cache, dirty |-> s.dirty,
           root |-> s.root, disk |-> s.disk, panic |-> s.panic]
  BY FreeIs DEF FsOk
<1>8. bm \in [Block -> BOOLEAN] /\ ~ bm[DIRBLOCK] /\ \A b \in Block : bm[b] = (s.bitmap[b] \/ b \in ps)
  BY <1>5, <1>6, Places
<1> HIDE DEF bm, u, file
<1>9. FsShape(u) /\ Cached(u) /\ Directory(u) = e
  BY <1>7 DEF FsOk, FsShape, Cached, Directory
<1>10. /\ t = [u EXCEPT !.cache = t.cache] /\ FsShape(t) /\ Cached(t)
       /\ \A d \in Block : d # DIRBLOCK => t.cache[d] = u.cache[d]
       /\ Directory(t) = [e EXCEPT ![f[2]] = file]
  <2>1. e = [j \in FileSlot |-> e[j]]
    BY <1>1
  <2> HIDE DEF e
  <2> QED BY <1>9, <2>1, SetSlotIs
<1>11. /\ t.bitmap = bm /\ t.dirty = s.dirty /\ t.root = s.root /\ t.disk = s.disk
       /\ t.panic = s.panic
  <2> HIDE DEF t
  <2> QED BY <1>7, <1>10
<1> DEFINE d == Directory(t)
<1> HIDE DEF t, e, prior
<1>12. d = [e EXCEPT ![f[2]] = file]
  BY <1>10
<1> HIDE DEF d
<1>13. \A j \in FileSlot : d[j] = IF j = f[2] THEN file ELSE e[j]
  BY <1>1, <1>12
<1>14. DirectoryOk(d)
  <2>1. d \in [FileSlot -> SmallFile]
    BY <1>1, <1>3, <1>12
  <2>2. \A j \in FileSlot : d[j].name = e[j].name
    BY <1>1, <1>3, <1>13
  <2> QED BY <1>5, <2>1, <2>2 DEF DirectoryOk
<1>15. BlocksOk(d, bm)
  <2>1. \A j \in FileSlot, m \in Direct :
          d[j].ptr[m] = IF j = f[2] /\ m \in ns THEN 0 ELSE e[j].ptr[m]
    BY <1>1, <1>3, <1>13
  <2>2. \A j, l \in FileSlot, n, m \in Direct :
          e[j].ptr[n] = e[l].ptr[m] /\ e[j].ptr[n] # 0 => j = l /\ n = m
    BY <1>5 DEF BlocksOk
  <2>3. ASSUME NEW j \in FileSlot, NEW m \in Direct, d[j].ptr[m] # 0
        PROVE  d[j].ptr[m] # DIRBLOCK /\ ~ bm[d[j].ptr[m]]
    <3>1. d[j].ptr[m] = e[j].ptr[m] /\ ~ (j = f[2] /\ m \in ns) /\ e[j].ptr[m] # 0
      BY <2>1, <2>3
    <3>2. e[j].ptr[m] \in Block
      <4>1. e[j].ptr \in [Direct -> Block \union {0}]
        BY <1>1 DEF SmallFile
      <4> QED BY <3>1, <4>1
    <3>3. e[j].ptr[m] \notin ps
      BY <1>1, <1>4, <2>2, <3>1
    <3>4. e[j].ptr[m] # DIRBLOCK /\ ~ s.bitmap[e[j].ptr[m]]
      BY <1>5, <3>1 DEF BlocksOk
    <3> QED BY <1>8, <3>1, <3>2, <3>3, <3>4
  <2>4. ASSUME NEW j \in FileSlot, NEW l \in FileSlot, NEW n \in Direct, NEW m \in Direct,
               d[j].ptr[n] = d[l].ptr[m], d[j].ptr[n] # 0
        PROVE  j = l /\ n = m
    <3>1. d[j].ptr[n] = e[j].ptr[n]
      BY <2>1, <2>4
    <3>2. d[l].ptr[m] = e[l].ptr[m]
      BY <2>1, <2>4
    <3>3. e[j].ptr[n] = e[l].ptr[m] /\ e[j].ptr[n] # 0
      BY <2>4, <3>1, <3>2
    <3> QED BY <2>2, <3>3
  <2> QED BY <2>3, <2>4 DEF BlocksOk
<1>16. t.dirty \subseteq {c \in Block : t.cache[c] # NotMapped}
  <2>1. s.dirty \subseteq {c \in Block : s.cache[c] # NotMapped}
    BY DEF FsOk
  <2> QED BY <1>7, <1>10, <1>11, <2>1 DEF Cached
<1>17. FsOk(t)
  BY <1>8, <1>10, <1>11, <1>14, <1>15, <1>16 DEF FsOk, d
<1> QED BY <1>2, <1>10, <1>17

(* A file may get another size, a directory or a name.                     *)
LEMMA AttrFile ==
  ASSUME NEW prior \in SmallFile, NEW size \in 0 .. NDIRECT, NEW dir \in {NULL, ROOT},
         NEW name \in Names \union {NoName}
  PROVE  /\ [prior EXCEPT !.size = size] \in SmallFile
         /\ [prior EXCEPT !.size = size].ptr = prior.ptr
         /\ [prior EXCEPT !.size = size].name = prior.name
         /\ [prior EXCEPT !.size = size].ind = 0
         /\ [[prior EXCEPT !.size = size] EXCEPT !.ind = 0] = [prior EXCEPT !.size = size]
         /\ [prior EXCEPT !.dir = dir] \in SmallFile
         /\ [prior EXCEPT !.dir = dir].ptr = prior.ptr
         /\ [prior EXCEPT !.dir = dir].name = prior.name
         /\ [prior EXCEPT !.name = name] \in SmallFile
         /\ [prior EXCEPT !.name = name].ptr = prior.ptr
         /\ [prior EXCEPT !.name = name].name = name
<1>1. /\ prior = [name |-> prior.name, size |-> prior.size, type |-> prior.type, dir |-> prior.dir,
                  ptr |-> prior.ptr, ind |-> prior.ind]
      /\ prior.ind = 0
  BY DEF SmallFile
<1>2. [prior EXCEPT !.size = size] = [name |-> prior.name, size |-> size, type |-> prior.type, dir |-> prior.dir,
                                      ptr |-> prior.ptr, ind |-> prior.ind]
  BY <1>1
<1>3. [prior EXCEPT !.dir = dir] = [name |-> prior.name, size |-> prior.size, type |-> prior.type, dir |-> dir,
                                    ptr |-> prior.ptr, ind |-> prior.ind]
  BY <1>1
<1>4. [prior EXCEPT !.name = name] = [name |-> name, size |-> prior.size, type |-> prior.type, dir |-> prior.dir,
                                      ptr |-> prior.ptr, ind |-> prior.ind]
  BY <1>1
<1>5. [prior EXCEPT !.size = size] \in SmallFile
  BY <1>2 DEF SmallFile
<1>6. [prior EXCEPT !.dir = dir] \in SmallFile
  BY <1>3 DEF SmallFile
<1>7. [prior EXCEPT !.name = name] \in SmallFile
  BY <1>4 DEF SmallFile
<1> DEFINE g == [prior EXCEPT !.size = size]
<1>8. [g EXCEPT !.ind = 0] = g
  <2> HIDE DEF g
  <2>1. g = [name |-> prior.name, size |-> size, type |-> prior.type, dir |-> prior.dir,
             ptr |-> prior.ptr, ind |-> 0]
    BY <1>1, <1>2 DEF g
  <2> QED BY <2>1
<1> QED BY <1>1, <1>2, <1>3, <1>4, <1>5, <1>6, <1>7, <1>8

(* file_truncate to a size that needs no indirect block.                   *)
LEMMA TruncateOk ==
  ASSUME NEW s, FsOk(s), Cached(s), NEW f \in Slots, NEW size \in 0 .. NDIRECT
  PROVE  LET q == FileTruncate(s, f, size)
         IN  q.r = "OK" /\ FsOk(q.fs) /\ Cached(q.fs)
<1> DEFINE ns == size .. File(s, f).size - 1
           t == ClearBlocks(s, f, ns)
           file == [File(t, f) EXCEPT !.size = size]
           u == SetFile(t, f, file)
<1>1. File(s, f) \in SmallFile /\ File(s, f).ind = 0
  BY SlotIs DEF SmallFile
<1>2. ns \in SUBSET Direct
  <2>1. File(s, f).size \in 0 .. NDIRECT
    BY <1>1 DEF SmallFile
  <2> QED BY <2>1, FsAssumption DEF Direct
<1>10. FileTruncate(s, f, size) =
         Then(ReadIndirect(s, f, ns), LAMBDA v :
           IF Walkable(v.fs, f, ns) # ns THEN Panic(v.fs, "clearing a block")
           ELSE Ok(Shrink(ClearBlocks(v.fs, f, ns), f, size), f))
  BY Zenon DEF FileTruncate
<1> HIDE DEF ns
<1>3. FileTruncate(s, f, size) = [fs |-> Shrink(t, f, size), r |-> "OK", at |-> f]
  <2>1. ReadIndirect(s, f, ns) = [fs |-> s, r |-> "OK", at |-> NULL]
    BY <1>1 DEF ReadIndirect, Ok, Result
  <2>2. Walkable(s, f, ns) = ns
    BY <1>1, <1>2 DEF Walkable
  <2> QED BY <1>10, <2>1, <2>2 DEF Then, Ok, Result
<1>4. FsOk(t) /\ Cached(t)
  BY <1>2, ClearOk
<1> HIDE DEF t
<1>5. File(t, f) \in SmallFile /\ File(t, f).ind = 0
  BY <1>4, SlotIs DEF SmallFile
<1>6. FreeBlocks(t, {}) = t
  <2>1. [b \in Block |-> t.bitmap[b] \/ b \in {}] = t.bitmap
    BY <1>4 DEF FsOk
  <2> QED BY <1>4, <2>1, FreeIs DEF FsOk, FsShape
<1>7. /\ file \in SmallFile /\ file.ptr = File(t, f).ptr /\ file.name = File(t, f).name
      /\ file.ind = 0 /\ [file EXCEPT !.ind = 0] = file
  BY <1>5, AttrFile
<1>8. Shrink(t, f, size) = u
  <2>1. ~ (size > NDIRECT)
    BY FsAssumption
  <2>2. Shrink(t, f, size) = SetFile(FreeBlocks(t, {file.ind} \ {0}), f, [file EXCEPT !.ind = 0])
    BY <2>1 DEF Shrink
  <2>3. {file.ind} \ {0} = {}
    BY <1>7
  <2> HIDE DEF file
  <2> QED BY <1>6, <1>7, <2>2, <2>3
<1> HIDE DEF file
<1>9. FsOk(u) /\ Cached(u)
  BY <1>4, <1>7, SetAttr
<1> QED BY <1>3, <1>8, <1>9

(* The directory of a file is the root, or nobody has looked it up yet.    *)
LEMMA FlushDirOk ==
  ASSUME NEW s, FsOk(s), Cached(s), NEW f \in Slots
  PROVE  FlushDir(s, f).r = "OK" /\ SameFiles(s, FlushDir(s, f).fs)
<1>1. File(s, f).dir \in {NULL, ROOT}
  BY SlotIs DEF SmallFile
<1>2. CASE File(s, f).dir = NULL
  <2>1. FlushDir(s, f) = [fs |-> s, r |-> "OK", at |-> f]
    BY <1>2, FsAssumption DEF FlushDir, Ok, Result
  <2> QED BY <2>1 DEF SameFiles
<1>3. CASE File(s, f).dir = ROOT
  <2>1. FlushDir(s, f) = FileFlush(s, ROOT)
    BY <1>3, FsAssumption DEF FlushDir
  <2> QED BY <2>1, FlushOk DEF IsFile
<1> QED BY <1>1, <1>2, <1>3

(* file_set_size.                                                          *)
LEMMA SetSizeOk ==
  ASSUME NEW s, FsOk(s), Cached(s), NEW f \in Slots, NEW size \in 0 .. NDIRECT
  PROVE  LET q == FileSetSize(s, f, size)
         IN  q.r = "OK" /\ FsOk(q.fs) /\ Cached(q.fs)
<1> DEFINE q == IF File(s, f).size > size THEN FileTruncate(s, f, size) ELSE Ok(s, f)
           file == [File(q.fs, f) EXCEPT !.size = size]
           u == SetFile(q.fs, f, file)
<1>1. q.r = "OK" /\ FsOk(q.fs) /\ Cached(q.fs)
  BY TruncateOk DEF Ok, Result
<1>2. FileSetSize(s, f, size) = FlushDir(u, f)
  BY <1>1 DEF FileSetSize, Then
<1> HIDE DEF q
<1>3. /\ file \in SmallFile /\ file.ptr = File(q.fs, f).ptr /\ file.name = File(q.fs, f).name
  BY <1>1, SlotIs, AttrFile
<1> HIDE DEF file
<1>4. FsOk(u) /\ Cached(u)
  BY <1>1, <1>3, SetAttr
<1> HIDE DEF u
<1>5. FlushDir(u, f).r = "OK" /\ SameFiles(u, FlushDir(u, f).fs)
  BY <1>4, FlushDirOk
<1> QED BY <1>2, <1>4, <1>5 DEF SameFiles

(* The one directory.                                                      *)
LEMMA RootIs ==
  ASSUME NEW s, FsOk(s)
  PROVE  /\ File(s, ROOT).size = 1 /\ File(s, ROOT).type = "DIR" /\ File(s, ROOT).ptr[0] = DIRBLOCK
         /\ File(s, ROOT).dir = NULL
<1>1. File(s, ROOT) = RootDir
  BY DEF File, FsOk
<1>2. RootDir.size = 1 /\ RootDir.type = "DIR" /\ RootDir.ptr[0] = DIRBLOCK /\ RootDir.dir = NULL
  BY Places DEF RootDir, BlankFile
<1> QED BY <1>1, <1>2

(* file_get_block and file_map_block of its block.                         *)
LEMMA RootBlock ==
  ASSUME NEW s, FsOk(s), NEW alloc
  PROVE  /\ FileMapBlock(s, ROOT, 0, alloc) = [fs |-> s, r |-> "OK", at |-> DIRBLOCK]
         /\ ReadBlock(s, DIRBLOCK).r = "OK" /\ ReadBlock(s, DIRBLOCK).at = DIRBLOCK
         /\ SameFiles(s, ReadBlock(s, DIRBLOCK).fs) /\ Cached(ReadBlock(s, DIRBLOCK).fs)
         /\ FileGetBlock(s, ROOT, 0) = ReadBlock(s, DIRBLOCK)
<1>1. \A a : FileBlockWalk(s, ROOT, 0, a) = [fs |-> s, r |-> "OK", at |-> NULL]
  BY Places DEF FileBlockWalk, Ok, Result
<1>2. PtrAt(s, ROOT, 0) = DIRBLOCK /\ DIRBLOCK # 0
  BY RootIs, Places DEF PtrAt
<1>3. \A a : FileMapBlock(s, ROOT, 0, a) = [fs |-> s, r |-> "OK", at |-> DIRBLOCK]
  BY <1>1, <1>2 DEF FileMapBlock, Then, Ok, Result
<1>4. FileGetBlock(s, ROOT, 0) = ReadBlock(s, DIRBLOCK)
  <2> DEFINE q == FileMapBlock(s, ROOT, 0, TRUE)
  <2>1. q = [fs |-> s, r |-> "OK", at |-> DIRBLOCK]
    BY <1>3, Zenon
  <2>2. FileGetBlock(s, ROOT, 0) = IF q.r = "OK" THEN ReadBlock(q.fs, q.at) ELSE q
    BY DEF FileGetBlock, Then
  <2> HIDE DEF q
  <2> QED BY <2>1, <2>2
<1>5. ~ s.bitmap[DIRBLOCK]
  BY DEF FsOk
<1> QED BY <1>3, <1>4, <1>5, ReadOk, Places

(* Looking for a name in the directory.                                    *)
NoEntry(s, name) == \A j \in FileSlot : Directory(s)[j].name # name

LEMMA FindBlockOk ==
  ASSUME NEW s, FsOk(s), NEW name
  PROVE  LET q == FindInBlock(s, ROOT, name, 0)
         IN  /\ SameFiles(s, q.fs) /\ Cached(q.fs)
             /\ \/ q.r = "OK" /\ q.at \in Slots /\ Directory(q.fs)[q.at[2]].name = name
                \/ q.r = "NEXT" /\ q.at = NULL /\ NoEntry(q.fs, name)
<1> DEFINE g == ReadBlock(s, DIRBLOCK)
           hits == {j \in FileSlot : File(g.fs, <<DIRBLOCK, j>>).name = name}
           m == Min(hits)
<1>1. g.r = "OK" /\ g.at = DIRBLOCK /\ SameFiles(s, g.fs) /\ Cached(g.fs)
  BY RootBlock
<1>2. FileGetBlock(s, ROOT, 0) = g
  BY RootBlock
<1> HIDE DEF g
<1>3. FindInBlock(s, ROOT, name, 0) =
        IF hits = {} THEN [fs |-> g.fs, r |-> "NEXT", at |-> NULL]
        ELSE [fs |-> g.fs, r |-> "OK", at |-> <<DIRBLOCK, m>>]
  BY <1>1, <1>2 DEF FindInBlock, Then, Ok, Result
<1>4. \A j \in FileSlot : File(g.fs, <<DIRBLOCK, j>>) = Directory(g.fs)[j]
  <2> TAKE j \in FileSlot
  <2>1. <<DIRBLOCK, j>> \in Slots /\ <<DIRBLOCK, j>>[2] = j
    BY Places
  <2> QED BY <1>1, <2>1, SlotIs DEF SameFiles
<1>5. CASE hits = {}
  <2>1. NoEntry(g.fs, name)
    BY <1>4, <1>5 DEF NoEntry
  <2> QED BY <1>1, <1>3, <1>5, <2>1
<1>6. CASE hits # {}
  <2>1. hits \in SUBSET Nat
    BY Places
  <2>2. m \in hits
    BY <1>6, <2>1, Least
  <2> HIDE DEF m
  <2>3. m \in FileSlot /\ Directory(g.fs)[m].name = name
    BY <1>4, <2>2
  <2> DEFINE at == <<DIRBLOCK, m>>
  <2>4. at \in Slots /\ at[2] = m
    BY <2>3, Places
  <2>5. FindInBlock(s, ROOT, name, 0) = [fs |-> g.fs, r |-> "OK", at |-> at]
    BY <1>3, <1>6
  <2> HIDE DEF at
  <2>6. Directory(g.fs)[at[2]].name = name
    BY <2>3, <2>4
  <2> QED BY <1>1, <2>4, <2>5, <2>6
<1> QED BY <1>5, <1>6

(* The loop of dir_lookup and dir_alloc_file makes one turn.               *)
LEMMA FindIs ==
  ASSUME NEW s, FsOk(s), NEW name
  PROVE  FindEntry(s, ROOT, name) = FindInBlock(s, ROOT, name, 0)
<1> DEFINE one == FindInBlock(s, ROOT, name, 0)
           begin == Result(s, "NEXT", NULL)
           IsVisit(v) == v = [n \in 0 .. 1 |->
                           IF n = 0 THEN begin
                           ELSE LET t == v[n - 1]
                                IN IF t.r = "NEXT" THEN FindInBlock(t.fs, ROOT, name, n - 1) ELSE t]
           visit == CHOOSE v : IsVisit(v)
<1>1. FindEntry(s, ROOT, name) = visit[1]
  <2>1. File(s, ROOT).size = 1
    BY RootIs
  <2> QED BY <2>1, Zenon DEF FindEntry, EachBlock
<1>2. begin.r = "NEXT" /\ begin.fs = s
  BY DEF Result
<1> HIDE DEF begin
<1>3. IsVisit([n \in 0 .. 1 |-> IF n = 0 THEN begin ELSE one])
  <2> DEFINE w == [n \in 0 .. 1 |-> IF n = 0 THEN begin ELSE one]
             x == [n \in 0 .. 1 |->
                    IF n = 0 THEN begin
                    ELSE LET t == w[n - 1]
                         IN IF t.r = "NEXT" THEN FindInBlock(t.fs, ROOT, name, n - 1) ELSE t]
  <2>1. w[0] = begin
    OBVIOUS
  <2>2. \A n \in 0 .. 1 : w[n] = x[n]
    <3> HIDE DEF one
    <3>1. \A n \in 0 .. 1 : n = 0 \/ n = 1
      OBVIOUS
    <3>2. w[0] = x[0]
      OBVIOUS
    <3>3. x[1] = FindInBlock(s, ROOT, name, 0)
      BY <1>2, <2>1
    <3>4. w[1] = one
      OBVIOUS
    <3> QED BY <3>1, <3>2, <3>3, <3>4 DEF one
  <2>3. w = x
    <3>1. w = [n \in 0 .. 1 |-> w[n]] /\ x = [n \in 0 .. 1 |-> x[n]]
      OBVIOUS
    <3> HIDE DEF w, x
    <3> QED BY <2>2, <3>1, Zenon
  <2> QED BY <2>3, Zenon
<1>4. IsVisit(visit)
  BY <1>3, Zenon
<1> HIDE DEF visit
<1>5. visit[0] = begin
  BY <1>4
<1>6. visit[1] = IF visit[0].r = "NEXT" THEN FindInBlock(visit[0].fs, ROOT, name, 0) ELSE visit[0]
  BY <1>4
<1> QED BY <1>1, <1>2, <1>5, <1>6

(* dir_lookup.                                                             *)
LEMMA LookupOk ==
  ASSUME NEW s, FsOk(s), NEW name
  PROVE  LET q == DirLookup(s, ROOT, name)
         IN  /\ FsOk(q.fs) /\ Cached(q.fs)
             /\ \/ q.r = "OK" /\ q.at \in Slots
                \/ q.r = "NOT_FOUND" /\ NoEntry(q.fs, name)
<1> DEFINE t == FindInBlock(s, ROOT, name, 0)
           file == [File(t.fs, t.at) EXCEPT !.dir = ROOT]
           u == SetFile(t.fs, t.at, file)
<1>1. /\ FsOk(t.fs) /\ Cached(t.fs)
      /\ \/ t.r = "OK" /\ t.at \in Slots
         \/ t.r = "NEXT" /\ NoEntry(t.fs, name)
  BY FindBlockOk DEF SameFiles
<1>2. FindEntry(s, ROOT, name) = t
  BY FindIs
<1> HIDE DEF t
<1>3. DirLookup(s, ROOT, name) =
        CASE t.r = "OK"   -> [fs |-> u, r |-> "OK", at |-> t.at]
          [] t.r = "NEXT" -> [fs |-> t.fs, r |-> "NOT_FOUND", at |-> NULL]
          [] OTHER        -> t
  BY <1>2 DEF DirLookup, Ok, Result
<1>4. CASE t.r = "OK" /\ t.at \in Slots
  <2>1. DirLookup(s, ROOT, name) = [fs |-> u, r |-> "OK", at |-> t.at]
    BY <1>3, <1>4
  <2>2. /\ file \in SmallFile /\ file.ptr = File(t.fs, t.at).ptr
        /\ file.name = File(t.fs, t.at).name
    <3>1. 0 \in 0 .. NDIRECT /\ ROOT \in {NULL, ROOT} /\ NoName \in Names \union {NoName}
      BY FsAssumption
    <3>2. File(t.fs, t.at) \in SmallFile
      BY <1>1, <1>4, SlotIs
    <3> QED BY <3>1, <3>2, AttrFile
  <2> HIDE DEF file
  <2>3. FsOk(u) /\ Cached(u)
    BY <1>1, <1>4, <2>2, SetAttr
  <2> QED BY <1>4, <2>1, <2>3
<1>5. CASE t.r = "NEXT" /\ NoEntry(t.fs, name)
  <2>1. DirLookup(s, ROOT, name) = [fs |-> t.fs, r |-> "NOT_FOUND", at |-> NULL]
    BY <1>3, <1>5
  <2> QED BY <1>1, <1>5, <2>1
<1> QED BY <1>1, <1>4, <1>5

(* The root directory has room for one more name: it has a struct File for *)
(* each, and no name twice.                                                *)
LEMMA FreeSlot ==
  ASSUME SmallFiles, NEW s, FsOk(s), NEW name \in Names, NoEntry(s, name)
  PROVE  ~ NoEntry(s, NoName)
<1> SUFFICES ASSUME NoEntry(s, NoName) PROVE FALSE
  OBVIOUS
<1> DEFINE e == Directory(s)
           T == Names \ {name}
           g == [j \in FileSlot |-> e[j].name]
<1>1. e \in [FileSlot -> SmallFile]
  BY DEF FsOk, DirectoryOk
<1>2. IsFiniteSet(T) /\ Cardinality(T) < FILE2BLK
  <2>1. IsFiniteSet(Names) /\ Cardinality(Names) <= FILE2BLK
    BY DEF SmallFiles
  <2>2. IsFiniteSet(T) /\ Cardinality(T) = Cardinality(Names) - 1
    BY <2>1, FS_RemoveElement
  <2>3. Cardinality(Names) \in Nat
    BY <2>1, FS_CardinalityType
  <2> QED BY <2>1, <2>2, <2>3, FsAssumption
<1>3. IsFiniteSet(FileSlot) /\ Cardinality(FileSlot) = FILE2BLK
  BY FsAssumption, FS_Interval DEF FileSlot
<1>4. \A j \in FileSlot : e[j].name \in T
  <2> TAKE j \in FileSlot
  <2>1. e[j].name \in Names \union {NoName}
    BY <1>1 DEF SmallFile
  <2> QED BY <2>1 DEF NoEntry
<1>5. g \in [FileSlot -> T]
  BY <1>4
<1>6. \E x, y \in FileSlot : x # y /\ g[x] = g[y]
  <2> HIDE DEF g, T
  <2> QED BY <1>2, <1>3, <1>5, FS_PigeonHole
<1>7. PICK x \in FileSlot, y \in FileSlot : x # y /\ e[x].name = e[y].name
  BY <1>6
<1>8. e[x].name # NoName
  BY DEF NoEntry
<1> QED BY <1>7, <1>8 DEF FsOk, DirectoryOk

(* dir_alloc_file for a name that is not there: a struct File whose name   *)
(* is not set.                                                             *)
LEMMA DirAllocOk ==
  ASSUME SmallFiles, NEW s, FsOk(s), NEW name \in Names, NoEntry(s, name)
  PROVE  LET q == DirAllocFile(s, ROOT)
         IN  q.r = "OK" /\ SameFiles(s, q.fs) /\ Cached(q.fs) /\ q.at \in Slots
<1> DEFINE t == FindInBlock(s, ROOT, NoName, 0)
<1>1. FindEntry(s, ROOT, NoName) = t
  BY FindIs
<1>2. /\ SameFiles(s, t.fs) /\ Cached(t.fs)
      /\ \/ t.r = "OK" /\ t.at \in Slots
         \/ t.r = "NEXT" /\ NoEntry(t.fs, NoName)
  BY FindBlockOk
<1>3. ~ NoEntry(t.fs, NoName)
  BY <1>2, FreeSlot DEF SameFiles, NoEntry
<1>4. t.r = "OK" /\ t.at \in Slots /\ t.r # "NEXT"
  BY <1>2, <1>3
<1> HIDE DEF t
<1>5. DirAllocFile(s, ROOT) = t
  BY <1>1, <1>4 DEF DirAllocFile
<1> QED BY <1>2, <1>4, <1>5

(* What walk_path knows after k names of the path.                         *)
WalkedOk(s, w, path, k) ==
  /\ FsOk(w.fs) /\ (Cached(s) => Cached(w.fs)) /\ w.r # "PANIC"
  /\ w.r = "OK" => \/ k = 0 /\ w.at = ROOT
                   \/ k = 1 /\ w.at \in Slots /\ Cached(w.fs)
                        /\ File(w.fs, w.at).type = "REG"
  /\ w.r = "NOT_FOUND" /\ w.dir # NULL =>
       /\ w.dir = ROOT /\ Len(path) = 1 /\ path[1] \notin LongNames
       /\ NoEntry(w.fs, path[1])

LEMMA WalkNameOk ==
  ASSUME NEW s, NEW w, NEW path, NEW k \in Nat, WalkedOk(s, w, path, k), Len(path) \in Nat
  PROVE  WalkedOk(s, WalkName(w, path[k + 1], k + 1 = Len(path)), path, k + 1)
<1> DEFINE name == path[k + 1]
           last == k + 1 = Len(path)
           v == WalkName(w, name, last)
<1> SUFFICES WalkedOk(s, v, path, k + 1)
  OBVIOUS
<1>1. CASE w.r # "OK"
  <2>1. v = w
    BY <1>1 DEF WalkName
  <2> HIDE DEF v
  <2> QED BY <1>1, <2>1 DEF WalkedOk
<1>2. CASE w.r = "OK" /\ name \in LongNames
  <2>1. v = [fs |-> w.fs, r |-> "BAD_PATH", at |-> NULL, dir |-> NULL]
    BY <1>2 DEF WalkName, Walked
  <2> HIDE DEF v
  <2> QED BY <2>1 DEF WalkedOk
<1>3. CASE w.r = "OK" /\ name \notin LongNames /\ k # 0
  <2>1. File(w.fs, w.at).type # "DIR"
    BY <1>3 DEF WalkedOk
  <2>2. v = [fs |-> w.fs, r |-> "NOT_FOUND", at |-> NULL, dir |-> NULL]
    BY <1>3, <2>1 DEF WalkName, Walked
  <2> HIDE DEF v
  <2> QED BY <2>2 DEF WalkedOk
<1>4. CASE w.r = "OK" /\ name \notin LongNames /\ k = 0
  <2> DEFINE l == DirLookup(w.fs, ROOT, name)
  <2>1. w.at = ROOT /\ FsOk(w.fs)
    BY <1>4 DEF WalkedOk
  <2>2. File(w.fs, ROOT).type = "DIR"
    BY <2>1, RootIs
  <2>3. /\ FsOk(l.fs) /\ Cached(l.fs)
        /\ \/ l.r = "OK" /\ l.at \in Slots
           \/ l.r = "NOT_FOUND" /\ NoEntry(l.fs, name)
    BY <2>1, LookupOk
  <2>4. v = CASE l.r = "OK" -> [fs |-> l.fs, r |-> "OK", at |-> l.at, dir |-> ROOT]
              [] l.r = "NOT_FOUND" /\ last -> [fs |-> l.fs, r |-> l.r, at |-> NULL, dir |-> ROOT]
              [] OTHER -> [fs |-> l.fs, r |-> l.r, at |-> NULL, dir |-> NULL]
    BY <1>4, <2>1, <2>2 DEF WalkName, Walked
  <2> HIDE DEF l, v
  <2>5. CASE l.r = "OK" /\ l.at \in Slots
    <3>1. v = [fs |-> l.fs, r |-> "OK", at |-> l.at, dir |-> ROOT]
      BY <2>4, <2>5
    <3>2. File(l.fs, l.at).type = "REG"
      BY <2>3, <2>5, SlotIs DEF SmallFile
    <3> QED BY <1>4, <2>3, <2>5, <3>1, <3>2 DEF WalkedOk
  <2>6. CASE l.r = "NOT_FOUND" /\ NoEntry(l.fs, name) /\ last
    <3>1. v = [fs |-> l.fs, r |-> "NOT_FOUND", at |-> NULL, dir |-> ROOT]
      BY <2>4, <2>6
    <3> QED BY <1>4, <2>3, <2>6, <3>1 DEF WalkedOk
  <2>7. CASE l.r = "NOT_FOUND" /\ ~ last
    <3>1. v = [fs |-> l.fs, r |-> "NOT_FOUND", at |-> NULL, dir |-> NULL]
      BY <2>4, <2>7
    <3> QED BY <2>3, <3>1 DEF WalkedOk
  <2> QED BY <2>3, <2>5, <2>6, <2>7
<1> QED BY <1>1, <1>2, <1>3, <1>4

(* What holds at 0 and is passed on from one number to the next holds up   *)
(* to n.                                                                   *)
LEMMA UpTo ==
  ASSUME NEW n \in Nat, NEW S, 0 \in S, \A k \in 0 .. n - 1 : k \in S => k + 1 \in S
  PROVE  \A k \in 0 .. n : k \in S
<1> DEFINE Out == {k \in 0 .. n : k \notin S}
           m == Min(Out)
<1> SUFFICES ASSUME Out # {} PROVE FALSE
  OBVIOUS
<1>1. Out \in SUBSET Nat
  OBVIOUS
<1> HIDE DEF m
<1>2. m \in Out /\ \A y \in Out : m <= y
  BY <1>1, Least DEF m
<1>3. m \in 0 .. n /\ m # 0 /\ m \notin S
  BY <1>2
<1>4. m - 1 \in 0 .. n - 1 /\ (m - 1) + 1 = m
  BY <1>3
<1>5. m - 1 \notin Out
  BY <1>2, <1>3
<1> QED BY <1>3, <1>4, <1>5

(* The recursive function of WalkPath.                                     *)
IsWalk(walk, s, path, n) ==
  walk = [k \in 0 .. n |->
            IF k = 0 THEN Walked(s, "OK", ROOT, NULL)
            ELSE WalkName(walk[k - 1], path[k], k = Len(path))]

LEMMA WalkExists ==
  ASSUME NEW s, NEW path, NEW n \in Nat
  PROVE  \E walk : IsWalk(walk, s, path, n)
<1> DEFINE S == {m \in 0 .. n : \E walk : IsWalk(walk, s, path, m)}
           start == Walked(s, "OK", ROOT, NULL)
           Step(w, k) == WalkName(w, path[k], k = Len(path))
<1>1. 0 \in S
  <2> DEFINE f == [k \in 0 .. 0 |-> start]
  <2>1. f = [k \in 0 .. 0 |-> IF k = 0 THEN start ELSE Step(f[k - 1], k)]
    <3>1. \A k \in 0 .. 0 : k = 0
      OBVIOUS
    <3> QED BY <3>1, Zenon
  <2>2. IsWalk(f, s, path, 0)
    BY <2>1, Zenon DEF IsWalk
  <2> QED BY <2>2
<1>2. ASSUME NEW m \in 0 .. n - 1, m \in S PROVE m + 1 \in S
  <2>1. PICK f : IsWalk(f, s, path, m)
    BY <1>2
  <2>0. f = [k \in 0 .. m |-> IF k = 0 THEN start ELSE Step(f[k - 1], k)]
    BY <2>1, Zenon DEF IsWalk
  <2> DEFINE g == [k \in 0 .. m + 1 |-> IF k <= m THEN f[k] ELSE Step(f[m], m + 1)]
             h == [k \in 0 .. m + 1 |-> IF k = 0 THEN start ELSE Step(g[k - 1], k)]
  <2> HIDE DEF start, Step
  <2>2. ASSUME NEW k \in 0 .. m + 1 PROVE g[k] = h[k]
    <3>1. CASE k = 0
      BY <2>0, <3>1
    <3>2. CASE k \in 1 .. m
      <4>1. g[k - 1] = f[k - 1] /\ g[k] = f[k] /\ k \in 0 .. m /\ k # 0
        BY <3>2
      <4>2. f[k] = Step(f[k - 1], k)
        BY <2>0, <4>1
      <4> QED BY <4>1, <4>2
    <3>3. CASE k = m + 1
      <4>1. g[k - 1] = f[m] /\ g[k] = Step(f[m], m + 1) /\ k # 0
        BY <3>3
      <4> QED BY <3>3, <4>1
    <3> QED BY <3>1, <3>2, <3>3
  <2>3. g = h
    <3>1. g = [k \in 0 .. m + 1 |-> g[k]] /\ h = [k \in 0 .. m + 1 |-> h[k]]
      OBVIOUS
    <3> HIDE DEF g, h
    <3> QED BY <2>2, <3>1, Zenon
  <2>4. IsWalk(g, s, path, m + 1)
    BY <2>3, Zenon DEF IsWalk, start, Step
  <2>5. m + 1 \in 0 .. n
    OBVIOUS
  <2> QED BY <2>4, <2>5
<1>3. n \in S
  <2> HIDE DEF S
  <2>1. \A k \in 0 .. n : k \in S
    BY <1>1, <1>2, UpTo
  <2> QED BY <2>1
<1> QED BY <1>3

(* walk_path.                                                              *)
LEMMA WalkOk ==
  ASSUME NEW s, FsOk(s), NEW path, Len(path) \in Nat
  PROVE  WalkedOk(s, WalkPath(s, path), path, Len(path))
<1> DEFINE n == Len(path)
           walk == CHOOSE w : IsWalk(w, s, path, n)
           S == {k \in 0 .. n : WalkedOk(s, walk[k], path, k)}
<1>1. WalkPath(s, path) = walk[n]
  BY Zenon DEF WalkPath, IsWalk
<1>2. IsWalk(walk, s, path, n)
  BY WalkExists
<1> HIDE DEF walk
<1>3. 0 \in S
  <2>1. walk[0] = [fs |-> s, r |-> "OK", at |-> ROOT, dir |-> NULL]
    BY <1>2 DEF IsWalk, Walked
  <2>2. WalkedOk(s, walk[0], path, 0)
    BY <2>1 DEF WalkedOk
  <2> QED BY <2>2
<1>4. ASSUME NEW k \in 0 .. n - 1, k \in S PROVE k + 1 \in S
  <2>1. walk[k + 1] = WalkName(walk[k], path[k + 1], k + 1 = Len(path))
    <3>1. k + 1 \in 0 .. n /\ k + 1 # 0 /\ (k + 1) - 1 = k
      OBVIOUS
    <3>2. \A j \in 0 .. n : walk[j] = IF j = 0 THEN Walked(s, "OK", ROOT, NULL)
                                      ELSE WalkName(walk[j - 1], path[j], j = Len(path))
      BY <1>2, Zenon DEF IsWalk
    <3> HIDE DEF n
    <3> QED BY <3>1, <3>2
  <2>2. WalkedOk(s, WalkName(walk[k], path[k + 1], k + 1 = Len(path)), path, k + 1)
    BY <1>4, WalkNameOk
  <2> QED BY <2>1, <2>2
<1>5. n \in S
  <2>1. \A k \in 0 .. n : k \in S
    <3> HIDE DEF S
    <3> QED BY <1>3, <1>4, UpTo
  <2> QED BY <2>1
<1> QED BY <1>1, <1>5

(* The paths that the clients use.                                         *)
LEMMA PathIs ==
  ASSUME SmallFiles, NEW p \in Paths
  PROVE  Len(p) \in Nat /\ Len(p) > 0 /\ p \in Seq(Names) /\ (Len(p) = 1 => p[1] \in Names)
<1>1. p \in Seq(Names) /\ p # <<>>
  BY ServerAssumption DEF SmallFiles
<1> QED BY <1>1

(* What a request that finds a file may return.                            *)
Finds(s, q) ==
  /\ FsOk(q.fs) /\ (Cached(s) => Cached(q.fs)) /\ q.r # "PANIC"
  /\ q.r = "OK" => q.at \in Slots /\ Cached(q.fs)

(* file_open.                                                              *)
LEMMA FileOpenOk ==
  ASSUME SmallFiles, NEW s, FsOk(s), NEW p \in Paths
  PROVE  Finds(s, FileOpen(s, p))
<1>1. WalkedOk(s, WalkPath(s, p), p, Len(p)) /\ Len(p) # 0
  BY PathIs, WalkOk
<1> QED BY <1>1 DEF FileOpen, WalkedOk, Finds

(* file_create.                                                            *)
LEMMA FileCreateOk ==
  ASSUME SmallFiles, NEW s, FsOk(s), NEW p \in Paths
  PROVE  Finds(s, FileCreate(s, p))
<1> DEFINE w == WalkPath(s, p)
<1>1. WalkedOk(s, w, p, Len(p)) /\ Len(p) # 0
  BY PathIs, WalkOk
<1>2. FileCreate(s, p) =
        IF w.r = "OK" THEN [fs |-> w.fs, r |-> "FILE_EXISTS", at |-> NULL]
        ELSE IF w.r # "NOT_FOUND" \/ w.dir = NULL THEN w
        ELSE Then(DirAllocFile(w.fs, w.dir), LAMBDA d :
               Ok(SetFile(d.fs, d.at, [File(d.fs, d.at) EXCEPT !.name = p[Len(p)]]), d.at))
  BY DEF FileCreate, Result
<1> HIDE DEF w
<1>3. CASE w.r = "OK"
  <2>1. FileCreate(s, p) = [fs |-> w.fs, r |-> "FILE_EXISTS", at |-> NULL]
    BY <1>2, <1>3
  <2> QED BY <1>1, <2>1 DEF WalkedOk, Finds
<1>4. CASE w.r # "OK" /\ (w.r # "NOT_FOUND" \/ w.dir = NULL)
  <2>1. FileCreate(s, p) = w
    BY <1>2, <1>4
  <2> QED BY <1>1, <1>4, <2>1 DEF WalkedOk, Finds
<1>5. CASE w.r = "NOT_FOUND" /\ w.dir # NULL
  <2>1. /\ w.dir = ROOT /\ FsOk(w.fs) /\ Len(p) = 1 /\ NoEntry(w.fs, p[1]) /\ p[1] \in Names
    BY <1>1, <1>5, PathIs DEF WalkedOk
  <2> DEFINE d == DirAllocFile(w.fs, ROOT)
             file == [File(d.fs, d.at) EXCEPT !.name = p[1]]
             t == SetFile(d.fs, d.at, file)
  <2>2. d.r = "OK" /\ SameFiles(w.fs, d.fs) /\ Cached(d.fs) /\ d.at \in Slots
    BY <2>1, DirAllocOk
  <2>3. FileCreate(s, p) = [fs |-> t, r |-> "OK", at |-> d.at]
    <3>1. FileCreate(s, p) =
            IF d.r = "OK" THEN [fs |-> t, r |-> "OK", at |-> d.at] ELSE d
      BY <1>2, <1>5, <2>1 DEF Then, Ok, Result
    <3> HIDE DEF d
    <3> QED BY <2>2, <3>1
  <2> HIDE DEF d
  <2>4. FsOk(d.fs) /\ NoEntry(d.fs, p[1])
    BY <2>1, <2>2 DEF SameFiles, NoEntry
  <2>5. file \in SmallFile /\ file.ptr = File(d.fs, d.at).ptr /\ file.name = p[1]
    <3>1. File(d.fs, d.at) \in SmallFile
      BY <2>2, <2>4, SlotIs
    <3>2. 0 \in 0 .. NDIRECT /\ NULL \in {NULL, ROOT} /\ p[1] \in Names \union {NoName}
      BY <2>1, FsAssumption
    <3> QED BY <3>1, <3>2, AttrFile
  <2> HIDE DEF file
  <2>6. \A j \in FileSlot : Directory(d.fs)[j].name # file.name
    BY <2>4, <2>5 DEF NoEntry
  <2>7. FsOk(t) /\ Cached(t)
    BY <2>2, <2>4, <2>5, <2>6, SetAttr
  <2> HIDE DEF t
  <2> QED BY <2>2, <2>3, <2>7 DEF Finds
<1> QED BY <1>3, <1>4, <1>5

(* file_remove.                                                            *)
LEMMA FileRemoveOk ==
  ASSUME SmallFiles, NEW s, FsOk(s), NEW p \in Paths
  PROVE  LET q == FileRemove(s, p)
         IN  FsOk(q.fs) /\ (Cached(s) => Cached(q.fs)) /\ q.r # "PANIC"
<1> DEFINE w == WalkPath(s, p)
           t == FileTruncate(w.fs, w.at, 0)
           file == [File(t.fs, w.at) EXCEPT !.name = NoName]
           u == SetFile(t.fs, w.at, file)
<1>1. WalkedOk(s, w, p, Len(p)) /\ Len(p) # 0
  BY PathIs, WalkOk
<1>2. FileRemove(s, p) =
        IF w.r = "OK" THEN (IF t.r = "OK" THEN FlushDir(u, w.at) ELSE t) ELSE w
  BY DEF FileRemove, Then
<1> HIDE DEF w
<1>3. CASE w.r # "OK"
  BY <1>1, <1>2, <1>3 DEF WalkedOk
<1>4. CASE w.r = "OK"
  <2>1. w.at \in Slots /\ FsOk(w.fs) /\ Cached(w.fs)
    BY <1>1, <1>4 DEF WalkedOk
  <2>0. 0 \in 0 .. NDIRECT
    BY FsAssumption
  <2>2. t.r = "OK" /\ FsOk(t.fs) /\ Cached(t.fs)
    BY <2>0, <2>1, TruncateOk
  <2> HIDE DEF t
  <2>3. file \in SmallFile /\ file.ptr = File(t.fs, w.at).ptr /\ file.name = NoName
    <3>1. File(t.fs, w.at) \in SmallFile
      BY <2>1, <2>2, SlotIs
    <3>2. NULL \in {NULL, ROOT} /\ NoName \in Names \union {NoName}
      OBVIOUS
    <3> QED BY <2>0, <3>1, <3>2, AttrFile
  <2> HIDE DEF file
  <2>4. FsOk(u) /\ Cached(u)
    BY <2>1, <2>2, <2>3, SetAttr
  <2> HIDE DEF u
  <2>5. FlushDir(u, w.at).r = "OK" /\ SameFiles(u, FlushDir(u, w.at).fs)
    BY <2>1, <2>4, FlushDirOk
  <2> QED BY <1>2, <1>4, <2>2, <2>4, <2>5 DEF SameFiles
<1> QED BY <1>3, <1>4

(* The loop of file_close makes one turn, and marks the directory dirty.   *)
LEMMA DirtyIs ==
  ASSUME NEW s, FsOk(s), NEW f
  PROVE  DirtyEntry(s, ROOT, f) =
           DirtyInBlock(s, ROOT, f, 0)
<1> DEFINE one == DirtyInBlock(s, ROOT, f, 0)
           begin == Result(s, "NEXT", NULL)
           IsVisit(v) == v = [n \in 0 .. 1 |->
                           IF n = 0 THEN begin
                           ELSE LET t == v[n - 1]
                                IN IF t.r = "NEXT" THEN DirtyInBlock(t.fs, ROOT, f, n - 1) ELSE t]
           visit == CHOOSE v : IsVisit(v)
<1>1. DirtyEntry(s, ROOT, f) = visit[1]
  <2>1. File(s, ROOT).size = 1
    BY RootIs
  <2> QED BY <2>1, Zenon DEF DirtyEntry, EachBlock
<1>2. begin.r = "NEXT" /\ begin.fs = s
  BY DEF Result
<1> HIDE DEF begin
<1>3. IsVisit([n \in 0 .. 1 |-> IF n = 0 THEN begin ELSE one])
  <2> DEFINE w == [n \in 0 .. 1 |-> IF n = 0 THEN begin ELSE one]
             x == [n \in 0 .. 1 |->
                    IF n = 0 THEN begin
                    ELSE LET t == w[n - 1]
                         IN IF t.r = "NEXT" THEN DirtyInBlock(t.fs, ROOT, f, n - 1) ELSE t]
  <2>1. w[0] = begin
    OBVIOUS
  <2>2. \A n \in 0 .. 1 : w[n] = x[n]
    <3> HIDE DEF one
    <3>1. \A n \in 0 .. 1 : n = 0 \/ n = 1
      OBVIOUS
    <3>2. w[0] = x[0]
      OBVIOUS
    <3>3. x[1] = DirtyInBlock(s, ROOT, f, 0)
      BY <1>2, <2>1
    <3>4. w[1] = one
      OBVIOUS
    <3> QED BY <3>1, <3>2, <3>3, <3>4 DEF one
  <2>3. w = x
    <3>1. w = [n \in 0 .. 1 |-> w[n]] /\ x = [n \in 0 .. 1 |-> x[n]]
      OBVIOUS
    <3> HIDE DEF w, x
    <3> QED BY <2>2, <3>1, Zenon
  <2> QED BY <2>3, Zenon
<1>4. IsVisit(visit)
  BY <1>3, Zenon
<1> HIDE DEF visit
<1>5. visit[0] = begin
  BY <1>4
<1>6. visit[1] = IF visit[0].r = "NEXT" THEN DirtyInBlock(visit[0].fs, ROOT, f, 0) ELSE visit[0]
  BY <1>4
<1> QED BY <1>1, <1>2, <1>5, <1>6

LEMMA DirtyEntryOk ==
  ASSUME NEW s, FsOk(s), NEW f \in Slots
  PROVE  LET q == DirtyEntry(s, ROOT, f)
         IN  q.r = "OK" /\ FsOk(q.fs) /\ Cached(q.fs)
<1> DEFINE m == FileMapBlock(s, ROOT, 0, FALSE)
           b == ReadBlock(s, DIRBLOCK)
           q == DirtyBlock(b.fs, DIRBLOCK)
<1>1. m = [fs |-> s, r |-> "OK", at |-> DIRBLOCK]
  BY RootBlock
<1>2. b.r = "OK" /\ b.at = DIRBLOCK /\ FsOk(b.fs) /\ Cached(b.fs)
  BY RootBlock DEF SameFiles
<1>3. f # ROOT /\ f[1] = DIRBLOCK
  BY Places
<1>4. DirtyInBlock(s, ROOT, f, 0) = q
  <2>1. DirtyInBlock(s, ROOT, f, 0) =
          IF m.r = "PANIC" THEN m
          ELSE IF m.r # "OK" THEN Ok(m.fs, f)
          ELSE Then(ReadBlock(m.fs, m.at), LAMBDA c :
                 IF f # ROOT /\ c.at = f[1] THEN DirtyBlock(c.fs, c.at)
                 ELSE Result(c.fs, "NEXT", NULL))
    BY Zenon DEF DirtyInBlock
  <2> HIDE DEF m
  <2>2. DirtyInBlock(s, ROOT, f, 0) =
          Then(b, LAMBDA c : IF f # ROOT /\ c.at = f[1] THEN DirtyBlock(c.fs, c.at)
                             ELSE Result(c.fs, "NEXT", NULL))
    BY <1>1, <2>1
  <2> HIDE DEF b
  <2> QED BY <1>2, <1>3, <2>2 DEF Then
<1> HIDE DEF b
<1>5. BlockIsMapped(b.fs, DIRBLOCK)
  BY <1>2, Places DEF BlockIsMapped, Cached
<1>6. SameFiles(b.fs, q.fs) /\ q.r = "OK"
  BY <1>2, <1>5, DirtyBlockOk
<1> HIDE DEF q
<1>7. DirtyEntry(s, ROOT, f) = q
  BY <1>4, DirtyIs
<1> QED BY <1>2, <1>6, <1>7 DEF SameFiles

(* file_close.                                                             *)
LEMMA FileCloseOk ==
  ASSUME NEW s, FsOk(s), Cached(s), NEW f \in Slots
  PROVE  Answers(FileClose(s, f))
<1> DEFINE t == FileFlush(s, f)
           dir == File(t.fs, f).dir
           d == DirtyEntry(t.fs, ROOT, f)
           l == FileFlush(d.fs, ROOT)
<1>1. t.r = "OK" /\ FsOk(t.fs) /\ Cached(t.fs)
  BY FlushOk DEF IsFile, SameFiles
<1>2. FileClose(s, f) =
        CASE dir = NULL -> t
          [] dir = Wild -> Panic(t.fs, "wild pointer")
          [] OTHER      -> LET q == DirtyEntry(t.fs, dir, f)
                           IN IF q.r = "PANIC" THEN q ELSE FileFlush(q.fs, dir)
  <2>1. FileClose(s, f) = IF t.r = "OK" THEN
           (CASE dir = NULL -> t
              [] dir = Wild -> Panic(t.fs, "wild pointer")
              [] OTHER      -> LET q == DirtyEntry(t.fs, dir, f)
                               IN IF q.r = "PANIC" THEN q ELSE FileFlush(q.fs, dir))
           ELSE t
    BY Zenon DEF FileClose, Then
  <2> HIDE DEF t
  <2> QED BY <1>1, <2>1, Zenon
<1> HIDE DEF t
<1>3. dir \in {NULL, ROOT}
  BY <1>1, SlotIs DEF SmallFile
<1> HIDE DEF dir
<1>4. CASE dir = NULL
  <2>1. FileClose(s, f) = t
    BY <1>2, <1>4, FsAssumption
  <2> QED BY <1>1, <2>1 DEF Answers
<1>5. CASE dir = ROOT
  <2>1. d.r = "OK" /\ FsOk(d.fs) /\ Cached(d.fs)
    BY <1>1, DirtyEntryOk
  <2>2. FileClose(s, f) = IF d.r = "PANIC" THEN d ELSE FileFlush(d.fs, ROOT)
    BY <1>2, <1>5, FsAssumption
  <2> HIDE DEF d
  <2>3. l.r = "OK" /\ SameFiles(d.fs, l.fs)
    BY <2>1, FlushOk DEF IsFile
  <2>4. FileClose(s, f) = l
    BY <2>1, <2>2
  <2> HIDE DEF l
  <2> QED BY <2>1, <2>3, <2>4 DEF Answers, SameFiles
<1> QED BY <1>3, <1>4, <1>5

(* serve_open, after open_alloc.                                           *)
LEMMA ServeOpenOk ==
  ASSUME SmallFiles, FsOk(fs), NEW p \in Paths, NEW mode \in Modes
  PROVE  Finds(fs, ServeOpen(p, mode))
<1> DEFINE o == IF "CREAT" \in mode THEN FileCreate(fs, p) ELSE FileOpen(fs, p)
           z == FileSetSize(o.fs, o.at, 0)
<1>1. Finds(fs, o)
  BY FileOpenOk, FileCreateOk
<1>2. ServeOpen(p, mode) =
        IF o.r = "OK" THEN
          (IF "MKDIR" \in mode /\ File(o.fs, o.at).type # "DIR"
           THEN [fs |-> o.fs, r |-> "NOT_A_DIR", at |-> NULL]
           ELSE IF "TRUNC" \notin mode THEN [fs |-> o.fs, r |-> "OK", at |-> o.at]
           ELSE IF z.r = "OK" THEN [fs |-> z.fs, r |-> "OK", at |-> o.at] ELSE z)
        ELSE o
  <2>1. ~ {"CREAT", "MKDIR"} \subseteq mode
    BY DEF SmallFiles
  <2> QED BY <2>1 DEF ServeOpen, Then, Ok, Result
<1> HIDE DEF o
<1>3. CASE o.r # "OK"
  BY <1>1, <1>2, <1>3 DEF Finds
<1>4. CASE o.r = "OK" /\ "MKDIR" \in mode /\ File(o.fs, o.at).type # "DIR"
  <2>1. ServeOpen(p, mode) = [fs |-> o.fs, r |-> "NOT_A_DIR", at |-> NULL]
    BY <1>2, <1>4
  <2> QED BY <1>1, <2>1 DEF Finds
<1>5. CASE /\ o.r = "OK" /\ ~ ("MKDIR" \in mode /\ File(o.fs, o.at).type # "DIR")
           /\ "TRUNC" \notin mode
  <2>1. ServeOpen(p, mode) = [fs |-> o.fs, r |-> "OK", at |-> o.at]
    BY <1>2, <1>5
  <2> QED BY <1>1, <1>5, <2>1 DEF Finds
<1>6. CASE /\ o.r = "OK" /\ ~ ("MKDIR" \in mode /\ File(o.fs, o.at).type # "DIR")
           /\ "TRUNC" \in mode
  <2>1. o.at \in Slots /\ FsOk(o.fs) /\ Cached(o.fs) /\ 0 \in 0 .. NDIRECT
    BY <1>1, <1>6, FsAssumption DEF Finds
  <2>2. z.r = "OK" /\ FsOk(z.fs) /\ Cached(z.fs)
    BY <2>1, SetSizeOk
  <2> HIDE DEF z
  <2>3. ServeOpen(p, mode) = [fs |-> z.fs, r |-> "OK", at |-> o.at]
    BY <1>2, <1>6, <2>2
  <2> QED BY <2>1, <2>2, <2>3 DEF Finds
<1> QED BY <1>3, <1>4, <1>5, <1>6

-----------------------------------------------------------------------------
(* The server and its clients: DiskInv in the parts that a step of one     *)
(* client leaves alone or changes.                                         *)
EntryIs(k) ==
  /\ opentab[k] \in [page : BOOLEAN, file : Slots \union {NULL}, size : 0 .. NDIRECT]
  /\ opentab[k].file # NULL => Cached(fs)

ClientOk(c) ==
  /\ pc[c] \in Stages
  /\ IF fd[c] = NULL THEN pc[c] \in {"idle", "hung"} ELSE pc[c] # "idle"
  /\ i[c] \in Nat /\ old[c] \in 0 .. NDIRECT /\ val[c] \in Vals \union {NULL}
  /\ va[c] \in [0 .. NINDIRECT - 1 -> (Block \ {DIRBLOCK}) \union {0}]
  /\ fd[c] # NULL => opentab[fd[c]].file # NULL
  /\ IF pc[c] \in {"map", "grow", "dirty"} THEN i[c] < Size(c) ELSE i[c] = 0
  /\ pc[c] = "copy" => Size(c) > 0

IsOnClients(x) == x = [c \in Clients |-> x[c]]
Domains ==
  /\ opentab = [k \in FileId |-> opentab[k]]
  /\ IsOnClients(va) /\ IsOnClients(pc) /\ IsOnClients(i) /\ IsOnClients(old) /\ IsOnClients(val)

LEMMA Parts ==
  ASSUME DiskInv
  PROVE  /\ FsOk(fs) /\ OpentabOk /\ OpenEntryExclusive /\ Domains
         /\ \A k \in FileId : EntryIs(k)
         /\ \A c \in Clients : ClientOk(c)
<1>1. FsOk(fs) /\ OpentabOk /\ OpenEntryExclusive
  BY DEF DiskInv, TypeOK
<1>2. Domains
  <2>1. opentab = [k \in FileId |-> opentab[k]]
    BY DEF DiskInv, TypeOK
  <2>2. IsOnClients(va) /\ IsOnClients(pc)
    BY DEF DiskInv, TypeOK, IsOnClients
  <2>3. IsOnClients(i) /\ IsOnClients(old) /\ IsOnClients(val)
    BY DEF DiskInv, TypeOK, IsOnClients
  <2> QED BY <2>1, <2>2, <2>3 DEF Domains
<1>3. ASSUME NEW k \in FileId PROVE EntryIs(k)
  <2>1. opentab[k] \in [page : BOOLEAN, file : Loc \union {NULL}, size : Nat]
    BY DEF DiskInv, TypeOK
  <2>2. /\ opentab[k].size <= NDIRECT
        /\ opentab[k].file # NULL => opentab[k].file \in Slots /\ fs.cache[DIRBLOCK] # NotMapped
    BY DEF DiskInv, OpenOk
  <2> QED BY <2>1, <2>2, FsAssumption DEF EntryIs, Cached
<1>4. ASSUME NEW c \in Clients PROVE ClientOk(c)
  <2>1. va[c] \in [0 .. NINDIRECT - 1 -> (Block \ {DIRBLOCK}) \union {0}]
    <3>1. va[c] \in [0 .. NINDIRECT - 1 -> Block \union {0}]
      BY DEF DiskInv, TypeOK
    <3>2. \A n \in 0 .. NINDIRECT - 1 : va[c][n] # DIRBLOCK
      BY DEF DiskInv, PagesOk
    <3> QED BY <3>1, <3>2
  <2>2. /\ pc[c] \in Stages /\ i[c] \in Nat /\ old[c] \in Nat /\ val[c] \in Vals \union {NULL}
        /\ IF fd[c] = NULL THEN pc[c] \in {"idle", "hung"} ELSE pc[c] # "idle"
    BY DEF DiskInv, TypeOK
  <2>3. old[c] \in 0 .. NDIRECT
    BY <2>2, FsAssumption DEF DiskInv, RequestsOk
  <2>4. /\ IF pc[c] \in {"map", "grow", "dirty"} THEN i[c] < Size(c) ELSE i[c] = 0
        /\ pc[c] = "copy" => Size(c) > 0
        /\ fd[c] # NULL => opentab[fd[c]].file # NULL
    BY DEF DiskInv, RequestsOk, OpenOk
  <2> QED BY <2>1, <2>2, <2>3, <2>4 DEF ClientOk
<1> QED BY <1>1, <1>2, <1>3, <1>4

LEMMA Whole ==
  ASSUME FsOk(fs)', OpentabOk', OpenEntryExclusive', Domains',
         \A k \in FileId : EntryIs(k)', \A c \in Clients : ClientOk(c)'
  PROVE  DiskInv'
<1>1. TypeOK'
  <2>1. /\ (fs.bitmap \in [Block -> BOOLEAN])'
        /\ (fs.dirty \subseteq {b \in Block : fs.cache[b] # NotMapped})'
    BY DEF FsOk
  <2>2. (opentab \in [FileId -> [page : BOOLEAN, file : Loc \union {NULL}, size : Nat]])'
    <3>1. opentab' = [k \in FileId |-> opentab'[k]]
      BY DEF Domains
    <3>2. Slots \subseteq Loc
      BY Places DEF Slots, Loc
    <3>3. \A k \in FileId : opentab'[k] \in [page : BOOLEAN, file : Loc \union {NULL}, size : Nat]
      BY <3>2, FsAssumption DEF EntryIs
    <3> QED BY <3>1, <3>3
  <2>3. (va \in [Clients -> [0 .. NINDIRECT - 1 -> Block \union {0}]])'
    <3>1. \A c \in Clients : va'[c] \in [0 .. NINDIRECT - 1 -> Block \union {0}]
      BY DEF ClientOk
    <3> QED BY <3>1 DEF Domains, IsOnClients
  <2>4. (i \in [Clients -> Nat] /\ old \in [Clients -> Nat])'
    BY FsAssumption DEF ClientOk, Domains, IsOnClients
  <2>5. (val \in [Clients -> Vals \union {NULL}] /\ pc \in [Clients -> Stages])'
    BY DEF ClientOk, Domains, IsOnClients
  <2>6. \A c \in Clients :
          IF fd'[c] = NULL THEN pc'[c] \in {"idle", "hung"} ELSE pc'[c] # "idle"
    BY DEF ClientOk
  <2> QED BY <2>1, <2>2, <2>3, <2>4, <2>5, <2>6 DEF TypeOK
<1>2. OpenOk'
  BY FsAssumption DEF OpenOk, EntryIs, ClientOk, Cached
<1>3. RequestsOk'
  <2> SUFFICES ASSUME NEW c \in Clients
               PROVE  /\ IF pc'[c] \in {"map", "grow", "dirty"} THEN i'[c] < opentab'[fd'[c]].size ELSE i'[c] = 0
                      /\ pc'[c] = "copy" => opentab'[fd'[c]].size > 0
                      /\ old'[c] <= NDIRECT
    BY DEF RequestsOk, Size
  <2>2. ClientOk(c)'
    OBVIOUS
  <2>3. old'[c] <= NDIRECT
    BY <2>2, FsAssumption DEF ClientOk
  <2>4. IF pc'[c] \in {"map", "grow", "dirty"} THEN i'[c] < opentab'[fd'[c]].size ELSE i'[c] = 0
    BY <2>2 DEF ClientOk, Size
  <2>5. pc'[c] = "copy" => opentab'[fd'[c]].size > 0
    BY <2>2 DEF ClientOk, Size
  <2> QED BY <2>3, <2>4, <2>5
<1>4. PagesOk'
  <2> SUFFICES ASSUME NEW c \in Clients, NEW n \in 0 .. NINDIRECT - 1 PROVE va'[c][n] # DIRBLOCK
    BY DEF PagesOk
  <2>1. va'[c] \in [0 .. NINDIRECT - 1 -> (Block \ {DIRBLOCK}) \union {0}]
    BY DEF ClientOk
  <2> QED BY <2>1, Places
<1> QED BY <1>1, <1>2, <1>3, <1>4 DEF DiskInv

(* y is x but for the value at c.                                          *)
Only(x, y, c) == IsOnClients(y) /\ \A d \in Clients \ {c} : y[d] = x[d]

LEMMA OnlyAt ==
  ASSUME NEW x, IsOnClients(x), NEW c \in Clients, NEW v
  PROVE  /\ Only(x, x, c)
         /\ Only(x, [x EXCEPT ![c] = v], c) /\ [x EXCEPT ![c] = v][c] = v
BY DEF Only, IsOnClients

(* A step of client c.                                                     *)
LEMMA ClientStep ==
  ASSUME DiskInv, NEW c \in Clients,
         FsOk(fs'), OpentabOk', OpenEntryExclusive',
         opentab' = [k \in FileId |-> opentab'[k]], \A k \in FileId : EntryIs(k)',
         Only(pc, pc', c), Only(i, i', c), Only(old, old', c), Only(val, val', c),
         Only(va, va', c), ClientOk(c)',
         \A d \in Clients \ {c} :
           fd'[d] = fd[d] /\ (fd[d] # NULL => opentab'[fd[d]] = opentab[fd[d]])
  PROVE  DiskInv'
<1>1. Domains'
  BY DEF Domains, Only, IsOnClients
<1>2. ASSUME NEW d \in Clients \ {c} PROVE ClientOk(d)'
  <2>1. ClientOk(d)
    BY Parts
  <2>2. /\ pc'[d] = pc[d] /\ i'[d] = i[d] /\ old'[d] = old[d] /\ val'[d] = val[d]
        /\ va'[d] = va[d] /\ fd'[d] = fd[d]
        /\ fd[d] # NULL => opentab'[fd[d]] = opentab[fd[d]]
    BY DEF Only
  <2>3. CASE fd[d] # NULL
    <3>1. opentab'[fd'[d]] = opentab[fd[d]]
      BY <2>2, <2>3
    <3> QED BY <2>1, <2>2, <3>1 DEF ClientOk, Size
  <2>4. CASE fd[d] = NULL
    <3>1. pc[d] \notin {"map", "grow", "dirty"} /\ pc[d] # "copy"
      BY <2>1, <2>4 DEF ClientOk
    <3>2. /\ pc[d] \in Stages /\ pc[d] \in {"idle", "hung"} /\ i[d] \in Nat /\ i[d] = 0
          /\ old[d] \in 0 .. NDIRECT /\ val[d] \in Vals \union {NULL}
          /\ va[d] \in [0 .. NINDIRECT - 1 -> (Block \ {DIRBLOCK}) \union {0}]
      BY <2>1, <2>4, <3>1 DEF ClientOk
    <3> QED BY <2>2, <2>4, <3>1, <3>2 DEF ClientOk
  <2> QED BY <2>3, <2>4
<1>3. \A d \in Clients : ClientOk(d)'
  BY <1>2
<1>4. FsOk(fs)'
  OBVIOUS
<1> QED BY <1>1, <1>3, <1>4, Whole

(* A step that leaves the open file table alone.                           *)
LEMMA RequestStep ==
  ASSUME DiskInv, NEW c \in Clients,
         FsOk(fs'), Cached(fs) => Cached(fs'), opentab' = opentab, fd' = fd,
         Only(pc, pc', c), Only(i, i', c), Only(old, old', c), Only(val, val', c),
         Only(va, va', c), ClientOk(c)'
  PROVE  DiskInv'
<1>1. OpentabOk /\ OpenEntryExclusive /\ Domains /\ \A k \in FileId : EntryIs(k)
  BY Parts
<1>2. OpentabOk' /\ OpenEntryExclusive'
  BY <1>1, CloseTable
<1>3. opentab' = [k \in FileId |-> opentab'[k]]
  BY <1>1 DEF Domains
<1>4. \A k \in FileId : EntryIs(k)'
  BY <1>1 DEF EntryIs
<1>5. \A d \in Clients \ {c} :
        fd'[d] = fd[d] /\ (fd[d] # NULL => opentab'[fd[d]] = opentab[fd[d]])
  OBVIOUS
<1> QED BY <1>2, <1>3, <1>4, <1>5, ClientStep

(* The file of a client that has one open.                                 *)
LEMMA Opened ==
  ASSUME DiskInv, NEW c \in Clients, fd[c] # NULL
  PROVE  /\ fd[c] \in FileId /\ OFile(c) \in Slots /\ FsOk(fs) /\ Cached(fs)
         /\ Size(c) \in 0 .. NDIRECT
<1>1. FsOk(fs) /\ OpentabOk /\ ClientOk(c) /\ \A k \in FileId : EntryIs(k)
  BY Parts
<1>2. fd[c] \in FileId
  BY <1>1 DEF OpentabOk
<1>3. opentab[fd[c]].file # NULL
  BY <1>1 DEF ClientOk
<1> QED BY <1>1, <1>2, <1>3 DEF EntryIs, OFile, Size

(* What a request on an open file may return.                              *)
LEMMA RequestOk ==
  ASSUME DiskInv, NEW c \in Clients, fd[c] # NULL
  PROVE  /\ \A n \in Direct : LET t == ServeMap(c, n)
                              IN  Answers(t) /\ (t.r = "OK" => t.at \in Block \ {DIRBLOCK})
         /\ \A n \in Direct : Answers(ServeDirty(c, n))
         /\ \A n \in 0 .. NDIRECT : Answers(ServeSetSize(c, n))
         /\ Answers(ServeClose(c))
<1>1. OFile(c) \in Slots /\ FsOk(fs) /\ Cached(fs)
  BY Opened
<1>2. \A t : OpenLookup(c, t) = t \/ OpenLookup(c, t) = [fs |-> fs, r |-> "INVAL", at |-> NULL]
  BY DEF OpenLookup, Result
<1>3. \A t : Answers(t) => Answers(OpenLookup(c, t)) /\ (OpenLookup(c, t).r = "OK" => OpenLookup(c, t) = t)
  BY <1>1, <1>2 DEF Answers
<1>4. ASSUME NEW n \in Direct
      PROVE  LET t == ServeMap(c, n)
             IN  Answers(t) /\ (t.r = "OK" => t.at \in Block \ {DIRBLOCK})
  <2> DEFINE q == FileGetBlock(fs, OFile(c), n)
  <2>1. Answers(q) /\ (q.r = "OK" => q.at \in Block /\ q.at # DIRBLOCK)
    BY <1>1, GetOk
  <2>2. ServeMap(c, n) = OpenLookup(c, q)
    BY DEF ServeMap
  <2> HIDE DEF q
  <2> QED BY <1>3, <2>1, <2>2
<1>5. ASSUME NEW n \in Direct PROVE Answers(ServeDirty(c, n))
  <2>1. Answers(FileDirty(fs, OFile(c), n))
    BY <1>1, FileDirtyOk
  <2> QED BY <1>3, <2>1 DEF ServeDirty
<1>6. ASSUME NEW n \in 0 .. NDIRECT PROVE Answers(ServeSetSize(c, n))
  <2> DEFINE q == FileSetSize(fs, OFile(c), n)
  <2>1. q.r = "OK" /\ FsOk(q.fs) /\ Cached(q.fs)
    BY <1>1, SetSizeOk
  <2> HIDE DEF q
  <2>2. Answers(q)
    BY <2>1 DEF Answers
  <2> QED BY <1>3, <2>2 DEF ServeSetSize, q
<1>7. Answers(ServeClose(c))
  <2>1. Answers(FileClose(fs, OFile(c)))
    BY <1>1, FileCloseOk
  <2> QED BY <1>3, <2>1 DEF ServeClose
<1> QED BY <1>4, <1>5, <1>6, <1>7

(* The reply to a client.                                                  *)
LEMMA ReplyOk ==
  ASSUME DiskInv, NEW c \in Clients, NEW t, NEW next, FsOk(t.fs), t.r # "PANIC",
         Reply(c, t, next)
  PROVE  /\ fs' = t.fs /\ FsOk(fs') /\ pc' = [pc EXCEPT ![c] = next]
         /\ Only(pc, pc', c) /\ pc'[c] = next
<1>1. fs' = t.fs /\ pc' = [pc EXCEPT ![c] = next]
  BY DEF Reply
<1>2. IsOnClients(pc)
  BY Parts DEF Domains
<1> QED BY <1>1, <1>2, OnlyAt

(* The loops over fsipc_map.                                               *)
LEMMA PageOk ==
  ASSUME DiskInv, NEW c \in Clients, NEW n \in Direct, NEW b \in Block \ {DIRBLOCK},
         va' = va \/ va' = [va EXCEPT ![c][n] = b]
  PROVE  /\ Only(va, va', c)
         /\ va'[c] \in [0 .. NINDIRECT - 1 -> (Block \ {DIRBLOCK}) \union {0}]
<1>1. IsOnClients(va) /\ va[c] \in [0 .. NINDIRECT - 1 -> (Block \ {DIRBLOCK}) \union {0}]
  BY Parts DEF Domains, ClientOk
<1> DEFINE w == [va[c] EXCEPT ![n] = b]
<1>2. va' = va \/ va' = [va EXCEPT ![c] = w]
  OBVIOUS
<1>3. w \in [0 .. NINDIRECT - 1 -> (Block \ {DIRBLOCK}) \union {0}]
  BY <1>1
<1> HIDE DEF w
<1>4. /\ Only(va, va, c)
      /\ Only(va, [va EXCEPT ![c] = w], c) /\ [va EXCEPT ![c] = w][c] = w
  BY <1>1, OnlyAt
<1>5. CASE va' = va
  BY <1>1, <1>4, <1>5
<1>6. CASE va' = [va EXCEPT ![c] = w]
  BY <1>3, <1>4, <1>6
<1> QED BY <1>2, <1>5, <1>6

LEMMA OpenMapOk ==
  ASSUME DiskInv, NEW c \in Clients, OpenMap(c)
  PROVE  DiskInv'
<1> DEFINE t == ServeMap(c, i[c])
           next == IF t.r # "OK" THEN "leak" ELSE IF i[c] + 1 < Size(c) THEN "map" ELSE "ready"
           n == IF t.r = "OK" /\ i[c] + 1 < Size(c) THEN i[c] + 1 ELSE 0
<1>1. ClientOk(c) /\ Domains
  BY Parts
<1>2. pc[c] = "map" /\ fd[c] # NULL /\ i[c] \in Nat /\ i[c] < Size(c)
  BY <1>1 DEF OpenMap, ClientOk
<1>3. Size(c) \in 0 .. NDIRECT /\ i[c] \in Direct
  BY <1>2, Opened, FsAssumption DEF Direct
<1>4. Answers(t) /\ (t.r = "OK" => t.at \in Block \ {DIRBLOCK})
  BY <1>2, <1>3, RequestOk
<1>5. /\ Reply(c, t, next) /\ i' = [i EXCEPT ![c] = n]
      /\ va' = (IF t.r = "OK" THEN [va EXCEPT ![c][i[c]] = t.at] ELSE va)
      /\ opentab' = opentab /\ fd' = fd /\ old' = old /\ val' = val
  BY Zenon DEF OpenMap
<1> HIDE DEF t
<1>6. next \in {"leak", "map", "ready"} /\ (next = "map" => n < Size(c)) /\ (next # "map" => n = 0)
      /\ n \in Nat
  BY <1>2
<1> HIDE DEF next, n
<1>7. fs' = t.fs /\ FsOk(fs') /\ Only(pc, pc', c) /\ pc'[c] = next
  BY <1>4, <1>5, ReplyOk DEF Answers
<1>8. Only(i, i', c) /\ i'[c] = n /\ Only(old, old', c) /\ Only(val, val', c)
  BY <1>1, <1>5, OnlyAt DEF Domains
<1>9. /\ Only(va, va', c)
      /\ va'[c] \in [0 .. NINDIRECT - 1 -> (Block \ {DIRBLOCK}) \union {0}]
  <2>1. CASE t.r = "OK"
    BY <1>3, <1>4, <1>5, <2>1, PageOk
  <2>2. CASE t.r # "OK"
    <3>1. 4 \in Block \ {DIRBLOCK}
      BY Places DEF DIRBLOCK
    <3> QED BY <1>3, <1>5, <2>2, <3>1, PageOk
  <2> QED BY <2>1, <2>2
<1>10. ClientOk(c)'
  BY <1>1, <1>2, <1>5, <1>6, <1>7, <1>8, <1>9 DEF ClientOk, Size, Stages
<1>11. Cached(fs) => Cached(fs')
  BY <1>4, <1>7 DEF Answers
<1> QED BY <1>5, <1>7, <1>8, <1>9, <1>10, <1>11, RequestStep

LEMMA GrowOk ==
  ASSUME DiskInv, NEW c \in Clients, Grow(c)
  PROVE  DiskInv'
<1> DEFINE t == ServeMap(c, i[c])
           last == i[c] + 1 = Size(c)
           next == IF t.r # "OK" THEN "undo"
                   ELSE IF ~last THEN "grow"
                   ELSE IF val[c] = NULL THEN "ready" ELSE "copy"
           n == IF t.r = "OK" /\ ~last THEN i[c] + 1 ELSE 0
<1>1. ClientOk(c) /\ Domains
  BY Parts
<1>2. pc[c] = "grow" /\ fd[c] # NULL /\ i[c] \in Nat /\ i[c] < Size(c)
  BY <1>1 DEF Grow, ClientOk
<1>3. Size(c) \in 0 .. NDIRECT /\ i[c] \in Direct
  BY <1>2, Opened, FsAssumption DEF Direct
<1>4. Answers(t) /\ (t.r = "OK" => t.at \in Block \ {DIRBLOCK})
  BY <1>2, <1>3, RequestOk
<1>5. /\ Reply(c, t, next) /\ i' = [i EXCEPT ![c] = n]
      /\ va' = (IF t.r = "OK" THEN [va EXCEPT ![c][i[c]] = t.at] ELSE va)
      /\ opentab' = opentab /\ fd' = fd /\ old' = old /\ val' = val
  BY Zenon DEF Grow
<1> HIDE DEF t
<1>6. next \in {"undo", "grow", "ready", "copy"} /\ (next = "grow" => n < Size(c))
      /\ (next # "grow" => n = 0) /\ n \in Nat
  BY <1>2, <1>3
<1> HIDE DEF next, n
<1>7. fs' = t.fs /\ FsOk(fs') /\ Only(pc, pc', c) /\ pc'[c] = next
  BY <1>4, <1>5, ReplyOk DEF Answers
<1>8. Only(i, i', c) /\ i'[c] = n /\ Only(old, old', c) /\ Only(val, val', c)
  BY <1>1, <1>5, OnlyAt DEF Domains
<1>9. /\ Only(va, va', c)
      /\ va'[c] \in [0 .. NINDIRECT - 1 -> (Block \ {DIRBLOCK}) \union {0}]
  <2>1. CASE t.r = "OK"
    BY <1>3, <1>4, <1>5, <2>1, PageOk
  <2>2. CASE t.r # "OK"
    <3>1. 4 \in Block \ {DIRBLOCK}
      BY Places DEF DIRBLOCK
    <3> QED BY <1>3, <1>5, <2>2, <3>1, PageOk
  <2> QED BY <2>1, <2>2
<1>10. Size(c) > 0
  BY <1>2, <1>3
<1>11. ClientOk(c)'
  BY <1>1, <1>2, <1>5, <1>6, <1>7, <1>8, <1>9, <1>10 DEF ClientOk, Size, Stages
<1>12. Cached(fs) => Cached(fs')
  BY <1>4, <1>7 DEF Answers
<1> QED BY <1>5, <1>7, <1>8, <1>9, <1>11, <1>12, RequestStep

(* A request after which the client has the pages it had.                  *)
LEMMA SimpleStep ==
  ASSUME DiskInv, NEW c \in Clients, fd[c] # NULL, NEW t, Answers(t), NEW next,
         next \in Stages \ {"idle", "hung", "copy"}, Reply(c, t, next),
         opentab' = opentab, fd' = fd, va' = va,
         NEW n \in Nat, IF next \in {"map", "grow", "dirty"} THEN n < Size(c) ELSE n = 0,
         i' = [i EXCEPT ![c] = n],
         \/ old' = old /\ val' = val
         \/ old' = [old EXCEPT ![c] = 0] /\ val' = [val EXCEPT ![c] = NULL]
  PROVE  DiskInv'
<1>1. ClientOk(c) /\ Domains
  BY Parts
<1>2. fs' = t.fs /\ FsOk(fs') /\ Only(pc, pc', c) /\ pc'[c] = next
  BY ReplyOk DEF Answers
<1>3. Only(i, i', c) /\ i'[c] = n /\ Only(va, va', c)
  BY <1>1, OnlyAt DEF Domains
<1>4. /\ Only(old, old', c) /\ old'[c] \in 0 .. NDIRECT
      /\ Only(val, val', c) /\ val'[c] \in Vals \union {NULL}
  <2>1. old[c] \in 0 .. NDIRECT /\ val[c] \in Vals \union {NULL} /\ 0 \in 0 .. NDIRECT
    BY <1>1, FsAssumption DEF ClientOk
  <2>2. CASE old' = old /\ val' = val
    BY <1>1, <2>1, <2>2, OnlyAt DEF Domains
  <2>3. CASE old' = [old EXCEPT ![c] = 0] /\ val' = [val EXCEPT ![c] = NULL]
    BY <1>1, <2>1, <2>3, OnlyAt DEF Domains
  <2> QED BY <2>2, <2>3
<1>5. ClientOk(c)'
  BY <1>1, <1>2, <1>3, <1>4 DEF ClientOk, Size
<1>6. Cached(fs) => Cached(fs')
  BY <1>2 DEF Answers
<1> QED BY <1>2, <1>3, <1>4, <1>5, <1>6, RequestStep

LEMMA SimpleOk ==
  ASSUME DiskInv, NEW c \in Clients, Undo(c) \/ Dirty(c) \/ CloseFile(c)
  PROVE  DiskInv'
<1>1. ClientOk(c) /\ Domains
  BY Parts
<1>2. i = [i EXCEPT ![c] = i[c]]
  BY <1>1 DEF Domains, IsOnClients
<1>3. CASE Undo(c)
  <2>1. pc[c] = "undo" /\ fd[c] # NULL /\ i[c] = 0
    BY <1>1, <1>3 DEF Undo, ClientOk
  <2> DEFINE t == ServeSetSize(c, old[c])
  <2>2. Answers(t)
    BY <1>1, <2>1, RequestOk DEF ClientOk
  <2>3. /\ Reply(c, t, "ready") /\ opentab' = opentab /\ fd' = fd /\ va' = va
        /\ i' = [i EXCEPT ![c] = 0]
        /\ old' = [old EXCEPT ![c] = 0] /\ val' = [val EXCEPT ![c] = NULL]
    <3>1. /\ Reply(c, t, "ready") /\ opentab' = opentab /\ fd' = fd /\ va' = va /\ i' = i
          /\ old' = [old EXCEPT ![c] = 0] /\ val' = [val EXCEPT ![c] = NULL]
      BY <1>3, Zenon DEF Undo
    <3> QED BY <1>2, <2>1, <3>1
  <2> HIDE DEF t
  <2>4. 0 \in Nat /\ "ready" \in Stages \ {"idle", "hung", "copy"} /\ "ready" \notin {"map", "grow", "dirty"}
    BY DEF Stages
  <2> QED BY <2>1, <2>2, <2>3, <2>4, SimpleStep
<1>4. CASE Dirty(c)
  <2>1. pc[c] = "dirty" /\ fd[c] # NULL /\ i[c] \in Nat /\ i[c] < Size(c)
    BY <1>1, <1>4 DEF Dirty, ClientOk
  <2> DEFINE t == ServeDirty(c, i[c])
             next == IF t.r # "OK" THEN "unmap" ELSE IF i[c] + 1 < Size(c) THEN "dirty" ELSE "close"
             n == IF t.r = "OK" /\ i[c] + 1 < Size(c) THEN i[c] + 1 ELSE 0
  <2>2. i[c] \in Direct
    BY <2>1, Opened, FsAssumption DEF Direct
  <2>3. Answers(t)
    BY <2>1, <2>2, RequestOk
  <2>4. /\ Reply(c, t, next) /\ opentab' = opentab /\ fd' = fd /\ va' = va
        /\ i' = [i EXCEPT ![c] = n] /\ old' = old /\ val' = val
    BY <1>4, Zenon DEF Dirty
  <2> HIDE DEF t
  <2>5. /\ next \in Stages \ {"idle", "hung", "copy"} /\ n \in Nat
        /\ IF next \in {"map", "grow", "dirty"} THEN n < Size(c) ELSE n = 0
    BY <2>1 DEF Stages
  <2> HIDE DEF next, n
  <2> QED BY <2>1, <2>3, <2>4, <2>5, SimpleStep
<1>5. CASE CloseFile(c)
  <2>1. pc[c] = "close" /\ fd[c] # NULL /\ i[c] = 0
    BY <1>1, <1>5 DEF CloseFile, ClientOk
  <2> DEFINE t == ServeClose(c)
  <2>2. Answers(t)
    BY <2>1, RequestOk
  <2>3. /\ Reply(c, t, "unmap") /\ opentab' = opentab /\ fd' = fd /\ va' = va
        /\ i' = [i EXCEPT ![c] = 0] /\ old' = old /\ val' = val
    <3>1. /\ Reply(c, t, "unmap") /\ opentab' = opentab /\ fd' = fd /\ va' = va
          /\ i' = i /\ old' = old /\ val' = val
      BY <1>5, Zenon DEF CloseFile, locals
    <3> QED BY <1>2, <2>1, <3>1
  <2> HIDE DEF t
  <2>4. 0 \in Nat /\ "unmap" \in Stages \ {"idle", "hung", "copy"} /\ "unmap" \notin {"map", "grow", "dirty"}
    BY DEF Stages
  <2> QED BY <2>1, <2>2, <2>3, <2>4, SimpleStep
<1> QED BY <1>3, <1>4, <1>5

(* A client stores in a page of the file.                                  *)
LEMMA StoreOk ==
  ASSUME NEW s, FsOk(s), NEW b \in Block \ {DIRBLOCK}, NEW v
  PROVE  LET t == [s EXCEPT !.cache[b] = Data(v)]
         IN  FsOk(t) /\ (Cached(s) => Cached(t))
<1> DEFINE c == [s.cache EXCEPT ![b] = Data(v)]
           t == [s EXCEPT !.cache[b] = Data(v)]
<1>1. t = [s EXCEPT !.cache = c]
  OBVIOUS
<1>2. Data(v) # NotMapped
  <2>1. [k |-> "data", v |-> v].k = "data" /\ [k |-> "none"].k = "none"
    OBVIOUS
  <2> QED BY <2>1 DEF Data, NotMapped
<1>3. /\ DOMAIN c = Block /\ c[DIRBLOCK] = s.cache[DIRBLOCK]
      /\ \A d \in Block : s.cache[d] # NotMapped => c[d] # NotMapped
  BY <1>2, Places DEF FsOk, FsShape
<1> HIDE DEF c, t
<1>4. t = [bitmap |-> s.bitmap, cache |-> c, dirty |-> s.dirty,
           root |-> s.root, disk |-> s.disk, panic |-> s.panic]
  BY <1>1 DEF FsOk, FsShape
<1>5. FsShape(t) /\ Directory(t) = Directory(s) /\ (Cached(s) => Cached(t))
  BY <1>3, <1>4 DEF FsOk, FsShape, Directory, Cached
<1>6. t.dirty \subseteq {d \in Block : t.cache[d] # NotMapped}
  BY <1>3, <1>4 DEF FsOk
<1>7. FsOk(t)
  BY <1>4, <1>5, <1>6 DEF FsOk
<1> QED BY <1>5, <1>7 DEF t

LEMMA WritePage ==
  ASSUME DiskInv, NEW c \in Clients, NEW n \in 0 .. NINDIRECT - 1, NEW v
  PROVE  FsOk(Store(c, n, v)) /\ (Cached(fs) => Cached(Store(c, n, v)))
<1>1. FsOk(fs) /\ va[c][n] \in (Block \ {DIRBLOCK}) \union {0}
  BY Parts DEF ClientOk
<1>2. CASE va[c][n] = 0
  BY <1>1, <1>2 DEF Store
<1>3. CASE va[c][n] # 0
  <2>1. va[c][n] \in Block \ {DIRBLOCK}
    BY <1>1, <1>3
  <2> DEFINE t == [fs EXCEPT !.cache[va[c][n]] = Data(v)]
  <2>2. FsOk(t) /\ (Cached(fs) => Cached(t))
    BY <1>1, <2>1, StoreOk
  <2>3. Store(c, n, v) = t
    BY <1>3 DEF Store
  <2> HIDE DEF t
  <2> QED BY <2>2, <2>3
<1> QED BY <1>2, <1>3

LEMMA StoresOk ==
  ASSUME SmallFiles, DiskInv, NEW c \in Clients,
         Copy(c) \/ \E n \in 0 .. MaxBlocks - 1, v \in Vals : Write(c, n, v)
  PROVE  DiskInv'
<1>1. ClientOk(c) /\ Domains
  BY Parts
<1>2. CASE Copy(c)
  <2>1. pc[c] = "copy" /\ fd[c] # NULL /\ i[c] = 0 /\ Size(c) > 0
    BY <1>1, <1>2 DEF Copy, ClientOk
  <2>2. Size(c) - 1 \in 0 .. NINDIRECT - 1
    BY <2>1, Opened, FsAssumption
  <2>3. /\ fs' = Store(c, Size(c) - 1, val[c]) /\ pc' = [pc EXCEPT ![c] = "ready"]
        /\ old' = [old EXCEPT ![c] = 0] /\ val' = [val EXCEPT ![c] = NULL]
        /\ opentab' = opentab /\ fd' = fd /\ va' = va /\ i' = i
    BY <1>2, Zenon DEF Copy
  <2>4. FsOk(fs') /\ (Cached(fs) => Cached(fs'))
    BY <2>2, <2>3, WritePage
  <2>5. /\ Only(pc, pc', c) /\ pc'[c] = "ready" /\ Only(old, old', c) /\ old'[c] = 0
        /\ Only(val, val', c) /\ val'[c] = NULL /\ Only(va, va', c) /\ Only(i, i', c)
    BY <1>1, <2>3, OnlyAt DEF Domains
  <2>6. ClientOk(c)'
    BY <1>1, <2>1, <2>3, <2>5, FsAssumption DEF ClientOk, Size, Stages
  <2> QED BY <2>3, <2>4, <2>5, <2>6, RequestStep
<1>3. ASSUME NEW n \in 0 .. MaxBlocks - 1, NEW v \in Vals, Write(c, n, v) PROVE DiskInv'
  <2>1. n \in 0 .. NINDIRECT - 1
    BY ServerAssumption, FsAssumption
  <2>2. /\ fs' = Store(c, n, v) /\ pc' = pc /\ old' = old /\ val' = val
        /\ opentab' = opentab /\ fd' = fd /\ va' = va /\ i' = i
    BY <1>3, Zenon DEF Write, locals
  <2>3. FsOk(fs') /\ (Cached(fs) => Cached(fs'))
    BY <2>1, <2>2, WritePage
  <2>4. /\ Only(pc, pc', c) /\ Only(old, old', c)
        /\ Only(val, val', c) /\ Only(va, va', c) /\ Only(i, i', c)
    BY <1>1, <2>2, OnlyAt DEF Domains
  <2>5. ClientOk(c)'
    BY <1>1, <2>2 DEF ClientOk, Size
  <2> QED BY <2>2, <2>3, <2>4, <2>5, RequestStep
<1> QED BY <1>2, <1>3

(* The steps of a close that make no request.                              *)
LEMMA CloseOk ==
  ASSUME DiskInv, NEW c \in Clients, Close(c)
  PROVE  DiskInv'
<1> DEFINE next == IF Size(c) = 0 THEN "close" ELSE "dirty"
<1>1. ClientOk(c) /\ Domains /\ FsOk(fs)
  BY Parts
<1>2. pc[c] \in {"ready", "leak"} /\ fd[c] # NULL /\ i[c] = 0
  BY <1>1 DEF Close, ClientOk
<1>3. Size(c) \in Nat
  BY <1>2, Opened, FsAssumption
<1>4. /\ fs' = fs /\ pc' = [pc EXCEPT ![c] = next]
      /\ old' = [old EXCEPT ![c] = 0] /\ val' = [val EXCEPT ![c] = NULL]
      /\ opentab' = opentab /\ fd' = fd /\ va' = va /\ i' = i
  BY Zenon DEF Close, Local
<1>5. next \in {"close", "dirty"} /\ (next = "dirty" => 0 < Size(c))
  BY <1>3
<1> HIDE DEF next
<1>6. /\ Only(pc, pc', c) /\ pc'[c] = next /\ Only(old, old', c) /\ old'[c] = 0
      /\ Only(val, val', c) /\ val'[c] = NULL /\ Only(va, va', c) /\ Only(i, i', c)
  BY <1>1, <1>4, OnlyAt DEF Domains
<1>7. ClientOk(c)'
  BY <1>1, <1>2, <1>4, <1>5, <1>6, FsAssumption DEF ClientOk, Size, Stages
<1>8. FsOk(fs') /\ (Cached(fs) => Cached(fs'))
  BY <1>1, <1>4
<1> QED BY <1>4, <1>6, <1>7, <1>8, RequestStep

LEMMA FdCloseOk ==
  ASSUME DiskInv, NEW c \in Clients, FdClose(c)
  PROVE  DiskInv'
<1>1. ClientOk(c) /\ Domains /\ FsOk(fs) /\ OpentabOk /\ OpenEntryExclusive
      /\ \A k \in FileId : EntryIs(k)
  BY Parts
<1>2. pc[c] = "unmap" /\ i[c] = 0
  BY <1>1 DEF FdClose, ClientOk
<1>3. /\ fs' = fs /\ pc' = [pc EXCEPT ![c] = "idle"] /\ fd' = [fd EXCEPT ![c] = NULL]
      /\ va' = [va EXCEPT ![c] = NoPages] /\ opentab' = opentab
      /\ old' = old /\ val' = val /\ i' = i
  BY Zenon DEF FdClose, Local, locals
<1>4. OpentabOk' /\ OpenEntryExclusive'
  BY <1>1, <1>3, CloseTable
<1>5. /\ opentab' = [k \in FileId |-> opentab'[k]] /\ \A k \in FileId : EntryIs(k)'
  BY <1>1, <1>3 DEF Domains, EntryIs
<1>6. /\ Only(pc, pc', c) /\ pc'[c] = "idle" /\ Only(old, old', c)
      /\ Only(val, val', c) /\ Only(va, va', c) /\ va'[c] = NoPages /\ Only(i, i', c)
  BY <1>1, <1>3, OnlyAt DEF Domains
<1>7. fd'[c] = NULL /\ \A d \in Clients \ {c} : fd'[d] = fd[d]
  BY <1>1, <1>3 DEF OpentabOk
<1>8. NoPages \in [0 .. NINDIRECT - 1 -> (Block \ {DIRBLOCK}) \union {0}]
  BY DEF NoPages
<1>9. ClientOk(c)'
  <2>1. /\ old[c] \in 0 .. NDIRECT /\ val[c] \in Vals \union {NULL} /\ i[c] \in Nat
    BY <1>1 DEF ClientOk
  <2> QED BY <1>2, <1>3, <1>6, <1>7, <1>8, <2>1 DEF ClientOk, Stages
<1>10. FsOk(fs')
  BY <1>1, <1>3
<1>11. \A d \in Clients \ {c} :
         fd'[d] = fd[d] /\ (fd[d] # NULL => opentab'[fd[d]] = opentab[fd[d]])
  BY <1>3, <1>7
<1> QED BY <1>4, <1>5, <1>6, <1>9, <1>10, <1>11, ClientStep

(* remove and sync.                                                        *)
LEMMA RemoveSyncOk ==
  ASSUME SmallFiles, DiskInv, NEW c \in Clients, Sync(c) \/ \E p \in Paths : RemoveFile(c, p)
  PROVE  DiskInv'
<1>1. ClientOk(c) /\ Domains /\ FsOk(fs)
  BY Parts
<1>2. PICK t : /\ FsOk(t.fs) /\ (Cached(fs) => Cached(t.fs)) /\ t.r # "PANIC"
               /\ Reply(c, t, pc[c]) /\ opentab' = opentab /\ fd' = fd /\ va' = va
               /\ old' = old /\ val' = val /\ i' = i
  <2>1. CASE Sync(c)
    <3> DEFINE t == [fs |-> FsSync(fs), r |-> "OK", at |-> NULL]
    <3>1. SameFiles(fs, FsSync(fs))
      BY <1>1, WriteOk DEF FsSync
    <3>2. /\ Reply(c, t, pc[c]) /\ opentab' = opentab /\ fd' = fd /\ va' = va
          /\ old' = old /\ val' = val /\ i' = i
      BY <2>1, Zenon DEF Sync, Ok, Result, locals
    <3>3. t.fs = FsSync(fs) /\ t.r # "PANIC"
      OBVIOUS
    <3> HIDE DEF t
    <3> QED BY <3>1, <3>2, <3>3 DEF SameFiles
  <2>2. ASSUME NEW p \in Paths, RemoveFile(c, p)
        PROVE  \E t : /\ FsOk(t.fs) /\ (Cached(fs) => Cached(t.fs)) /\ t.r # "PANIC"
                     /\ Reply(c, t, pc[c]) /\ opentab' = opentab /\ fd' = fd /\ va' = va
                     /\ old' = old /\ val' = val /\ i' = i
    <3> DEFINE t == FileRemove(fs, p)
    <3>1. FsOk(t.fs) /\ (Cached(fs) => Cached(t.fs)) /\ t.r # "PANIC"
      BY <1>1, FileRemoveOk
    <3>2. /\ Reply(c, t, pc[c]) /\ opentab' = opentab /\ fd' = fd /\ va' = va
          /\ old' = old /\ val' = val /\ i' = i
      BY <2>2, Zenon DEF RemoveFile, locals
    <3> HIDE DEF t
    <3> QED BY <3>1, <3>2
  <2> QED BY <2>1, <2>2
<1>3. fs' = t.fs /\ FsOk(fs') /\ Only(pc, pc', c) /\ pc'[c] = pc[c]
  BY <1>2, ReplyOk
<1>4. Only(old, old', c) /\ Only(val, val', c) /\ Only(va, va', c) /\ Only(i, i', c)
  BY <1>1, <1>2, OnlyAt DEF Domains
<1>5. ClientOk(c)'
  BY <1>1, <1>2, <1>3 DEF ClientOk, Size
<1>6. Cached(fs) => Cached(fs')
  BY <1>2, <1>3
<1> QED BY <1>2, <1>3, <1>4, <1>5, <1>6, RequestStep

LEMMA FtruncateOk ==
  ASSUME SmallFiles, DiskInv, NEW c \in Clients, NEW size \in 0 .. MaxBlocks,
         NEW v \in Vals \union {NULL}, Ftruncate(c, size, v)
  PROVE  DiskInv'
<1> DEFINE t == ServeSetSize(c, size)
           was == Size(c)
           next == IF size > was THEN "grow" ELSE "ready"
           from == IF size > was THEN was ELSE 0
           pages == [n \in DOMAIN va[c] |-> IF size <= n /\ n < was THEN 0 ELSE va[c][n]]
           k == fd[c]
<1>1. /\ ClientOk(c) /\ Domains /\ FsOk(fs) /\ OpentabOk /\ OpenEntryExclusive
      /\ \A j \in FileId : EntryIs(j)
  BY Parts
<1>2. pc[c] = "ready" /\ k # NULL
  BY <1>1 DEF Ftruncate, ClientOk
<1>3. k \in FileId /\ was \in 0 .. NDIRECT /\ size \in 0 .. NDIRECT /\ Cached(fs)
  BY <1>2, Opened, ServerAssumption, FsAssumption DEF SmallFiles
<1>4. Answers(t)
  BY <1>2, <1>3, RequestOk
<1>5. /\ Reply(c, t, next) /\ opentab' = [opentab EXCEPT ![k].size = size]
      /\ va' = [va EXCEPT ![c] = pages] /\ i' = [i EXCEPT ![c] = from]
      /\ old' = [old EXCEPT ![c] = from] /\ val' = [val EXCEPT ![c] = v] /\ fd' = fd
  BY Zenon DEF Ftruncate
<1>6. /\ pages \in [0 .. NINDIRECT - 1 -> (Block \ {DIRBLOCK}) \union {0}]
      /\ next \in {"grow", "ready"} /\ from \in 0 .. NDIRECT /\ from \in Nat
      /\ next = "grow" => from < size
      /\ next = "ready" => from = 0
  <2>1. va[c] \in [0 .. NINDIRECT - 1 -> (Block \ {DIRBLOCK}) \union {0}]
    BY <1>1 DEF ClientOk
  <2>2. pages \in [0 .. NINDIRECT - 1 -> (Block \ {DIRBLOCK}) \union {0}]
    BY <2>1
  <2>3. /\ next \in {"grow", "ready"} /\ from \in 0 .. NDIRECT /\ from \in Nat
        /\ next = "grow" => from < size
        /\ next = "ready" => from = 0
    <3> HIDE DEF was
    <3> QED BY <1>3, FsAssumption
  <2> QED BY <2>2, <2>3
<1> HIDE DEF t, next, from, pages
<1>7. fs' = t.fs /\ FsOk(fs') /\ Only(pc, pc', c) /\ pc'[c] = next /\ Cached(fs')
  BY <1>4, <1>5, ReplyOk DEF Answers
<1>8. OpentabOk' /\ OpenEntryExclusive'
  BY <1>1, <1>5, SizeTable
<1>9. /\ Only(i, i', c) /\ i'[c] = from /\ Only(old, old', c) /\ old'[c] = from
      /\ Only(val, val', c) /\ val'[c] = v /\ Only(va, va', c) /\ va'[c] = pages
  BY <1>1, <1>5, OnlyAt DEF Domains
<1>10. /\ opentab' = [j \in FileId |-> opentab'[j]]
       /\ \A j \in FileId : j # k => opentab'[j] = opentab[j]
       /\ opentab'[k] = [page |-> opentab[k].page, file |-> opentab[k].file, size |-> size]
  <2>1. opentab = [j \in FileId |-> opentab[j]]
    BY <1>1 DEF Domains
  <2>2. opentab[k] = [page |-> opentab[k].page, file |-> opentab[k].file, size |-> opentab[k].size]
    BY <1>1, <1>3 DEF OpentabOk, EntryOk
  <2> DEFINE new == [opentab[k] EXCEPT !.size = size]
  <2>3. opentab' = [opentab EXCEPT ![k] = new]
    BY <1>5
  <2>4. new = [page |-> opentab[k].page, file |-> opentab[k].file, size |-> size]
    BY <2>2
  <2> HIDE DEF new
  <2> QED BY <1>3, <2>1, <2>3, <2>4
<1>11. ASSUME NEW j \in FileId PROVE EntryIs(j)'
  <2>1. CASE j = k
    BY <1>1, <1>3, <1>7, <1>10, <2>1 DEF EntryIs
  <2>2. CASE j # k
    BY <1>1, <1>7, <1>10, <2>2 DEF EntryIs
  <2> QED BY <2>1, <2>2
<1>12. ClientOk(c)'
  <2>1. opentab'[fd'[c]].size = size /\ opentab'[fd'[c]].file = opentab[fd[c]].file
    BY <1>5, <1>10
  <2>2. opentab[fd[c]].file # NULL
    BY <1>1, <1>2 DEF ClientOk
  <2> HIDE DEF k
  <2> QED BY <1>2, <1>5, <1>6, <1>7, <1>9, <2>1, <2>2 DEF ClientOk, Size, Stages, k
<1>13. \A d \in Clients \ {c} :
         fd'[d] = fd[d] /\ (fd[d] # NULL => opentab'[fd[d]] = opentab[fd[d]])
  BY <1>1, <1>5, <1>10 DEF OpenEntryExclusive, OpentabOk
<1> QED BY <1>7, <1>8, <1>9, <1>10, <1>11, <1>12, <1>13, ClientStep

LEMMA OpenOkStep ==
  ASSUME SmallFiles, DiskInv, NEW c \in Clients, NEW p \in Paths, NEW m \in Modes, Open(c, p, m)
  PROVE  DiskInv'
<1> DEFINE k == Min(FreeOpens)
           t == ServeOpen(p, m)
           ok == t.r = "OK"
           size == IF ok THEN File(t.fs, t.at).size ELSE 0
           next == IF ~ ok THEN "idle" ELSE IF size = 0 THEN "ready" ELSE "map"
           file == IF ok THEN t.at ELSE opentab[k].file
           id == IF ok THEN k ELSE NULL
<1>1. /\ ClientOk(c) /\ Domains /\ FsOk(fs) /\ OpentabOk /\ OpenEntryExclusive
      /\ \A j \in FileId : EntryIs(j)
  BY Parts
<1>2. k \in FileId /\ \A d \in Clients : fd[d] # NULL => fd[d] # k
  BY <1>1, FreeEntry DEF Open
<1>3. Finds(fs, t)
  BY <1>1, ServeOpenOk
<1>4. /\ Reply(c, t, next)
      /\ opentab' = [opentab EXCEPT ![k] = [page |-> TRUE, file |-> file, size |-> size]]
      /\ fd' = [fd EXCEPT ![c] = id] /\ i' = [i EXCEPT ![c] = 0]
      /\ va' = va /\ old' = old /\ val' = val
  <2>1. /\ Reply(c, t, IF t.r # "OK" THEN "idle" ELSE IF size = 0 THEN "ready" ELSE "map")
        /\ opentab' = [opentab EXCEPT ![k] =
             [page |-> TRUE, file |-> IF t.r = "OK" THEN t.at ELSE opentab[k].file, size |-> size]]
        /\ fd' = [fd EXCEPT ![c] = IF t.r = "OK" THEN k ELSE NULL]
        /\ i' = [i EXCEPT ![c] = 0]
        /\ va' = va /\ old' = old /\ val' = val
    BY DEF Open
  <2> QED BY <2>1, Zenon
<1>5. OpentabOk' /\ OpenEntryExclusive'
  BY <1>1, OpenTable
<1> HIDE DEF t, k
<1>6. t.r = "OK" => File(t.fs, t.at).size \in 0 .. NDIRECT /\ t.at \in Slots /\ Cached(t.fs)
  BY <1>3, SlotIs DEF Finds, SmallFile
<1>7. /\ size \in 0 .. NDIRECT /\ size \in Nat /\ next \in {"idle", "ready", "map"}
      /\ next = "map" => 0 < size
      /\ next = "idle" <=> id = NULL
      /\ id # NULL => id = k /\ file \in Slots
  <2>1. 0 \in 0 .. NDIRECT /\ NULL \notin FileId
    BY FsAssumption, ServerAssumption DEF FileId
  <2>2. CASE ok
    <3>1. size \in 0 .. NDIRECT /\ size \in Nat
      BY <1>6, <2>2, FsAssumption
    <3>2. file \in Slots /\ id = k /\ id # NULL
      BY <1>2, <1>6, <2>1, <2>2
    <3> HIDE DEF size
    <3> QED BY <2>2, <3>1, <3>2
  <2>3. CASE ~ ok
    BY <2>1, <2>3
  <2> QED BY <2>2, <2>3
<1>8. /\ file # NULL => file \in Slots /\ Cached(t.fs)
      /\ file \in Slots \union {NULL}
  <2>1. CASE ok
    BY <1>6, <2>1, Places
  <2>2. CASE ~ ok
    <3>1. file = opentab[k].file
      BY <2>2
    <3>2. opentab[k].file \in Slots \union {NULL} /\ (opentab[k].file # NULL => Cached(fs))
      BY <1>1, <1>2 DEF EntryIs
    <3> QED BY <1>3, <3>1, <3>2 DEF Finds
  <2> QED BY <2>1, <2>2
<1> HIDE DEF size, next, file, id
<1>9. fs' = t.fs /\ FsOk(fs') /\ Only(pc, pc', c) /\ pc'[c] = next /\ (Cached(fs) => Cached(fs'))
  BY <1>3, <1>4, ReplyOk DEF Finds
<1>10. /\ Only(i, i', c) /\ i'[c] = 0 /\ Only(old, old', c)
       /\ Only(val, val', c) /\ Only(va, va', c)
  BY <1>1, <1>4, OnlyAt DEF Domains
<1> DEFINE entry == [page |-> TRUE, file |-> file, size |-> size]
<1>11. /\ opentab' = [j \in FileId |-> opentab'[j]]
       /\ \A j \in FileId : j # k => opentab'[j] = opentab[j]
       /\ opentab'[k] = entry
  <2>1. opentab = [j \in FileId |-> opentab[j]]
    BY <1>1 DEF Domains
  <2>2. opentab' = [opentab EXCEPT ![k] = entry]
    BY <1>4
  <2> HIDE DEF entry
  <2> QED BY <1>2, <2>1, <2>2
<1>12. ASSUME NEW j \in FileId PROVE EntryIs(j)'
  <2>1. CASE j = k
    <3>1. entry \in [page : BOOLEAN, file : Slots \union {NULL}, size : 0 .. NDIRECT]
      BY <1>7, <1>8
    <3>2. entry.file # NULL => Cached(fs')
      BY <1>8, <1>9
    <3>3. opentab'[j] = entry
      BY <1>11, <2>1
    <3> HIDE DEF entry
    <3> QED BY <3>1, <3>2, <3>3 DEF EntryIs
  <2>2. CASE j # k
    BY <1>1, <1>9, <1>11, <2>2 DEF EntryIs
  <2> QED BY <2>1, <2>2
<1>13. fd'[c] = id /\ \A d \in Clients \ {c} : fd'[d] = fd[d]
  BY <1>1, <1>4 DEF OpentabOk
<1>14. ClientOk(c)'
  <2>1. fd'[c] # NULL => opentab'[fd'[c]].file \in Slots /\ opentab'[fd'[c]].size = size
    BY <1>7, <1>11, <1>13
  <2>2. fd'[c] # NULL => opentab'[fd'[c]].file # NULL
    BY <2>1, Places
  <2>3. /\ old[c] \in 0 .. NDIRECT /\ val[c] \in Vals \union {NULL}
        /\ va[c] \in [0 .. NINDIRECT - 1 -> (Block \ {DIRBLOCK}) \union {0}]
    BY <1>1 DEF ClientOk
  <2> QED BY <1>4, <1>7, <1>9, <1>10, <1>13, <2>1, <2>2, <2>3 DEF ClientOk, Size, Stages
<1>15. \A d \in Clients \ {c} :
         fd'[d] = fd[d] /\ (fd[d] # NULL => opentab'[fd[d]] = opentab[fd[d]])
  BY <1>1, <1>2, <1>11, <1>13 DEF OpentabOk
<1> QED BY <1>5, <1>9, <1>10, <1>11, <1>12, <1>14, <1>15, ClientStep

(* Every step.                                                             *)
LEMMA NextDisk ==
  ASSUME SmallFiles, DiskInv, [Next]_vars
  PROVE  DiskInv'
<1>1. ASSUME NEW c \in Clients, NEW p \in Paths, NEW m \in Modes, Open(c, p, m)
      PROVE  DiskInv'
  BY <1>1, OpenOkStep
<1>2. ASSUME NEW c \in Clients, OpenMap(c) \/ Grow(c)
      PROVE  DiskInv'
  BY <1>2, OpenMapOk, GrowOk
<1>3. ASSUME NEW c \in Clients,
             Copy(c) \/ \E n \in 0 .. MaxBlocks - 1, v \in Vals : Write(c, n, v)
      PROVE  DiskInv'
  BY <1>3, StoresOk
<1>4. ASSUME NEW c \in Clients, NEW n \in 0 .. MaxBlocks, NEW v \in Vals \union {NULL},
             Ftruncate(c, n, v)
      PROVE  DiskInv'
  BY <1>4, FtruncateOk
<1>5. ASSUME NEW c \in Clients, Undo(c) \/ Dirty(c) \/ CloseFile(c)
      PROVE  DiskInv'
  BY <1>5, SimpleOk
<1>6. ASSUME NEW c \in Clients, Close(c) \/ FdClose(c)
      PROVE  DiskInv'
  BY <1>6, CloseOk, FdCloseOk
<1>7. ASSUME NEW c \in Clients, Sync(c) \/ \E p \in Paths : RemoveFile(c, p)
      PROVE  DiskInv'
  BY <1>7, RemoveSyncOk
<1>8. CASE Finished \/ UNCHANGED vars
  <2>1. /\ fs' = fs /\ opentab' = opentab /\ fd' = fd /\ va' = va /\ pc' = pc
        /\ i' = i /\ old' = old /\ val' = val
    BY <1>8, Zenon DEF Finished, vars
  <2>2. /\ FsOk(fs) /\ OpentabOk /\ OpenEntryExclusive /\ Domains
        /\ \A k \in FileId : EntryIs(k)
        /\ \A c \in Clients : ClientOk(c)
    BY Parts
  <2>3. FsOk(fs)' /\ Domains' /\ (\A k \in FileId : EntryIs(k)') /\ \A c \in Clients : ClientOk(c)'
    <3>1. FsOk(fs)' /\ Domains'
      BY <2>1, <2>2 DEF Domains, IsOnClients
    <3>2. \A k \in FileId : EntryIs(k)'
      BY <2>1, <2>2 DEF EntryIs
    <3>3. \A c \in Clients : ClientOk(c)'
      BY <2>1, <2>2 DEF ClientOk, Size
    <3> QED BY <3>1, <3>2, <3>3
  <2>4. OpentabOk' /\ OpenEntryExclusive'
    BY <2>1, <2>2, CloseTable
  <2> QED BY <2>3, <2>4, Whole
<1>9. CASE Next
  BY <1>1, <1>2, <1>3, <1>4, <1>5, <1>6, <1>7, <1>8, <1>9, Zenon DEF Next
<1> QED BY <1>8, <1>9

(* The disk that fsformat makes.                                           *)
LEMMA FirstIs ==
  /\ FirstFile \in SmallFile /\ FirstFile.name \in Names
  /\ \A n \in Direct : FirstFile.ptr[n] = IF n = 0 THEN 4 ELSE 0
  /\ BlankFile \in SmallFile /\ BlankFile.name = NoName
  /\ \A n \in Direct : BlankFile.ptr[n] = 0
<1>1. FirstName \in Names
  <2>1. \E a \in Names \ LongNames : <<a>> \in Paths
    BY ServerAssumption
  <2>2. FirstName \in Names \ LongNames
    BY <2>1 DEF FirstName
  <2> QED BY <2>2
<1> DEFINE zeroes == [n \in Direct |-> 0]
           one == [zeroes EXCEPT ![0] = 4]
<1>2. /\ zeroes \in [Direct -> Block \union {0}] /\ one \in [Direct -> Block \union {0}]
      /\ \A n \in Direct : zeroes[n] = 0 /\ one[n] = IF n = 0 THEN 4 ELSE 0
  BY Places
<1>3. BlankFile = [name |-> NoName, size |-> 0, type |-> "REG", dir |-> NULL,
                   ptr |-> zeroes, ind |-> 0]
  BY DEF BlankFile
<1>4. FirstFile = [name |-> FirstName, size |-> 1, type |-> "REG", dir |-> NULL,
                   ptr |-> one, ind |-> 0]
  <2> DEFINE a == [BlankFile EXCEPT !.name = FirstName]
             b == [a EXCEPT !.size = 1]
             c == [b EXCEPT !.ptr = [b.ptr EXCEPT ![0] = 4]]
  <2>1. FirstFile = c
    BY DEF FirstFile
  <2> HIDE DEF zeroes
  <2>2. a = [name |-> FirstName, size |-> 0, type |-> "REG", dir |-> NULL,
             ptr |-> zeroes, ind |-> 0]
    BY <1>3
  <2> HIDE DEF a
  <2>3. b = [name |-> FirstName, size |-> 1, type |-> "REG", dir |-> NULL,
             ptr |-> zeroes, ind |-> 0]
    BY <2>2
  <2> HIDE DEF b
  <2>4. c = [name |-> FirstName, size |-> 1, type |-> "REG", dir |-> NULL,
             ptr |-> [zeroes EXCEPT ![0] = 4], ind |-> 0]
    BY <2>3
  <2> QED BY <2>1, <2>4
<1> HIDE DEF zeroes, one
<1>5. 0 \in 0 .. NDIRECT /\ 1 \in 0 .. NDIRECT
  BY FsAssumption
<1>6. BlankFile \in SmallFile
  BY <1>2, <1>3, <1>5 DEF SmallFile
<1>7. FirstFile \in SmallFile
  BY <1>1, <1>2, <1>4, <1>5 DEF SmallFile
<1> QED BY <1>1, <1>2, <1>3, <1>4, <1>6, <1>7

LEMMA FormattedOk == FsOk(FsInit(FormattedDisk))
<1> DEFINE e == [j \in FileSlot |-> IF j = 0 THEN FirstFile ELSE BlankFile]
           bitmap == [b \in Block |-> b \notin {3, 4}]
           blk == [b \in Block |-> IF b = 3 THEN EntriesBlock(e) ELSE Zero]
           root == [BlankFile EXCEPT !.size = 1, !.type = "DIR", !.ptr[0] = 3]
           disk == [bitmap |-> bitmap, blk |-> blk, root |-> root]
           cache == [b \in Block |-> NotMapped]
           s == [bitmap |-> bitmap, cache |-> cache,
                 dirty |-> {}, root |-> root, disk |-> disk, panic |-> "no"]
<1>1. FormattedDisk = disk
  BY Zenon DEF FormattedDisk
<1>2. FsInit(FormattedDisk) = s
  <2>1. disk.bitmap = bitmap /\ disk.root = root
    OBVIOUS
  <2> HIDE DEF disk, root
  <2> QED BY <1>1, <2>1, Zenon DEF FsInit
<1>3. root = RootDir
  BY DEF RootDir, DIRBLOCK
<1>4. Entries(EntriesBlock(e)) = e /\ EntriesBlock(e) # NotMapped
  <2>1. e = [j \in FileSlot |-> e[j]]
    OBVIOUS
  <2> HIDE DEF e
  <2> QED BY <2>1, EntriesIs
<1>5. /\ DOMAIN blk = Block /\ blk[DIRBLOCK] = EntriesBlock(e)
      /\ bitmap \in [Block -> BOOLEAN] /\ ~ bitmap[DIRBLOCK] /\ ~ bitmap[4]
      /\ DOMAIN cache = Block /\ cache[DIRBLOCK] = NotMapped
  BY Places DEF DIRBLOCK
<1>6. DirectoryOk(e)
  <2>1. e \in [FileSlot -> SmallFile]
    BY FirstIs
  <2>2. \A j \in FileSlot : e[j].name # NoName => j = 0
    BY FirstIs
  <2> HIDE DEF e
  <2> QED BY <2>1, <2>2 DEF DirectoryOk
<1>7. BlocksOk(e, bitmap)
  <2>1. \A j \in FileSlot, n \in Direct : e[j].ptr[n] = IF j = 0 /\ n = 0 THEN 4 ELSE 0
    BY FirstIs
  <2>2. 4 # DIRBLOCK
    BY DEF DIRBLOCK
  <2> HIDE DEF e, bitmap
  <2> QED BY <1>5, <2>1, <2>2 DEF BlocksOk
<1> HIDE DEF root, blk, bitmap, cache, e
<1>8. DiskShape(disk)
  BY DEF DiskShape
<1>9. disk.blk = blk
  OBVIOUS
<1> HIDE DEF disk
<1>10. FsShape(s) /\ Directory(s) = e
  BY <1>4, <1>5, <1>8, <1>9 DEF FsShape, Directory
<1>11. FsOk(s)
  BY <1>3, <1>4, <1>5, <1>6, <1>7, <1>9, <1>10 DEF FsOk
<1> QED BY <1>2, <1>11

LEMMA InitDisk ==
  ASSUME Init
  PROVE  DiskInv
<1>1. /\ fs = FsInit(FormattedDisk)
      /\ opentab = [k \in FileId |-> [page |-> FALSE, file |-> NULL, size |-> 0]]
      /\ fd = [c \in Clients |-> NULL] /\ va = [c \in Clients |-> NoPages]
      /\ pc = [c \in Clients |-> "idle"] /\ i = [c \in Clients |-> 0]
      /\ old = [c \in Clients |-> 0] /\ val = [c \in Clients |-> NULL]
  BY Zenon DEF Init, NoOpens, ForAll
<1>2. FsOk(fs)
  BY <1>1, FormattedOk
<1>3. TypeOK
  <2>1. OpentabOk
    BY <1>1 DEF OpentabOk, EntryOk
  <2>2. (fs.bitmap \in [Block -> BOOLEAN]) /\ fs.dirty \subseteq {b \in Block : fs.cache[b] # NotMapped}
    BY <1>2 DEF FsOk
  <2>3. opentab \in [FileId -> [page : BOOLEAN, file : Loc \union {NULL}, size : Nat]]
    BY <1>1
  <2>4. va \in [Clients -> [0 .. NINDIRECT - 1 -> Block \union {0}]]
    BY <1>1 DEF NoPages
  <2>5. i \in [Clients -> Nat] /\ old \in [Clients -> Nat] /\ val \in [Clients -> Vals \union {NULL}]
        /\ pc \in [Clients -> Stages]
    BY <1>1 DEF Stages
  <2>6. \A c \in Clients :
          IF fd[c] = NULL THEN pc[c] \in {"idle", "hung"} ELSE pc[c] # "idle"
    BY <1>1
  <2> QED BY <2>1, <2>2, <2>3, <2>4, <2>5, <2>6 DEF TypeOK
<1>4. OpenEntryExclusive
  BY <1>1 DEF OpenEntryExclusive
<1>5. OpenOk
  BY <1>1, FsAssumption DEF OpenOk
<1>6. RequestsOk
  BY <1>1, FsAssumption DEF RequestsOk
<1>7. PagesOk
  BY <1>1, Places DEF PagesOk, NoPages
<1> QED BY <1>2, <1>3, <1>4, <1>5, <1>6, <1>7 DEF DiskInv

(* The files one can reach are the root and the slots of its block.        *)
LEMMA Live ==
  ASSUME FsOk(fs)
  PROVE  /\ LiveFiles = {ROOT} \union Slots
         /\ \A f \in Slots : At(f) = Directory(fs)[f[2]]
         /\ \A n \in 0 .. NINDIRECT : Word(<<ROOT, n>>) = IF n = 0 THEN DIRBLOCK ELSE 0
         /\ \A f \in Slots, n \in 0 .. NINDIRECT :
              Word(<<f, n>>) = IF n \in Direct THEN Directory(fs)[f[2]].ptr[n] ELSE 0
<1> DEFINE e == Directory(fs)
<1>1. e \in [FileSlot -> SmallFile]
  BY DEF FsOk, DirectoryOk
<1>2. At(ROOT) = RootDir /\ RootDir.size = 1 /\ RootDir.ind = 0
      /\ \A n \in Direct : RootDir.ptr[n] = IF n = 0 THEN DIRBLOCK ELSE 0
  <2>1. At(ROOT) = RootDir
    BY DEF At, FsOk
  <2> DEFINE zeroes == [n \in Direct |-> 0]
             ptr == [zeroes EXCEPT ![0] = DIRBLOCK]
             a == [BlankFile EXCEPT !.size = 1]
             b == [a EXCEPT !.type = "DIR"]
             c == [b EXCEPT !.ptr = [b.ptr EXCEPT ![0] = DIRBLOCK]]
  <2>2. RootDir = c
    BY DEF RootDir
  <2>3. BlankFile = [name |-> NoName, size |-> 0, type |-> "REG", dir |-> NULL,
                     ptr |-> zeroes, ind |-> 0]
    BY DEF BlankFile
  <2>4. \A n \in Direct : ptr[n] = IF n = 0 THEN DIRBLOCK ELSE 0
    BY Places
  <2> HIDE DEF zeroes
  <2>5. a = [name |-> NoName, size |-> 1, type |-> "REG", dir |-> NULL,
             ptr |-> zeroes, ind |-> 0]
    BY <2>3
  <2> HIDE DEF a
  <2>6. b = [name |-> NoName, size |-> 1, type |-> "DIR", dir |-> NULL,
             ptr |-> zeroes, ind |-> 0]
    BY <2>5
  <2> HIDE DEF b
  <2>7. c = [name |-> NoName, size |-> 1, type |-> "DIR", dir |-> NULL,
             ptr |-> ptr, ind |-> 0]
    BY <2>6
  <2> HIDE DEF c, ptr
  <2> QED BY <2>1, <2>2, <2>4, <2>7
<1>3. ASSUME NEW f \in Slots PROVE At(f) = e[f[2]] /\ At(f) \in SmallFile
  <2>1. f # ROOT /\ f[1] = DIRBLOCK /\ f[2] \in FileSlot
    BY Places
  <2>2. e = Entries(Contents(DIRBLOCK))
    BY DEF Directory, Contents
  <2> HIDE DEF e
  <2> QED BY <1>1, <2>1, <2>2 DEF At
<1> HIDE DEF e
<1>4. 0 \notin Block /\ 0 \in Direct /\ DIRBLOCK \in Block
  BY Places
<1>5. \A n : BlockOf(ROOT, n) = IF n \in Direct THEN (IF n = 0 THEN DIRBLOCK ELSE 0) ELSE 0
  BY <1>2, <1>4 DEF BlockOf
<1>6. FilesIn(ROOT) = Slots
  <2>1. FilesIn(ROOT) = {f \in Loc \ {ROOT} : f[1] = DIRBLOCK}
    <3>1. At(ROOT).size - 1 = 0
      BY <1>2
    <3>2. \A n : n \in 0 .. 0 <=> n = 0
      OBVIOUS
    <3>3. FilesIn(ROOT) = {f \in Loc \ {ROOT} : \E n \in 0 .. 0 : BlockOf(ROOT, n) = f[1]}
      BY <3>1 DEF FilesIn
    <3> QED BY <1>4, <1>5, <3>2, <3>3
  <2>2. ASSUME NEW f \in Slots PROVE f \in Loc \ {ROOT} /\ f[1] = DIRBLOCK
    BY <1>4, <2>2, Places DEF Slots, Loc
  <2>3. ASSUME NEW f \in Loc \ {ROOT}, f[1] = DIRBLOCK PROVE f \in Slots
    BY <2>3 DEF Slots, Loc
  <2> QED BY <2>1, <2>2, <2>3
<1>7. Subdirs({ROOT}) = {ROOT}
  <2>1. \A f \in Slots : At(f).type # "DIR"
    BY <1>3 DEF SmallFile
  <2>2. Subdirs({ROOT}) = {ROOT} \union {f \in FilesIn(ROOT) : At(f).type = "DIR"}
    BY DEF Subdirs
  <2> QED BY <1>6, <2>1, <2>2
<1>8. LiveFiles = {ROOT} \union Slots
  <2>1. LiveFiles = {ROOT} \union UNION {FilesIn(d) : d \in {ROOT}}
    BY <1>7 DEF LiveFiles
  <2> QED BY <1>6, <2>1
<1>9. NINDIRECT \notin Direct
  BY FsAssumption DEF Direct
<1>10. ASSUME NEW n \in 0 .. NINDIRECT PROVE Word(<<ROOT, n>>) = IF n = 0 THEN DIRBLOCK ELSE 0
  <2>1. Word(<<ROOT, n>>) = IF n = NINDIRECT THEN At(ROOT).ind ELSE BlockOf(ROOT, n)
    BY DEF Word
  <2> QED BY <1>2, <1>4, <1>5, <1>9, <2>1
<1>11. ASSUME NEW f \in Slots, NEW n \in 0 .. NINDIRECT
       PROVE  Word(<<f, n>>) = IF n \in Direct THEN e[f[2]].ptr[n] ELSE 0
  <2>1. Word(<<f, n>>) = IF n = NINDIRECT THEN At(f).ind ELSE BlockOf(f, n)
    BY DEF Word
  <2>2. At(f) = e[f[2]] /\ At(f).ind = 0
    BY <1>3 DEF SmallFile
  <2>3. BlockOf(f, n) = IF n \in Direct THEN e[f[2]].ptr[n] ELSE 0
    BY <1>4, <2>2 DEF BlockOf
  <2> QED BY <1>9, <2>1, <2>2, <2>3
<1> QED BY <1>3, <1>8, <1>10, <1>11 DEF e

LEMMA OwnedOnce ==
  ASSUME FsOk(fs)
  PROVE  BlocksOwnedOnce
<1> DEFINE e == Directory(fs)
           words == Words
           owned == {Word(w) : w \in words}
           f == [w \in words |-> Word(w)]
<1>1. e \in [FileSlot -> SmallFile] /\ BlocksOk(e, fs.bitmap) /\ ~ fs.bitmap[DIRBLOCK]
  BY DEF FsOk, DirectoryOk
<1>2. ASSUME NEW w \in words
      PROVE  /\ Word(w) \in Block /\ ~ fs.bitmap[Word(w)]
             /\ \/ w = <<ROOT, 0>> /\ Word(w) = DIRBLOCK
                \/ \E j \in FileSlot, n \in Direct :
                     /\ w = <<<<DIRBLOCK, j>>, n>> /\ Word(w) = e[j].ptr[n]
                     /\ e[j].ptr[n] # 0 /\ e[j].ptr[n] # DIRBLOCK
  <2>1. PICK g \in LiveFiles, n \in 0 .. NINDIRECT : w = <<g, n>> /\ Word(<<g, n>>) # 0
    BY DEF Words
  <2>2. CASE g = ROOT
    BY <1>1, <2>1, <2>2, Live, Places
  <2>3. CASE g # ROOT
    <3>1. g \in Slots
      BY <2>3, Live
    <3>2. n \in Direct /\ Word(<<g, n>>) = e[g[2]].ptr[n] /\ e[g[2]].ptr[n] # 0
      BY <2>1, <3>1, Live
    <3>3. g[2] \in FileSlot /\ g = <<DIRBLOCK, g[2]>>
      BY <3>1, Places
    <3>4. e[g[2]].ptr[n] \in Block
      <4>1. e[g[2]].ptr \in [Direct -> Block \union {0}]
        BY <1>1, <3>3 DEF SmallFile
      <4> QED BY <3>2, <4>1
    <3>5. e[g[2]].ptr[n] # DIRBLOCK /\ ~ fs.bitmap[e[g[2]].ptr[n]]
      BY <1>1, <3>2, <3>3 DEF BlocksOk
    <3> HIDE DEF e
    <3>6. w = <<<<DIRBLOCK, g[2]>>, n>> /\ Word(w) = e[g[2]].ptr[n]
      BY <2>1, <3>2, <3>3
    <3> QED BY <3>2, <3>3, <3>4, <3>5, <3>6
  <2> QED BY <2>2, <2>3
<1> HIDE DEF e
<1>3. ASSUME NEW w \in words, NEW x \in words, Word(w) = Word(x)
      PROVE  w = x
  <2>1. CASE w = <<ROOT, 0>> /\ Word(w) = DIRBLOCK
    BY <1>2, <1>3, <2>1
  <2>2. CASE x = <<ROOT, 0>> /\ Word(x) = DIRBLOCK
    BY <1>2, <1>3, <2>2
  <2>3. ASSUME NEW j \in FileSlot, NEW n \in Direct, NEW l \in FileSlot, NEW m \in Direct,
               w = <<<<DIRBLOCK, j>>, n>>, Word(w) = e[j].ptr[n], e[j].ptr[n] # 0,
               x = <<<<DIRBLOCK, l>>, m>>, Word(x) = e[l].ptr[m]
        PROVE  w = x
    <3>1. e[j].ptr[n] = e[l].ptr[m]
      BY <1>3, <2>3
    <3>2. j = l /\ n = m
      BY <1>1, <2>3, <3>1 DEF BlocksOk
    <3> QED BY <2>3, <3>2
  <2> HIDE DEF words
  <2> QED BY <1>2, <2>1, <2>2, <2>3
<1> HIDE DEF words
<1>4. owned \in SUBSET Block
  BY <1>2
<1>5. IsFiniteSet(owned)
  <2>1. IsFiniteSet(Block)
    <3>1. 3 \in Int /\ NBLOCKS - 1 \in Int
      BY FsAssumption
    <3> QED BY <3>1, FS_Interval DEF Block
  <2> HIDE DEF owned
  <2> QED BY <1>4, <2>1, FS_Subset
<1>6. f \in Injection(words, owned)
  BY <1>3 DEF Injection, IsInjective
<1>7. f \in Surjection(words, owned)
  BY DEF Surjection
<1>8. Cardinality(words) = Cardinality(owned)
  <2> HIDE DEF f, owned
  <2> QED BY <1>5, <1>6, <1>7, FS_Injection
<1>9. \A b \in owned : b \in Block /\ ~ fs.bitmap[b]
  BY <1>2
<1> QED BY <1>8, <1>9 DEF BlocksOwnedOnce, words

-----------------------------------------------------------------------------
(* As long as files stay within their direct pointers and in the root      *)
(* directory, and its block has room for all names, each request of fs.c   *)
(* leaves a cached directory whose names differ, blocks with one owner     *)
(* that the bitmap knows to be in use, open files that are slots of that   *)
(* directory, and clients that ask for blocks within a size the server has *)
(* granted: for any number of clients, blocks, files and open files, and   *)
(* whatever the clients do to each other's files.                          *)
THEOREM DiskInvariant == SmallFiles => (Spec => []DiskInv)
<1> SUFFICES ASSUME SmallFiles PROVE Spec => []DiskInv
  OBVIOUS
<1>1. Init => DiskInv
  BY InitDisk
<1>2. DiskInv /\ [Next]_vars => DiskInv'
  BY NextDisk
<1> QED BY <1>1, <1>2, PTL DEF Spec

(* alloc_block then never gives out a block that a file still has, two     *)
(* files never share one, and a block that a file has is not free.         *)
THEOREM BlocksHaveOneOwner == SmallFiles => (Spec => []BlocksOwnedOnce)
<1> SUFFICES ASSUME SmallFiles PROVE Spec => []BlocksOwnedOnce
  OBVIOUS
<1>1. Spec => []DiskInv
  BY DiskInvariant
<1>2. DiskInv => BlocksOwnedOnce
  BY OwnedOnce DEF DiskInv
<1> QED BY <1>1, <1>2, PTL

(* And none of the assertions of fs.c fails, so that no client waits for a *)
(* server that has panicked.                                               *)
THEOREM ServerNeverPanics == SmallFiles => (Spec => []ServerAlive)
<1> SUFFICES ASSUME SmallFiles PROVE Spec => []ServerAlive
  OBVIOUS
<1>1. Spec => []DiskInv
  BY DiskInvariant
<1>2. DiskInv => ServerAlive
  BY DEF DiskInv, FsOk, ServerAlive
<1> QED BY <1>1, <1>2, PTL
=============================================================================
