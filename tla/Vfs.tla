-------------------------------- MODULE Vfs ---------------------------------
(* vfs.c: the virtual file system and its one file system, tmpfs.  One       *)
(* action is one call of the interface, run to its end; a call that the code *)
(* ends in several ways is one action per way.  A path is the sequence of    *)
(* its components, flags are the set of bits given, positions and sizes are  *)
(* unsigned numbers below U32.                                               *)
EXTENDS Integers, Sequences

CONSTANTS Names, Bytes,     \* file names and file contents, as model values
          RootName,         \* "/", the name of the root inode
          Clobbered,        \* a name overwritten by a pointer
          Garbage,          \* a byte of a buffer malloc gave out, never written
          MAX_CHILDREN,     \* 64, the length of tmpfs_inode.children
          MAX_COMPONENTS,   \* 16, the components parse_path keeps
          MAX_OPEN_FILES,   \* 64
          U32,              \* 2^32
          MallocMayFail,    \* FALSE for the malloc of stdlib.c
          MaxInodes, MaxFiles, MaxPos, \* bounds: inodes, open calls, file positions
          Paths, OpenFlags, Contents, Sizes, Offsets \* inputs of the calls

O_RDONLY == {}              \* 0x0000: no bit at all
O_WRONLY == {"wronly"}
O_RDWR == {"rdwr"}
O_CREAT == {"creat"}
O_APPEND == {"append"}
FlagBits == {"wronly", "rdwr", "creat", "append"}

ASSUME LimitAssumption ==
  /\ MAX_CHILDREN \in Nat \ {0} /\ MAX_COMPONENTS \in Nat \ {0}
  /\ MAX_OPEN_FILES \in Nat \ {0} /\ U32 \in Nat \ {0}
  /\ MaxInodes \in Nat \ {0} /\ MaxFiles \in Nat /\ MaxPos \in 0..(U32 - 1)
  /\ MallocMayFail \in BOOLEAN
  /\ MaxInodes <= MAX_CHILDREN + 64   \* children overflows into name, not beyond
ASSUME NameAssumption == {RootName, Clobbered} \cap Names = {} /\ Garbage \notin Bytes
ASSUME InputAssumption ==
  /\ Paths \subseteq Seq(Names) /\ OpenFlags \subseteq SUBSET FlagBits
  /\ Contents \subseteq Seq(Bytes) /\ \A buf \in Contents : Len(buf) < U32
  /\ Sizes \subseteq 0..(U32 - 1) /\ Offsets \subseteq Int

InodeId == 1..MaxInodes
FileId == 1..MaxFiles
NULL == 0

VARIABLES root,       \* inode of root_vnode, NULL until vfs_init
          inodes,     \* tmpfs inodes, in the order malloc made them
          ninodes,
          files,      \* file_t objects, each with its own vnode, in the order opened
          nfiles,
          open_files, \* the table of open files
          ret,        \* what the last call returned, with the bytes it read
          wild        \* "read" or "write" once such a call has left the file's buffer

tree == <<root, inodes, ninodes>>
handles == <<files, nfiles, open_files>>
vars == <<tree, handles, ret, wild>>

Byte == Bytes \cup {Garbage}
InodeType == [type : {"free", "file", "dir"}, name : Names \cup {RootName, Clobbered},
              parent : {NULL} \cup InodeId, children : Seq(InodeId), data : Seq(Byte)]
FileType == [inode : {NULL} \cup InodeId, f_pos : 0..(U32 - 1), flags : SUBSET FlagBits,
             vref : 0..2, open : BOOLEAN]

TypeOK == /\ root \in {NULL} \cup InodeId
          /\ inodes \in [InodeId -> InodeType] /\ ninodes \in 0..MaxInodes
          /\ files \in [FileId -> FileType] /\ nfiles \in 0..MaxFiles
          /\ open_files \in [1..MAX_OPEN_FILES -> {NULL} \cup FileId]
          /\ ret.code \in Int
          /\ wild \in {"none", "read", "write"}
          /\ \A i \in InodeId : Len(inodes[i].data) < U32

NoInode == [type |-> "free", name |-> RootName, parent |-> NULL,
            children |-> <<>>, data |-> <<>>]
NoFile == [inode |-> NULL, f_pos |-> 0, flags |-> {}, vref |-> 0, open |-> FALSE]

Init == /\ root = NULL
        /\ inodes = [i \in InodeId |-> NoInode] /\ ninodes = 0
        /\ files = [f \in FileId |-> NoFile] /\ nfiles = 0
        /\ open_files = [s \in 1..MAX_OPEN_FILES |-> NULL]
        /\ ret = [code |-> 0, buf |-> <<>>]
        /\ wild = "none"

Return(code) == ret' = [code |-> code, buf |-> <<>>]

\* A uint32_t returned as an int.
AsInt(n) == IF n >= U32 \div 2 THEN n - U32 ELSE n

\* The malloc of a call that finds no memory, counted from 1; 0 if none does.
Ooms == IF MallocMayFail THEN 0..(MAX_COMPONENTS + 2) ELSE {0}
-----------------------------------------------------------------------------
\* vfs_init and vfs_mount: three mallocs, for the mount, the root inode and its vnode.
\* Only a mount at "/" sets root_vnode, and kernel_main makes no other.
VfsInit(oom) ==
  /\ root = NULL /\ ninodes < MaxInodes
  /\ IF oom \in 1..3
     THEN UNCHANGED tree /\ Return(-1)
     ELSE /\ root' = ninodes + 1
          /\ ninodes' = ninodes + 1
          /\ inodes' = [inodes EXCEPT ![ninodes + 1] = [NoInode EXCEPT !.type = "dir"]]
          /\ Return(0)
  /\ UNCHANGED <<handles, wild>>
-----------------------------------------------------------------------------
\* Empty components vanish; those past MAX_COMPONENTS are dropped.
parse_path(path) ==
  SubSeq(path, 1, IF Len(path) > MAX_COMPONENTS THEN MAX_COMPONENTS ELSE Len(path))
Depth(path) == Len(parse_path(path))
Filename(path) == parse_path(path)[Depth(path)]

IsDir(d) == inodes[d].type = "dir"
IsFile(d) == inodes[d].type = "file"

HasChild(d, name) ==
  \E i \in DOMAIN inodes[d].children : inodes[inodes[d].children[i]].name = name

\* c is the first child of d with that name.
tmpfs_lookup(d, name, c) ==
  /\ IsDir(d)
  /\ \E i \in DOMAIN inodes[d].children :
       /\ inodes[d].children[i] = c /\ inodes[c].name = name
       /\ \A j \in 1..(i - 1) : inodes[inodes[d].children[j]].name # name

\* The loop of vfs_path_lookup stands at d after k components; walk holds the nodes
\* between the root and d.
Reaches(comps, k, d) ==
  /\ root # NULL
  /\ k = 0 => d = root
  /\ \E walk \in [1..(k - 1) -> InodeId] :
       LET at(i) == IF i = 0 THEN root ELSE IF i = k THEN d ELSE walk[i]
       IN  \A i \in 1..k : tmpfs_lookup(at(i - 1), comps[i], at(i))

\* vfs_path_lookup returns 0 and the node d.  Each lookup mallocs a vnode.
Found(path, oom, d) == /\ oom \notin 1..Depth(path)
                       /\ Reaches(parse_path(path), Depth(path), d)

\* vfs_path_lookup returns -2 and the directory d: the last lookup alone fails.
Missing(path, oom, d) ==
  /\ Depth(path) > 0 /\ oom \notin 1..(Depth(path) - 1)
  /\ Reaches(parse_path(path), Depth(path) - 1, d)
  /\ IsDir(d)
  /\ HasChild(d, Filename(path)) => oom = Depth(path)

\* Slip: no duplicate scan after a lookup that failed for lack of memory.
AddsUnchecked(path, oom, d) ==
  Missing(path, oom, d) /\ (oom = Depth(path) => HasChild(d, Filename(path)))

\* tmpfs_create or tmpfs_mkdir gets as far as to add a child to d.
Adds(path, oom, d) ==
  Missing(path, oom, d) /\ ~HasChild(d, Filename(path)) /\ oom # Depth(path)

\* Slip: a directory can be opened.
OpensAny(path, oom, d) == Found(path, oom, d) /\ oom # Depth(path) + 1

\* vfs_path_lookup and the malloc of tmpfs_open succeed on the file d.
Opens(path, oom, d) == Found(path, oom, d) /\ IsFile(d) /\ oom # Depth(path) + 1

\* Slips: the parent is always the root; the new child replaces the last one.
AddInodeToRoot(d, name, type) ==
  /\ ninodes < MaxInodes
  /\ ninodes' = ninodes + 1
  /\ inodes' = [inodes EXCEPT
       ![ninodes + 1] = [NoInode EXCEPT !.type = type, !.name = name, !.parent = root],
       ![d].children = Append(@, ninodes + 1)]
  /\ UNCHANGED root
AddInodeOverLast(d, name, type) ==
  /\ ninodes < MaxInodes
  /\ ninodes' = ninodes + 1
  /\ inodes' = [inodes EXCEPT
       ![ninodes + 1] = [NoInode EXCEPT !.type = type, !.name = name, !.parent = d],
       ![d].children = IF @ = <<>> THEN <<ninodes + 1>> ELSE [@ EXCEPT ![Len(@)] = ninodes + 1]]
  /\ UNCHANGED root

\* The new inode becomes the last child of d; past MAX_CHILDREN the pointer to it is
\* stored in the bytes of d's name, where children[i] still finds it.
AddInode(d, name, type) ==
  /\ ninodes < MaxInodes
  /\ ninodes' = ninodes + 1
  /\ inodes' = [inodes EXCEPT
       ![ninodes + 1] = [NoInode EXCEPT !.type = type, !.name = name, !.parent = d],
       ![d].children = Append(@, ninodes + 1),
       ![d].name = IF Len(inodes[d].children) >= MAX_CHILDREN THEN Clobbered ELSE @]
  /\ UNCHANGED root

\* tmpfs_open and the rest of vfs_open: the file takes the first free slot of the
\* table, or none when the table is full.
AddFile(i, flags, size) ==
  /\ nfiles < MaxFiles
  /\ nfiles' = nfiles + 1
  /\ files' = [files EXCEPT ![nfiles + 1] =
       [inode |-> i, f_pos |-> IF flags \cap O_APPEND # {} THEN size ELSE 0,
        flags |-> flags, vref |-> 2, open |-> TRUE]]
  /\ \/ \E s \in 1..MAX_OPEN_FILES :
          /\ open_files[s] = NULL /\ \A t \in 1..(s - 1) : open_files[t] # NULL
          /\ open_files' = [open_files EXCEPT ![s] = nfiles + 1]
     \/ /\ \A s \in 1..MAX_OPEN_FILES : open_files[s] # NULL
        /\ UNCHANGED open_files

VfsOpenExisting(path, flags, oom) ==
  /\ \E d \in InodeId : /\ Opens(path, oom, d)
                        /\ AddFile(d, flags, Len(inodes[d].data))
  /\ Return(0)
  /\ UNCHANGED <<tree, wild>>

VfsOpenCreate(path, flags, oom) ==
  /\ flags \cap O_CREAT # {} /\ oom \notin (Depth(path) + 1)..(Depth(path) + 2)
  /\ \E d \in InodeId : Adds(path, oom, d) /\ AddInode(d, Filename(path), "file")
  /\ AddFile(ninodes + 1, flags, 0)
  /\ Return(0)
  /\ UNCHANGED wild

\* Slip: the file_t is entered in the table before the result of malloc is looked at.
VfsOpenHalfOpen(path, flags, oom) ==
  /\ flags \cap O_CREAT # {} /\ oom \in (Depth(path) + 1)..(Depth(path) + 2)
  /\ \E d \in InodeId : Adds(path, oom, d) /\ AddInode(d, Filename(path), "file")
  /\ AddFile(ninodes + 1, flags, 0)
  /\ Return(-1)
  /\ UNCHANGED wild

\* The malloc of the new file's vnode or of its file_t fails: the call fails, and the
\* file stays in its directory.
VfsOpenHalfDone(path, flags, oom) ==
  /\ flags \cap O_CREAT # {} /\ oom \in (Depth(path) + 1)..(Depth(path) + 2)
  /\ \E d \in InodeId : Adds(path, oom, d) /\ AddInode(d, Filename(path), "file")
  /\ Return(-1)
  /\ UNCHANGED <<handles, wild>>

VfsOpenFails(path, flags, oom) ==
  /\ ~\E d \in InodeId : Opens(path, oom, d)
  /\ ~\E d \in InodeId : flags \cap O_CREAT # {} /\ Adds(path, oom, d)
  /\ Return(-1)
  /\ UNCHANGED <<tree, handles, wild>>

VfsMkdir(path, oom) ==
  /\ \E d \in InodeId : Adds(path, oom, d) /\ AddInode(d, Filename(path), "dir")
  /\ Return(0)
  /\ UNCHANGED <<handles, wild>>

VfsMkdirFails(path, oom) ==
  /\ ~\E d \in InodeId : Adds(path, oom, d)
  /\ Return(-1)
  /\ UNCHANGED <<tree, handles, wild>>
-----------------------------------------------------------------------------
\* The callers in kernel.c use a file_t only between vfs_open and vfs_close.
MayRead(f) == /\ \/ files[f].flags \cap O_RDONLY # {}
                 \/ files[f].flags \cap O_RDWR # {}
              /\ IsFile(files[f].inode)
MayWrite(f) == /\ \/ files[f].flags \cap O_WRONLY # {}
                  \/ files[f].flags \cap O_RDWR # {}
               /\ IsFile(files[f].inode)
Contained(f) == inodes[files[f].inode].data

\* Slip: the count is not cut at the end of the file.
ReadCountUncut(f, size) == IF files[f].f_pos >= Len(Contained(f)) THEN 0 ELSE size

\* Bytes tmpfs_read copies: the sum is a uint32_t.
ReadCount(f, size) ==
  LET pos == files[f].f_pos
      len == Len(Contained(f))
  IN  IF pos >= len THEN 0 ELSE IF (pos + size) % U32 > len THEN len - pos ELSE size

VfsRead(f, size) ==
  /\ files[f].open /\ MayRead(f)
  /\ LET pos == files[f].f_pos
         data == Contained(f)
         n == ReadCount(f, size)
     IN  /\ ret' = [code |-> AsInt(n), buf |-> [k \in 1..n |->
                      IF pos + k <= Len(data) THEN data[pos + k] ELSE Garbage]]
         /\ files' = [files EXCEPT ![f].f_pos = (pos + n) % U32]
         /\ wild' = IF n > 0 /\ pos + n > Len(data) THEN "read" ELSE wild
  /\ UNCHANGED <<tree, nfiles, open_files>>

VfsReadDenied(f) ==
  /\ files[f].open /\ ~MayRead(f)
  /\ Return(-1)
  /\ UNCHANGED <<tree, handles, wild>>

\* The size of the file after tmpfs_write: the sum is a uint32_t.
NewSize(f, n) ==
  LET end == (files[f].f_pos + n) % U32
      len == Len(Contained(f))
  IN  IF end > len THEN end ELSE len

\* Slip: what the file held is not copied to its new buffer.
WrittenAfresh(f, buf) ==
  [k \in 1..NewSize(f, Len(buf)) |->
     LET j == (k - 1 - files[f].f_pos) % U32 IN IF j < Len(buf) THEN buf[j + 1] ELSE Garbage]

\* The file's bytes after memcpy to its position: data + f_pos wraps like any address,
\* and what lies between the old end and the position is never written.
Written(f, buf) ==
  [k \in 1..NewSize(f, Len(buf)) |->
     LET j == (k - 1 - files[f].f_pos) % U32
     IN  IF j < Len(buf) THEN buf[j + 1]
         ELSE IF k <= Len(Contained(f)) THEN Contained(f)[k] ELSE Garbage]

VfsWrite(f, buf, oom) ==
  /\ files[f].open /\ MayWrite(f)
  /\ oom = 1 => NewSize(f, Len(buf)) = Len(Contained(f))
  /\ LET pos == files[f].f_pos
     IN  /\ (pos + Len(buf)) % U32 <= MaxPos
         /\ inodes' = [inodes EXCEPT ![files[f].inode].data = Written(f, buf)]
         /\ files' = [files EXCEPT ![f].f_pos = (pos + Len(buf)) % U32]
         /\ wild' = IF \E j \in 0..(Len(buf) - 1) :
                          (pos + j) % U32 >= NewSize(f, Len(buf)) THEN "write" ELSE wild
  /\ Return(AsInt(Len(buf)))
  /\ UNCHANGED <<root, ninodes, nfiles, open_files>>

VfsWriteFails(f, buf, oom) ==
  /\ files[f].open
  /\ MayWrite(f) => oom = 1 /\ NewSize(f, Len(buf)) > Len(Contained(f))
  /\ Return(-1)
  /\ UNCHANGED <<tree, handles, wild>>

\* Slip: f_pos is signed.
VfsLseekSigned(f, offset, whence) ==
  /\ files[f].open
  /\ LET base == CASE whence = 0 -> 0
                   [] whence = 1 -> files[f].f_pos
                   [] whence = 2 -> Len(Contained(f))
         pos == base + offset
     IN  /\ pos <= MaxPos
         /\ files' = [files EXCEPT ![f].f_pos = pos]
         /\ Return(pos)
  /\ UNCHANGED <<tree, nfiles, open_files, wild>>

\* f_pos is unsigned: a negative position becomes a huge one.
VfsLseek(f, offset, whence) ==
  /\ files[f].open
  /\ LET base == CASE whence = 0 -> 0
                   [] whence = 1 -> files[f].f_pos
                   [] whence = 2 -> Len(Contained(f))
         pos == (base + offset) % U32
     IN  /\ pos <= MaxPos
         /\ files' = [files EXCEPT ![f].f_pos = pos]
         /\ Return(AsInt(pos))
  /\ UNCHANGED <<tree, nfiles, open_files, wild>>

VfsLseekFails(f) ==
  /\ files[f].open
  /\ Return(-1)
  /\ UNCHANGED <<tree, handles, wild>>

\* Slip: the slot is found by the inode, which another file may be open on.
VfsCloseByInode(f) ==
  LET slots == {s \in 1..MAX_OPEN_FILES :
                  /\ open_files[s] # NULL
                  /\ files[open_files[s]].inode = files[f].inode}
  IN  /\ files[f].open
      /\ files' = [files EXCEPT ![f].open = FALSE, ![f].vref = @ - 1]
      /\ open_files' = [s \in 1..MAX_OPEN_FILES |->
           IF s \in slots /\ \A t \in slots : s <= t THEN NULL ELSE open_files[s]]
      /\ Return(0)
      /\ UNCHANGED <<tree, nfiles, wild>>

\* tmpfs_close drops a reference to the vnode and frees nothing; the file's slot of
\* the table, if it has one, becomes free.
VfsClose(f) ==
  /\ files[f].open
  /\ files' = [files EXCEPT ![f].open = FALSE, ![f].vref = @ - 1]
  /\ open_files' = [s \in 1..MAX_OPEN_FILES |->
       IF open_files[s] = f /\ \A t \in 1..(s - 1) : open_files[t] # f
       THEN NULL ELSE open_files[s]]
  /\ Return(0)
  /\ UNCHANGED <<tree, nfiles, wild>>

\* Once a call has left its buffer the variables no longer describe the program.
Next ==
  wild = "none" /\ \E oom \in Ooms :
    \/ VfsInit(oom)
    \/ \E path \in Paths : VfsMkdir(path, oom) \/ VfsMkdirFails(path, oom)
    \/ \E path \in Paths, flags \in OpenFlags :
         \/ VfsOpenExisting(path, flags, oom)
         \/ VfsOpenCreate(path, flags, oom)
         \/ VfsOpenHalfDone(path, flags, oom)
         \/ VfsOpenFails(path, flags, oom)
    \/ \E f \in FileId :
         \/ \E size \in Sizes : VfsRead(f, size)
         \/ VfsReadDenied(f)
         \/ \E buf \in Contents : VfsWrite(f, buf, oom) \/ VfsWriteFails(f, buf, oom)
         \/ \E offset \in Offsets, whence \in 0..2 : VfsLseek(f, offset, whence)
         \/ VfsLseekFails(f)
         \/ VfsClose(f)

Spec == Init /\ [][Next]_vars
-----------------------------------------------------------------------------
Used == 1..ninodes

\* tmpfs is one tree: whatever is created or half created, an inode is the child of
\* exactly the directory its parent field names, made before it; files have no
\* children and directories no data (vfs.c:149-157,196-205).
TreeShape ==
  /\ root # NULL => root \in Used /\ IsDir(root)
  /\ \A i \in InodeId \ Used : inodes[i] = NoInode
  /\ \A d \in InodeId : \A k \in DOMAIN inodes[d].children :
       LET c == inodes[d].children[k] IN c \in Used /\ c > d /\ inodes[c].parent = d
  /\ \A i \in Used \ {root} :
       /\ inodes[i].parent \in Used
       /\ \E k \in DOMAIN inodes[inodes[i].parent].children :
            inodes[inodes[i].parent].children[k] = i
  /\ \A i \in InodeId : /\ IsFile(i) => inodes[i].children = <<>>
                        /\ IsDir(i) => inodes[i].data = <<>>

\* No two entries of a directory have one name, so that the first match of a lookup
\* is the only one; a failed malloc in the middle of vfs_open must not break it
\* (vfs.c:105,139,186).
SiblingNamesDistinct ==
  \A d \in InodeId : \A j, k \in DOMAIN inodes[d].children :
    LET name(i) == inodes[inodes[d].children[i]].name
    IN  name(j) = name(k) => j = k \/ name(j) = Clobbered

\* A file_t in use leads to a file of the tree, never to a directory (vfs.c:473).
HandlesOnFiles ==
  /\ \A f \in 1..nfiles : files[f].inode \in Used /\ IsFile(files[f].inode)
  /\ \A f \in FileId : f > nfiles => files[f] = NoFile

Slots == 1..MAX_OPEN_FILES
Opened(f) == ~files[f].open /\ files'[f].open
Closed(f) == files[f].open /\ ~files'[f].open

\* The table follows the files, and not their inodes: a file that is opened while a slot is
\* free takes one slot, which was free; a file that is closed leaves its slot, and no call
\* touches the slot of another, be it open on the same inode (vfs.c:491-497,534-539).
TableFollowsFiles ==
  [][/\ \A s \in Slots : open_files'[s] # open_files[s] =>
          \/ open_files[s] = NULL /\ Opened(open_files'[s])
          \/ open_files'[s] = NULL /\ Closed(open_files[s])
     /\ \A f \in FileId :
          /\ Opened(f) /\ (\E s \in Slots : open_files[s] = NULL) =>
               \E s \in Slots : \A t \in Slots : open_files'[t] = f <=> t = s
          /\ Closed(f) => \A s \in Slots : open_files'[s] # f]_vars

\* No read or write leaves the bytes of its file: vfs.c:217 "Проверяем границы" (we check
\* the bounds), vfs.c:241 "Расширяем файл если нужно" (we extend the file if needed).
NoStrayAccess == wild = "none"

\* vfs.c:19 "children[64]; // Для директорий - записи": the entries of a directory are in
\* its array of children.
EntriesInChildren == \A d \in InodeId : Len(inodes[d].children) <= MAX_CHILDREN

\* A path that leads somewhere leads there ever after, as long as the entries of every
\* directory fit: nothing is unlinked or renamed, and no later create hides it
\* (vfs.c:105-126,157,205).
PathsStable ==
  [][tree' # tree /\ EntriesInChildren' =>
       \A path \in Paths, d \in InodeId : Found(path, 0, d) => Found(path, 0, d)']_vars

\* One new empty file as the last entry of a directory that had none of its name; nothing
\* else differs, but for the name of a directory whose entries are full, which the pointer to
\* the new one overwrites (vfs.c:157).
EmptyFileAdded ==
  LET new == ninodes + 1
  IN  /\ ninodes' = new
      /\ \E d \in Used, name \in Names :
           /\ IsDir(d) /\ ~HasChild(d, name)
           /\ inodes'[new] = [NoInode EXCEPT !.type = "file", !.name = name, !.parent = d]
           /\ inodes'[d] = [inodes[d] EXCEPT !.children = Append(@, new),
                                             !.name = inodes'[d].name]
           /\ inodes'[d].name = inodes[d].name \/ Len(inodes[d].children) >= MAX_CHILDREN
           /\ \A i \in InodeId \ {d, new} : inodes'[i] = inodes[i]

\* A call that returns -1 changes nothing, no open file, no name, entry or content, unless a
\* malloc after vfs.c:157 fails, when it leaves an empty file in its directory; an entry that
\* does not fit overwrites the directory's name then, as it does when the call succeeds.
FailedCallsPure ==
  [][ret'.code = -1 => /\ UNCHANGED <<root, handles>>
                       /\ UNCHANGED <<inodes, ninodes>> \/ EmptyFileAdded]_vars

\* A file's bytes change only under a file_t opened for writing on it, and then only
\* where the write went: what other handles wrote before, or beyond, stays
\* (vfs.c:243-257,520).
WritesInPlace ==
  [][\A i \in Used : inodes'[i].data # inodes[i].data =>
       \E f \in 1..nfiles :
         /\ files[f].open /\ files[f].inode = i /\ ret'.code >= 0
         /\ files[f].flags \cap (O_WRONLY \cup O_RDWR) # {}
         /\ Len(inodes'[i].data) >= Len(inodes[i].data)
         /\ \A k \in 1..Len(inodes[i].data) :
              k \notin (files[f].f_pos + 1)..(files[f].f_pos + ret'.code)
                => inodes'[i].data[k] = inodes[i].data[k]]_vars
\* vfs.c:507,512 "Проверяем права доступа ... Нет прав на чтение": a read is refused to a
\* file_t that was not opened for reading; O_RDONLY and O_RDWR open for reading.
ReadersMayRead ==
  \A f \in FileId : files[f].open /\ files[f].flags \cap O_WRONLY = {} => MayRead(f)
=============================================================================
