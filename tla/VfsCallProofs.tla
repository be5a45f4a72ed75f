---------------------------- MODULE VfsCallProofs ---------------------------
(* What the calls of vfs.c leave as it was, proved from the invariant of     *)
(* VfsProofs.  First, paths keep their meaning: a step never changes the     *)
(* type, the name or the entries of an inode that exists, except to append   *)
(* an entry, so that each lookup of a walk finds the same first match        *)
(* afterwards.  Then reads and writes stay inside their file, a write        *)
(* changes no byte but those it is given and a call that fails changes no    *)
(* file, as long as no sum of a position and a size wraps.  That argument is *)
(* about lengths: no file and no position is beyond MaxPos, so that sums are *)
(* exact and the bound checks of tmpfs_read and tmpfs_write mean what they   *)
(* say.  Last, what a step does to the table of open files.                  *)
EXTENDS VfsProofs

\* What a lookup reads of an inode that exists is still there after the step.
KeepsLookups ==
  /\ root' = root
  /\ \A i \in Used :
       /\ inodes'[i].type = inodes[i].type /\ inodes'[i].name = inodes[i].name
       /\ \A k \in DOMAIN inodes[i].children :
            /\ k \in DOMAIN inodes'[i].children
            /\ inodes'[i].children[k] = inodes[i].children[k]

LEMMA ChildrenAreUsed ==
  ASSUME TreeInv, NEW e \in Used
  PROVE  /\ e \in InodeId /\ inodes[e].children \in Seq(InodeId)
         /\ \A k \in DOMAIN inodes[e].children : inodes[e].children[k] \in Used
<1>1. e \in InodeId
  BY UsedIsInodeId
<1>2. inodes[e] \in InodeType
  BY <1>1 DEF TreeInv, TreeTypes
<1> QED
  BY <1>1, <1>2 DEF InodeType, TreeInv, TreeShape

\* One lookup of a walk.
LEMMA LookupKept ==
  ASSUME TreeInv, KeepsLookups, NEW e \in Used, NEW name, NEW c, tmpfs_lookup(e, name, c)
  PROVE  tmpfs_lookup(e, name, c)' /\ c \in Used
<1>1. PICK i \in DOMAIN inodes[e].children :
        /\ inodes[e].children[i] = c /\ inodes[c].name = name
        /\ \A j \in 1..(i - 1) : inodes[inodes[e].children[j]].name # name
  BY DEF tmpfs_lookup
<1>2. c \in Used
  BY <1>1, ChildrenAreUsed
<1>3. i \in DOMAIN inodes'[e].children /\ inodes'[e].children[i] = c /\ inodes'[c].name = name
  BY <1>1, <1>2 DEF KeepsLookups
<1>4. \A j \in 1..(i - 1) : inodes'[inodes'[e].children[j]].name # name
  <2> TAKE j \in 1..(i - 1)
  <2>1. j \in DOMAIN inodes[e].children
    BY ChildrenAreUsed
  <2>2. inodes[e].children[j] \in Used /\ inodes'[e].children[j] = inodes[e].children[j]
    BY <2>1, ChildrenAreUsed DEF KeepsLookups
  <2> QED
    BY <2>2, <1>1 DEF KeepsLookups
<1>5. inodes'[e].type = "dir"
  BY DEF tmpfs_lookup, IsDir, KeepsLookups
<1> QED
  BY <1>2, <1>3, <1>4, <1>5 DEF tmpfs_lookup, IsDir

\* The whole walk.
LEMMA ReachesKept ==
  ASSUME TreeInv, KeepsLookups, NEW comps, NEW k \in Nat, NEW d, Reaches(comps, k, d)
  PROVE  Reaches(comps, k, d)'
<1> DEFINE at(walk, i) == IF i = 0 THEN root ELSE IF i = k THEN d ELSE walk[i]
<1>1. /\ root # NULL /\ root \in Used /\ root' = root
      /\ k = 0 => d = root
  BY DEF Reaches, TreeInv, TreeShape, KeepsLookups
<1>2. PICK walk \in [1..(k - 1) -> InodeId] :
        \A i \in 1..k : tmpfs_lookup(at(walk, i - 1), comps[i], at(walk, i))
  BY DEF Reaches
\* Every node the walk passes is the root or was found by the lookup before.
<1>3. \A i \in 0..(k - 1) : at(walk, i) \in Used
  <2> TAKE i \in 0..(k - 1)
  <2>1. CASE i = 0
    BY <2>1, <1>1
  <2>2. CASE i # 0
    <3>1. i \in 1..k /\ i \in 1..(k - 1) /\ (i - 1 # 0 => i - 1 \in 1..(k - 1)) /\ i - 1 # k
      BY <2>2
    <3>2. at(walk, i - 1) \in InodeId
      BY <3>1, <1>1, <1>2, UsedIsInodeId
    <3>3. tmpfs_lookup(at(walk, i - 1), comps[i], at(walk, i))
      BY <3>1, <1>2
    <3> HIDE DEF at
    <3>4. \E m \in DOMAIN inodes[at(walk, i - 1)].children :
            inodes[at(walk, i - 1)].children[m] = at(walk, i)
      BY <3>3 DEF tmpfs_lookup
    <3> QED
      BY <3>2, <3>4 DEF TreeInv, TreeShape
  <2> QED
    BY <2>1, <2>2
<1>4. \A i \in 1..k : tmpfs_lookup(at(walk, i - 1), comps[i], at(walk, i))'
  <2> TAKE i \in 1..k
  <2>1. at(walk, i - 1) \in Used
    BY <1>3
  <2>2. tmpfs_lookup(at(walk, i - 1), comps[i], at(walk, i))
    BY <1>2
  <2>3. PICK e \in Used, c \in Used : e = at(walk, i - 1) /\ c = at(walk, i)
    BY <2>1, <2>2, LookupKept
  <2>4. tmpfs_lookup(e, comps[i], c)
    BY <2>2, <2>3
  <2>5. tmpfs_lookup(e, comps[i], c)'
    BY <2>4, LookupKept
  <2>6. e = at(walk, i - 1)' /\ c = at(walk, i)'
    BY <2>3, <1>1
  <2> HIDE DEF at
  <2> QED
    BY <2>5, <2>6 DEF tmpfs_lookup, IsDir
<1> QED
  BY <1>1, <1>2, <1>4 DEF Reaches

\* A new child is appended, and no name is overwritten while the children fit.
LEMMA AddKeeps ==
  ASSUME TreeInv, NEW path \in Paths, NEW oom, NEW type \in {"file", "dir"},
         \E d \in InodeId : Adds(path, oom, d) /\ AddInode(d, Filename(path), type),
         EntriesInChildren'
  PROVE  KeepsLookups
<1>1. PICK d \in InodeId : Adds(path, oom, d) /\ AddInode(d, Filename(path), type)
  OBVIOUS
<1>2. d \in Used /\ IsDir(d) /\ Filename(path) \in Names
  BY <1>1, AddsUsed
<1>3. /\ root' = root /\ ninodes' \notin Used
      /\ inodes'[d].children = Append(inodes[d].children, ninodes')
      /\ Len(inodes[d].children) < MAX_CHILDREN => inodes'[d].name = inodes[d].name
      /\ inodes'[d].type = inodes[d].type
      /\ \A i \in InodeId : i # d /\ i # ninodes' => inodes'[i] = inodes[i]
  BY <1>1, <1>2, AddInodeFields
<1>4. inodes[d].children \in Seq(InodeId) /\ ninodes' \in InodeId
  BY <1>1, <1>2, ChildrenAreUsed, AddInodeFields
<1>5. inodes'[d].name = inodes[d].name
  <2>1. Len(inodes'[d].children) = Len(inodes[d].children) + 1
    BY <1>3, <1>4
  <2>2. Len(inodes'[d].children) <= MAX_CHILDREN
    BY DEF EntriesInChildren, InodeId
  <2> QED
    BY <2>1, <2>2, <1>3, <1>4, Constants
<1>6. \A k \in DOMAIN inodes[d].children : /\ k \in DOMAIN inodes'[d].children
                                           /\ inodes'[d].children[k] = inodes[d].children[k]
  BY <1>3, <1>4
<1>7. \A i \in Used : i # d => inodes'[i] = inodes[i]
  BY <1>3, UsedIsInodeId
<1> QED
  BY <1>3, <1>5, <1>6, <1>7 DEF KeepsLookups

\* tmpfs_write replaces the content of a file and nothing else.
LEMMA WriteKeeps ==
  ASSUME TreeInv, FileInv, NEW f \in FileId, NEW buf \in Contents, NEW oom,
         VfsWrite(f, buf, oom)
  PROVE  KeepsLookups
<1> DEFINE i == files[f].inode
<1>1. i \in InodeId /\ root' = root
  BY OpenHandle, UsedIsInodeId DEF VfsWrite
<1>2. inodes \in [InodeId -> InodeType] /\ Used \subseteq InodeId
  BY UsedIsInodeId DEF TreeInv, TreeTypes
<1>3. PICK data : inodes' = [inodes EXCEPT ![i].data = data]
  BY DEF VfsWrite
<1>4. \A j \in InodeId : /\ inodes'[j].type = inodes[j].type
                         /\ inodes'[j].name = inodes[j].name
                         /\ inodes'[j].children = inodes[j].children
  <2> HIDE DEF i
  <2> TAKE j \in InodeId
  <2>1. inodes[j] \in InodeType /\ inodes'[j] = IF j = i THEN [inodes[i] EXCEPT !.data = data]
                                                ELSE inodes[j]
    BY <1>1, <1>2, <1>3
  <2> QED
    BY <2>1 DEF InodeType
<1> QED
  BY <1>1, <1>2, <1>4 DEF KeepsLookups

\* A step keeps what lookups read, unless it makes the root: then there was no path yet.
LEMMA StepKeeps ==
  ASSUME Inv, Next, EntriesInChildren', tree' # tree
  PROVE  KeepsLookups \/ root = NULL
<1>1. TreeInv /\ FileInv
  BY InvParts
<1>2. PICK oom \in Ooms :
        \/ VfsInit(oom)
        \/ \E path \in Paths : VfsMkdir(path, oom)
        \/ \E path \in Paths, flags \in OpenFlags :
             VfsOpenCreate(path, flags, oom) \/ VfsOpenHalfDone(path, flags, oom)
        \/ \E f \in FileId, buf \in Contents : VfsWrite(f, buf, oom)
  <2> DEFINE Makes(oom) ==
        \/ VfsInit(oom)
        \/ \E path \in Paths : VfsMkdir(path, oom)
        \/ \E path \in Paths, flags \in OpenFlags :
             VfsOpenCreate(path, flags, oom) \/ VfsOpenHalfDone(path, flags, oom)
        \/ \E f \in FileId, buf \in Contents : VfsWrite(f, buf, oom)
  <2>1. ASSUME NEW oom \in Ooms, NEW path \in Paths, NEW flags \in OpenFlags
        PROVE  ~VfsMkdirFails(path, oom) /\ ~VfsOpenExisting(path, flags, oom)
               /\ ~VfsOpenFails(path, flags, oom)
    BY DEF VfsMkdirFails, VfsOpenExisting, VfsOpenFails
  <2>2. ASSUME NEW oom \in Ooms, NEW path \in Paths
        PROVE  ~VfsMkdirFails(path, oom)
    BY DEF VfsMkdirFails
  <2>3. ASSUME NEW oom \in Ooms, NEW f \in FileId, NEW size, NEW buf, NEW offset, NEW whence
        PROVE  /\ ~VfsRead(f, size) /\ ~VfsReadDenied(f) /\ ~VfsWriteFails(f, buf, oom)
               /\ ~VfsLseek(f, offset, whence) /\ ~VfsLseekFails(f) /\ ~VfsClose(f)
    BY DEF VfsRead, VfsReadDenied, VfsWriteFails, VfsLseek, VfsLseekFails, VfsClose
  <2>4. \E oom \in Ooms : Makes(oom)
    BY <2>1, <2>2, <2>3 DEF Next
  <2> QED
    BY <2>4
<1>3. CASE VfsInit(oom)
  BY <1>3 DEF VfsInit
<1>4. CASE \E path \in Paths : VfsMkdir(path, oom)
  BY <1>4, <1>1, AddKeeps DEF VfsMkdir
<1>5. CASE \E path \in Paths, flags \in OpenFlags :
             VfsOpenCreate(path, flags, oom) \/ VfsOpenHalfDone(path, flags, oom)
  BY <1>5, <1>1, AddKeeps DEF VfsOpenCreate, VfsOpenHalfDone
<1>6. CASE \E f \in FileId, buf \in Contents : VfsWrite(f, buf, oom)
  BY <1>6, <1>1, WriteKeeps
<1> QED
  BY <1>2, <1>3, <1>4, <1>5, <1>6

LEMMA FoundKept ==
  ASSUME Inv, KeepsLookups \/ root = NULL, NEW path \in Paths, NEW d \in InodeId,
         Found(path, 0, d)
  PROVE  Found(path, 0, d)'
<1>1. Depth(path) \in Nat /\ Reaches(parse_path(path), Depth(path), d)
  BY FilenameIsName DEF Found
<1>2. KeepsLookups /\ TreeInv
  BY <1>1 DEF Reaches, Inv
<1>3. Reaches(parse_path(path), Depth(path), d)'
  BY <1>1, <1>2, ReachesKept
<1> QED
  BY <1>3 DEF Found, Depth, parse_path
-----------------------------------------------------------------------------
\* As long as the entries of every directory fit in its array, a path that leads to an
\* inode leads there ever after (vfs.c:105-126,157,205).
THEOREM PathsStayStable == Spec => PathsStable
<1>1. Inv /\ [Next]_vars =>
        [tree' # tree /\ EntriesInChildren' =>
           \A path \in Paths, d \in InodeId : Found(path, 0, d) => Found(path, 0, d)']_vars
  <2> SUFFICES ASSUME Inv, Next, tree' # tree, EntriesInChildren',
                      NEW path \in Paths, NEW d \in InodeId, Found(path, 0, d)
               PROVE  Found(path, 0, d)'
    BY DEF vars
  <2> QED
    BY StepKeeps, FoundKept
<1> QED
  BY Invariance, <1>1, PTL DEF Spec, PathsStable
-----------------------------------------------------------------------------
\* The callers' sizes are such that no sum with a position wraps, and a count of bytes
\* written is not negative as an int.
NoWrap == /\ \A size \in Sizes : size + MaxPos < U32
          /\ \A buf \in Contents : Len(buf) + MaxPos < U32 /\ Len(buf) < U32 \div 2

DataInBounds == \A i \in InodeId : Len(inodes[i].data) <= MaxPos
PositionsInBounds == \A f \in FileId : files[f].f_pos <= MaxPos
IoInv == Inv /\ DataInBounds /\ PositionsInBounds /\ wild = "none"

LEMMA Exact == ASSUME NEW n \in 0..(U32 - 1) PROVE n % U32 = n
BY Constants

LEMMA ExactBelow == ASSUME NEW n \in Int, n + U32 \in 0..(U32 - 1) PROVE n % U32 = n + U32
BY Constants

LEMMA MaxPosIsNat == MaxPos \in Nat /\ MaxPos < U32
BY LimitAssumption, Constants

LEMMA InitIoInv == Init => IoInv
<1> SUFFICES ASSUME Init PROVE IoInv
  OBVIOUS
<1>1. \A i \in InodeId : Len(inodes[i].data) = 0
  BY NoInodeFields DEF Init
<1>2. \A f \in FileId : files[f].f_pos = 0
  BY DEF Init, NoFile
<1> QED
  BY <1>1, <1>2, InitInv, MaxPosIsNat DEF IoInv, DataInBounds, PositionsInBounds, Init

\* New inodes are empty.
LEMMA AddBounds ==
  ASSUME TreeInv, DataInBounds, NEW path \in Paths, NEW oom, NEW type \in {"file", "dir"},
         \E d \in InodeId : Adds(path, oom, d) /\ AddInode(d, Filename(path), type)
  PROVE  DataInBounds'
<1>1. PICK d \in InodeId : Adds(path, oom, d) /\ AddInode(d, Filename(path), type)
  OBVIOUS
<1>2. d \in Used /\ IsDir(d) /\ Filename(path) \in Names
  BY <1>1, AddsUsed
<1>3. /\ inodes'[ninodes'].data = <<>> /\ inodes'[d].data = inodes[d].data
      /\ \A i \in InodeId : i # d /\ i # ninodes' => inodes'[i] = inodes[i]
  BY <1>1, <1>2, AddInodeFields
<1>4. Len(<<>>) = 0
  OBVIOUS
<1> QED
  BY <1>3, <1>4, MaxPosIsNat DEF DataInBounds

\* A file is opened at its start or at its end.
LEMMA AddFileBounds ==
  ASSUME FileInv, PositionsInBounds, NEW i, NEW flags, NEW size \in 0..MaxPos,
         AddFile(i, flags, size)
  PROVE  PositionsInBounds'
<1> DEFINE p == IF flags \cap O_APPEND # {} THEN size ELSE 0
<1>1. files' = [files EXCEPT ![nfiles + 1] =
        [inode |-> i, f_pos |-> p, flags |-> flags, vref |-> 2, open |-> TRUE]]
  BY DEF AddFile
<1>2. p \in 0..MaxPos
  BY MaxPosIsNat
<1> HIDE DEF p
<1>3. \A f \in FileId : files'[f].f_pos \in {p, files[f].f_pos}
  BY <1>1 DEF FileInv, FileTypes
<1> QED
  BY <1>2, <1>3, MaxPosIsNat DEF PositionsInBounds

\* What tmpfs_read copies lies in the file.
LEMMA ReadStays ==
  ASSUME NoWrap, TreeInv, FileInv, DataInBounds, PositionsInBounds,
         NEW f \in FileId, files[f].open, NEW size \in Sizes
  PROVE  /\ ReadCount(f, size) \in Nat
         /\ files[f].f_pos + ReadCount(f, size) <= MaxPos
         /\ ReadCount(f, size) > 0
              => files[f].f_pos + ReadCount(f, size) <= Len(Contained(f))
<1> DEFINE pos == files[f].f_pos
           len == Len(Contained(f))
<1>1. pos \in Nat /\ len \in Nat /\ pos <= MaxPos /\ len <= MaxPos
  <2>1. files[f].inode \in InodeId
    BY OpenHandle, UsedIsInodeId
  <2> QED
    BY <2>1, OpenHandle, Constants DEF DataInBounds, PositionsInBounds, Contained
<1>2. size \in Nat /\ size + MaxPos < U32
  BY InputAssumption, Constants DEF NoWrap
<1>3. (pos + size) % U32 = pos + size
  <2>1. pos + size \in 0..(U32 - 1)
    BY <1>1, <1>2, MaxPosIsNat, Constants
  <2> QED
    BY <2>1, Exact
<1>4. ReadCount(f, size) =
        IF pos >= len THEN 0 ELSE IF pos + size > len THEN len - pos ELSE size
  BY <1>3 DEF ReadCount
<1> HIDE DEF pos, len
<1>5. CASE pos >= len
  BY <1>1, <1>4, <1>5 DEF pos, len
<1>6. CASE pos < len
  <2>1. ReadCount(f, size) \in Nat /\ pos + ReadCount(f, size) <= len
    BY <1>1, <1>2, <1>4, <1>6
  <2> QED
    BY <2>1, <1>1, <1>6, MaxPosIsNat DEF pos, len
<1> QED
  BY <1>1, <1>5, <1>6

\* What tmpfs_write stores lies in the file, which then ends at MaxPos at most.
LEMMA WriteStays ==
  ASSUME NoWrap, TreeInv, FileInv, DataInBounds, PositionsInBounds,
         NEW f \in FileId, files[f].open, NEW buf \in Contents,
         (files[f].f_pos + Len(buf)) % U32 <= MaxPos
  PROVE  /\ Len(buf) \in Nat /\ files[f].f_pos \in Nat
         /\ files[f].f_pos + Len(buf) <= MaxPos
         /\ (files[f].f_pos + Len(buf)) % U32 = files[f].f_pos + Len(buf)
         /\ files[f].f_pos + Len(buf) <= NewSize(f, Len(buf))
         /\ Len(Contained(f)) <= NewSize(f, Len(buf)) /\ Len(Contained(f)) \in Nat
         /\ NewSize(f, Len(buf)) \in 0..MaxPos
<1> DEFINE pos == files[f].f_pos
           len == Len(Contained(f))
           n == Len(buf)
<1>1. pos \in Nat /\ len \in Nat /\ pos <= MaxPos /\ len <= MaxPos
  <2>1. files[f].inode \in InodeId
    BY OpenHandle, UsedIsInodeId
  <2> QED
    BY <2>1, OpenHandle, Constants DEF DataInBounds, PositionsInBounds, Contained
<1>2. n \in Nat /\ n + MaxPos < U32
  <2>1. buf \in Seq(Bytes)
    BY InputAssumption
  <2> QED
    BY <2>1 DEF NoWrap
<1>3. (pos + n) % U32 = pos + n
  <2> HIDE DEF pos, len, n
  <2>1. pos + n \in 0..(U32 - 1)
    BY <1>1, <1>2, MaxPosIsNat, Constants
  <2> QED
    BY <2>1, Exact
<1>4. NewSize(f, n) = IF pos + n > len THEN pos + n ELSE len
  BY <1>3 DEF NewSize
<1> HIDE DEF pos, len, n
<1>5. pos + n <= MaxPos
  BY <1>3 DEF pos, n
<1>6. pos + n <= NewSize(f, n) /\ len <= NewSize(f, n) /\ NewSize(f, n) \in 0..MaxPos
  BY <1>1, <1>2, <1>4, <1>5, MaxPosIsNat
<1> QED
  BY <1>1, <1>2, <1>3, <1>5, <1>6 DEF pos, len, n
-----------------------------------------------------------------------------
\* Calls that move the position of one open file to pos, and change no content.
LEMMA MoveBounds ==
  ASSUME FileInv, PositionsInBounds, NEW f \in FileId, NEW pos \in 0..MaxPos,
         files' = [files EXCEPT ![f].f_pos = pos]
  PROVE  PositionsInBounds'
<1>1. \A g \in FileId : files[g] \in FileType
  BY DEF FileInv, FileTypes
<1>2. \A g \in FileId : files'[g].f_pos \in {pos, files[g].f_pos}
  BY <1>1 DEF FileInv, FileTypes, FileType
<1> QED
  BY <1>2, MaxPosIsNat DEF PositionsInBounds

LEMMA VfsReadIo ==
  ASSUME NoWrap, IoInv, NEW f \in FileId, NEW size \in Sizes, VfsRead(f, size)
  PROVE  DataInBounds' /\ PositionsInBounds' /\ wild' = "none"
<1> DEFINE n == ReadCount(f, size)
           pos == files[f].f_pos + n
<1>1. TreeInv /\ FileInv /\ files[f].open /\ wild = "none"
  BY InvParts DEF IoInv, VfsRead
<1>2. n \in Nat /\ pos <= MaxPos /\ (n > 0 => pos <= Len(Contained(f)))
  BY <1>1, ReadStays DEF IoInv
<1>3. files[f].f_pos \in Nat /\ Len(Contained(f)) \in Nat
  BY <1>1, OpenHandle, Constants
<1>4. files' = [files EXCEPT ![f].f_pos = pos % U32] /\ UNCHANGED inodes
  BY DEF VfsRead, tree
<1>5. wild' = IF n > 0 /\ pos > Len(Contained(f)) THEN "read" ELSE wild
  BY DEF VfsRead
<1>6. pos \in 0..MaxPos
  BY <1>2, <1>3, MaxPosIsNat
<1> HIDE DEF n
<1>7. wild' = "none"
  BY <1>1, <1>2, <1>3, <1>5
<1> HIDE DEF pos
<1>8. pos % U32 = pos
  BY <1>6, MaxPosIsNat, Constants, Exact
<1>9. PositionsInBounds'
  BY <1>1, <1>4, <1>6, <1>8, MoveBounds DEF IoInv
<1> QED
  BY <1>4, <1>7, <1>9 DEF IoInv, DataInBounds

LEMMA VfsLseekIo ==
  ASSUME IoInv, NEW f \in FileId, NEW offset \in Offsets, NEW whence \in 0..2,
         VfsLseek(f, offset, whence)
  PROVE  DataInBounds' /\ PositionsInBounds' /\ wild' = "none"
<1> DEFINE base == CASE whence = 0 -> 0
                     [] whence = 1 -> files[f].f_pos
                     [] whence = 2 -> Len(Contained(f))
           pos == (base + offset) % U32
<1>1. TreeInv /\ FileInv /\ files[f].open
  BY InvParts DEF IoInv, VfsLseek
<1>2. base \in Int /\ offset \in Int
  <2>1. files[f].f_pos \in Int /\ Len(Contained(f)) \in Int
    BY <1>1, OpenHandle, Constants
  <2>2. whence = 0 \/ whence = 1 \/ whence = 2
    OBVIOUS
  <2> QED
    BY <2>1, <2>2, InputAssumption
<1>3. /\ files' = [files EXCEPT ![f].f_pos = pos] /\ pos <= MaxPos
      /\ UNCHANGED <<inodes, wild>>
  BY DEF VfsLseek, tree
<1>4. pos \in 0..MaxPos
  <2> HIDE DEF base
  <2>1. base + offset \in Int
    BY <1>2
  <2>2. pos \in 0..(U32 - 1)
    BY <2>1, Wraps
  <2> QED
    BY <2>2, <1>3, MaxPosIsNat, Constants
<1> HIDE DEF pos
<1>5. PositionsInBounds'
  BY <1>1, <1>3, <1>4, MoveBounds DEF IoInv
<1> QED
  BY <1>3, <1>5 DEF IoInv, DataInBounds

LEMMA VfsWriteIo ==
  ASSUME NoWrap, IoInv, NEW f \in FileId, NEW buf \in Contents, NEW oom,
         VfsWrite(f, buf, oom)
  PROVE  DataInBounds' /\ PositionsInBounds' /\ wild' = "none"
<1> DEFINE n == Len(buf)
           pos == files[f].f_pos
           i == files[f].inode
<1>1. TreeInv /\ FileInv /\ files[f].open /\ wild = "none" /\ (pos + n) % U32 <= MaxPos
  BY InvParts DEF IoInv, VfsWrite
<1>2. /\ n \in Nat /\ pos \in Nat /\ pos + n <= MaxPos /\ (pos + n) % U32 = pos + n
      /\ pos + n <= NewSize(f, n) /\ NewSize(f, n) \in 0..MaxPos
  BY <1>1, WriteStays DEF IoInv
<1>3. /\ files' = [files EXCEPT ![f].f_pos = pos + n]
      /\ inodes' = [inodes EXCEPT ![i].data = Written(f, buf)]
  BY <1>2 DEF VfsWrite
<1>4. wild' = "none"
  <2>1. \A j \in 0..(n - 1) : (pos + j) % U32 < NewSize(f, n)
    <3> TAKE j \in 0..(n - 1)
    <3>0. j \in Nat /\ j < n
      BY <1>2
    <3> HIDE DEF n, pos
    <3>1. pos + j \in 0..(U32 - 1) /\ pos + j < NewSize(f, n)
      BY <3>0, <1>2, MaxPosIsNat, Constants
    <3> QED
      BY <3>1, Exact
  <2>2. ~\E j \in 0..(n - 1) : (pos + j) % U32 >= NewSize(f, n)
    <3> SUFFICES ASSUME NEW j \in 0..(n - 1), (pos + j) % U32 >= NewSize(f, n)
                 PROVE  FALSE
      OBVIOUS
    <3>1. (pos + j) % U32 \in Int
      BY <1>2, Wraps, Constants
    <3> QED
      BY <3>1, <2>1, <1>2, MaxPosIsNat
  <2> QED
    BY <2>2, <1>1 DEF VfsWrite
<1>5. DataInBounds'
  <2>1. Len(Written(f, buf)) <= MaxPos
    BY <1>1, <1>2, WrittenIsData, MaxPosIsNat
  <2>2. inodes \in [InodeId -> InodeType]
    BY <1>1 DEF TreeInv, TreeTypes
  <2> HIDE DEF i
  <2>3. \A k \in InodeId : inodes'[k].data = inodes[k].data \/ inodes'[k].data = Written(f, buf)
    BY <2>2, <1>3 DEF InodeType
  <2> QED
    BY <2>1, <2>3 DEF IoInv, DataInBounds
<1> HIDE DEF n, pos
<1>6. pos + n \in 0..MaxPos
  BY <1>2, MaxPosIsNat
<1>7. PositionsInBounds'
  BY <1>1, <1>3, <1>6, MoveBounds DEF IoInv
<1> QED
  BY <1>4, <1>5, <1>7

\* The calls that open a file.
LEMMA OpensIo ==
  ASSUME IoInv, NEW path \in Paths, NEW flags \in OpenFlags, NEW oom,
         \/ VfsOpenExisting(path, flags, oom)
         \/ VfsOpenCreate(path, flags, oom)
         \/ VfsOpenHalfDone(path, flags, oom)
  PROVE  DataInBounds' /\ PositionsInBounds' /\ wild' = "none"
<1>1. TreeInv /\ FileInv /\ DataInBounds /\ PositionsInBounds /\ wild = "none"
  BY InvParts DEF IoInv
<1>2. CASE VfsOpenExisting(path, flags, oom)
  <2>1. PICK d \in InodeId : AddFile(d, flags, Len(inodes[d].data))
    BY <1>2 DEF VfsOpenExisting
  <2>2. Len(inodes[d].data) \in 0..MaxPos
    BY <1>1, SizeInRange, MaxPosIsNat, Constants DEF DataInBounds
  <2>3. PositionsInBounds'
    BY <1>1, <2>1, <2>2, AddFileBounds
  <2> QED
    BY <1>1, <1>2, <2>3 DEF VfsOpenExisting, tree, DataInBounds
<1>3. CASE VfsOpenCreate(path, flags, oom)
  <2>1. DataInBounds'
    BY <1>1, <1>3, AddBounds DEF VfsOpenCreate
  <2>2. PositionsInBounds'
    BY <1>1, <1>3, AddFileBounds, MaxPosIsNat DEF VfsOpenCreate
  <2> QED
    BY <1>1, <1>3, <2>1, <2>2 DEF VfsOpenCreate
<1>4. CASE VfsOpenHalfDone(path, flags, oom)
  <2>1. DataInBounds'
    BY <1>1, <1>4, AddBounds DEF VfsOpenHalfDone
  <2> QED
    BY <1>1, <1>4, <2>1 DEF VfsOpenHalfDone, handles, PositionsInBounds
<1> QED
  BY <1>2, <1>3, <1>4

LEMMA VfsInitIo ==
  ASSUME IoInv, NEW oom, VfsInit(oom)
  PROVE  DataInBounds' /\ PositionsInBounds' /\ wild' = "none"
<1>1. TreeInv /\ UNCHANGED <<handles, wild>>
  BY InvParts DEF IoInv, VfsInit
<1>2. PositionsInBounds' /\ wild' = "none"
  BY <1>1 DEF IoInv, PositionsInBounds, handles
<1>3. \A i \in InodeId : inodes'[i].data = inodes[i].data \/ inodes'[i].data = <<>>
  <2>1. inodes \in [InodeId -> InodeType]
    BY <1>1 DEF TreeInv, TreeTypes
  <2>2. \/ UNCHANGED inodes
        \/ inodes' = [inodes EXCEPT ![ninodes + 1] = [NoInode EXCEPT !.type = "dir"]]
    BY DEF VfsInit, tree
  <2> QED
    BY <2>1, <2>2 DEF NoInode
<1>4. Len(<<>>) = 0
  OBVIOUS
<1> QED
  BY <1>2, <1>3, <1>4, MaxPosIsNat DEF IoInv, DataInBounds

LEMMA VfsCloseIo ==
  ASSUME IoInv, NEW f \in FileId, VfsClose(f)
  PROVE  DataInBounds' /\ PositionsInBounds' /\ wild' = "none"
<1>1. \A g \in FileId : files'[g].f_pos = files[g].f_pos
  <2>1. files \in [FileId -> FileType]
    BY DEF IoInv, Inv, FileTypes
  <2>2. files' = [files EXCEPT ![f].open = FALSE, ![f].vref = @ - 1]
    BY DEF VfsClose
  <2> QED
    BY <2>1, <2>2 DEF FileType
<1> QED
  BY <1>1 DEF IoInv, VfsClose, tree, DataInBounds, PositionsInBounds

\* The steps of Next, those that return an error taken together.
Calls(oom) ==
  \/ Fails
  \/ VfsInit(oom)
  \/ \E path \in Paths : VfsMkdir(path, oom)
  \/ \E path \in Paths, flags \in OpenFlags :
       \/ VfsOpenExisting(path, flags, oom)
       \/ VfsOpenCreate(path, flags, oom)
       \/ VfsOpenHalfDone(path, flags, oom)
  \/ \E f \in FileId :
       \/ \E size \in Sizes : VfsRead(f, size)
       \/ \E buf \in Contents : VfsWrite(f, buf, oom)
       \/ \E offset \in Offsets, whence \in 0..2 : VfsLseek(f, offset, whence)
       \/ VfsClose(f)

LEMMA NextCalls == ASSUME Next PROVE \E oom \in Ooms : Calls(oom)
BY DEF Calls, Next, Fails, VfsMkdirFails, VfsOpenFails, VfsReadDenied, VfsWriteFails, VfsLseekFails

LEMMA NextIo == ASSUME NoWrap, IoInv, Next PROVE IoInv'
<1>1. Inv'
  BY NextInv DEF IoInv
<1>2. PICK oom \in Ooms : Calls(oom)
  BY NextCalls
<1> DEFINE Goal == DataInBounds' /\ PositionsInBounds' /\ wild' = "none"
<1>3. ASSUME Fails PROVE Goal
  BY <1>3 DEF Fails, tree, handles, IoInv, DataInBounds, PositionsInBounds
<1>4. ASSUME VfsInit(oom) PROVE Goal
  BY <1>4, VfsInitIo
<1>5. ASSUME NEW path \in Paths, VfsMkdir(path, oom) PROVE Goal
  <2>1. TreeInv /\ DataInBounds
    BY InvParts DEF IoInv
  <2>2. DataInBounds'
    BY <1>5, <2>1, AddBounds DEF VfsMkdir
  <2> QED
    BY <1>5, <2>2 DEF VfsMkdir, IoInv, handles, PositionsInBounds
<1>6. ASSUME NEW path \in Paths, NEW flags \in OpenFlags,
             \/ VfsOpenExisting(path, flags, oom)
             \/ VfsOpenCreate(path, flags, oom)
             \/ VfsOpenHalfDone(path, flags, oom)
      PROVE  Goal
  BY <1>6, OpensIo
<1>7. ASSUME NEW f \in FileId,
             \/ \E size \in Sizes : VfsRead(f, size)
             \/ \E buf \in Contents : VfsWrite(f, buf, oom)
             \/ \E offset \in Offsets, whence \in 0..2 : VfsLseek(f, offset, whence)
             \/ VfsClose(f)
      PROVE  Goal
  <2>1. CASE \E size \in Sizes : VfsRead(f, size)
    BY <2>1, VfsReadIo
  <2>2. CASE \E buf \in Contents : VfsWrite(f, buf, oom)
    BY <2>2, VfsWriteIo
  <2>3. CASE \E offset \in Offsets, whence \in 0..2 : VfsLseek(f, offset, whence)
    BY <2>3, VfsLseekIo
  <2>4. CASE VfsClose(f)
    BY <2>4, VfsCloseIo
  <2> QED
    BY <1>7, <2>1, <2>2, <2>3, <2>4
<1>8. Goal
  BY <1>2, <1>3, <1>4, <1>5, <1>6, <1>7 DEF Calls
<1> QED
  BY <1>1, <1>8 DEF IoInv

LEMMA IoInvariance == ASSUME NoWrap PROVE Spec => []IoInv
<1>1. IoInv /\ [Next]_vars => IoInv'
  <2>1. ASSUME IoInv, UNCHANGED vars PROVE IoInv'
    <3>1. Inv'
      BY <2>1, StutterInv DEF IoInv
    <3> QED
      BY <2>1, <3>1 DEF IoInv, vars, tree, handles, DataInBounds, PositionsInBounds
  <2> QED
    BY <2>1, NextIo
<1> QED
  BY InitIoInv, <1>1, PTL DEF Spec

\* As long as no sum of a position and a size wraps, no read and no write leaves the
\* bytes of its file (vfs.c:218-228,242-256).
THEOREM CallsStayInFile == ASSUME NoWrap PROVE Spec => []NoStrayAccess
<1>1. IoInv => NoStrayAccess
  BY DEF IoInv, NoStrayAccess
<1> QED
  BY IoInvariance, <1>1, PTL

\* Where tmpfs_write does not store, the file keeps its bytes.
LEMMA WrittenKeeps ==
  ASSUME NoWrap, TreeInv, FileInv, DataInBounds, PositionsInBounds,
         NEW f \in FileId, files[f].open, NEW buf \in Contents,
         (files[f].f_pos + Len(buf)) % U32 <= MaxPos,
         NEW k \in 1..Len(Contained(f)),
         k \notin (files[f].f_pos + 1)..(files[f].f_pos + Len(buf))
  PROVE  Written(f, buf)[k] = Contained(f)[k]
<1> DEFINE pos == files[f].f_pos
           n == Len(buf)
           len == Len(Contained(f))
           j == (k - 1 - pos) % U32
<1>1. /\ n \in Nat /\ pos \in Nat /\ len \in Nat /\ pos + n <= MaxPos
      /\ len <= NewSize(f, n) /\ NewSize(f, n) \in 0..MaxPos
      /\ k \notin (pos + 1)..(pos + n)
  BY WriteStays
<1>2. k \in 1..NewSize(f, n) /\ k \in 1..len /\ k <= MaxPos
  BY <1>1, MaxPosIsNat
<1>3. Written(f, buf)[k] = IF j < n THEN buf[j + 1]
                           ELSE IF k <= len THEN Contained(f)[k] ELSE Garbage
  BY <1>2 DEF Written
<1>4. j >= n
  <2>1. CASE k - 1 >= pos
    <3> HIDE DEF n, pos, len
    <3>0. k \in Int /\ k > pos + n
      BY <2>1, <1>1, <1>2
    <3>1. k - 1 - pos \in 0..(U32 - 1) /\ k - 1 - pos >= n
      BY <3>0, <2>1, <1>1, <1>2, MaxPosIsNat, Constants
    <3> QED
      BY <3>1, Exact
  <2>2. CASE k - 1 < pos
    <3> HIDE DEF n, pos, len
    <3>1. n + MaxPos < U32
      BY DEF NoWrap, n
    <3>2. /\ k - 1 - pos + U32 \in 0..(U32 - 1) /\ k - 1 - pos + U32 >= n
          /\ k - 1 - pos \in Int
      BY <2>2, <3>1, <1>1, <1>2, MaxPosIsNat, Constants
    <3>3. (k - 1 - pos) % U32 = k - 1 - pos + U32
      BY <3>2, ExactBelow
    <3> QED
      BY <3>2, <3>3
  <2> QED
    BY <2>1, <2>2, <1>1, <1>2, MaxPosIsNat
<1>5. j \in Int
  <2>1. k - 1 - pos \in Int
    BY <1>1, <1>2
  <2> QED
    BY <2>1, Wraps
<1> HIDE DEF pos, n, len, j
<1> QED
  BY <1>1, <1>2, <1>3, <1>4, <1>5

\* A write changes its own file, through a file_t opened for writing.
LEMMA WriteInPlace ==
  ASSUME NoWrap, IoInv, NEW f \in FileId, NEW buf \in Contents, NEW oom,
         VfsWrite(f, buf, oom), NEW i \in Used, inodes'[i].data # inodes[i].data
  PROVE  /\ f \in 1..nfiles /\ files[f].open /\ files[f].inode = i /\ ret'.code >= 0
         /\ files[f].flags \cap (O_WRONLY \cup O_RDWR) # {}
         /\ Len(inodes'[i].data) >= Len(inodes[i].data)
         /\ \A k \in 1..Len(inodes[i].data) :
              k \notin (files[f].f_pos + 1)..(files[f].f_pos + ret'.code)
                => inodes'[i].data[k] = inodes[i].data[k]
<1>1. /\ TreeInv /\ FileInv /\ files[f].open /\ DataInBounds /\ PositionsInBounds
      /\ (files[f].f_pos + Len(buf)) % U32 <= MaxPos
  BY InvParts DEF IoInv, VfsWrite
<1>2. f \in 1..nfiles
  BY <1>1, OpenHandle
<1>3. inodes \in [InodeId -> InodeType] /\ i \in InodeId
  BY <1>1, UsedIsInodeId DEF TreeInv, TreeTypes
<1>4. files[f].inode = i /\ inodes'[i].data = Written(f, buf)
  <2>1. inodes' = [inodes EXCEPT ![files[f].inode].data = Written(f, buf)]
    BY DEF VfsWrite
  <2> QED
    BY <2>1, <1>3 DEF InodeType
<1>5. Len(buf) \in Nat /\ ret'.code = Len(buf)
  <2>1. Len(buf) \in Nat /\ Len(buf) < U32 \div 2
    BY <1>1, WriteStays DEF NoWrap
  <2>2. U32 \div 2 \in Int
    BY Constants
  <2> QED
    BY <2>1, <2>2 DEF VfsWrite, Return, AsInt
<1>6. files[f].flags \cap (O_WRONLY \cup O_RDWR) # {}
  BY DEF VfsWrite, MayWrite
<1>7. inodes[i].data = Contained(f)
  BY <1>4 DEF Contained
<1>8. Len(inodes'[i].data) >= Len(inodes[i].data)
  BY <1>1, <1>4, <1>7, WriteStays, WrittenIsData
<1>9. \A k \in 1..Len(inodes[i].data) :
        k \notin (files[f].f_pos + 1)..(files[f].f_pos + ret'.code)
          => inodes'[i].data[k] = inodes[i].data[k]
  BY <1>1, <1>4, <1>5, <1>7, WrittenKeeps
<1> QED
  BY <1>1, <1>2, <1>4, <1>5, <1>6, <1>8, <1>9

\* No other call changes the content of a file that exists.
LEMMA OthersKeepData ==
  ASSUME Inv, Next, ~\E oom \in Ooms, f \in FileId, buf \in Contents : VfsWrite(f, buf, oom),
         NEW i \in Used
  PROVE  inodes'[i].data = inodes[i].data
<1>1. TreeInv /\ i \in InodeId
  BY InvParts, UsedIsInodeId
<1>2. PICK oom \in Ooms :
        \/ UNCHANGED inodes
        \/ VfsInit(oom)
        \/ \E path \in Paths : VfsMkdir(path, oom)
        \/ \E path \in Paths, flags \in OpenFlags :
             VfsOpenCreate(path, flags, oom) \/ VfsOpenHalfDone(path, flags, oom)
  <2>1. PICK oom \in Ooms : Calls(oom)
    BY NextCalls
  <2>2. Fails => UNCHANGED inodes
    BY DEF Fails, tree
  <2>3. \A path \in Paths, flags \in OpenFlags :
          VfsOpenExisting(path, flags, oom) => UNCHANGED inodes
    BY DEF VfsOpenExisting, tree
  <2>4. \A f \in FileId :
          /\ \A size \in Sizes : VfsRead(f, size) => UNCHANGED inodes
          /\ \A offset \in Offsets, whence \in 0..2 :
               VfsLseek(f, offset, whence) => UNCHANGED inodes
          /\ VfsClose(f) => UNCHANGED inodes
    BY DEF VfsRead, VfsLseek, VfsClose, tree
  <2> QED
    BY Zenon, <2>1, <2>2, <2>3, <2>4 DEF Calls
<1>3. CASE VfsInit(oom)
  <2>1. i # ninodes + 1
    BY <1>1 DEF Used, TreeInv, TreeTypes
  <2> QED
    BY <1>1, <1>3, <2>1 DEF VfsInit, tree, TreeInv, TreeTypes
<1>4. ASSUME NEW path \in Paths, NEW type \in {"file", "dir"}, NEW d \in InodeId,
             Adds(path, oom, d), AddInode(d, Filename(path), type)
      PROVE  inodes'[i].data = inodes[i].data
  <2>1. d \in Used /\ IsDir(d) /\ Filename(path) \in Names
    BY <1>1, <1>4, AddsUsed
  <2> QED
    BY <1>1, <1>4, <2>1, AddInodeFields
<1>5. CASE \E path \in Paths : VfsMkdir(path, oom)
  BY <1>4, <1>5 DEF VfsMkdir
<1>6. CASE \E path \in Paths, flags \in OpenFlags :
             VfsOpenCreate(path, flags, oom) \/ VfsOpenHalfDone(path, flags, oom)
  BY <1>4, <1>6 DEF VfsOpenCreate, VfsOpenHalfDone
<1> QED
  BY <1>2, <1>3, <1>5, <1>6

\* As long as no sum wraps, a file's bytes change only under a file_t opened for writing
\* on it, and only where its write went (vfs.c:243-257,520).
THEOREM WritesStayInPlace == ASSUME NoWrap PROVE Spec => WritesInPlace
<1> DEFINE InPlace ==
      \A i \in Used : inodes'[i].data # inodes[i].data =>
        \E f \in 1..nfiles :
          /\ files[f].open /\ files[f].inode = i /\ ret'.code >= 0
          /\ files[f].flags \cap (O_WRONLY \cup O_RDWR) # {}
          /\ Len(inodes'[i].data) >= Len(inodes[i].data)
          /\ \A k \in 1..Len(inodes[i].data) :
               k \notin (files[f].f_pos + 1)..(files[f].f_pos + ret'.code)
                 => inodes'[i].data[k] = inodes[i].data[k]
<1>1. IoInv /\ [Next]_vars => [InPlace]_vars
  <2> SUFFICES ASSUME IoInv, Next PROVE InPlace
    BY DEF vars
  <2>1. CASE \E oom \in Ooms, f \in FileId, buf \in Contents : VfsWrite(f, buf, oom)
    BY <2>1, WriteInPlace
  <2>2. CASE ~\E oom \in Ooms, f \in FileId, buf \in Contents : VfsWrite(f, buf, oom)
    BY <2>2, OthersKeepData DEF IoInv
  <2> QED
    BY <2>1, <2>2
<1> QED
  BY IoInvariance, <1>1, PTL DEF Spec, WritesInPlace
-----------------------------------------------------------------------------
\* What FailedCallsPure says of the step.
Pure == UNCHANGED <<root, handles>> /\ (UNCHANGED <<inodes, ninodes>> \/ EmptyFileAdded)

LEMMA SamePure == ASSUME UNCHANGED <<tree, handles>> PROVE Pure
BY DEF Pure, tree

\* A vfs_open that runs out of memory leaves its new file, empty, at the end of the directory
\* it was to be in, and nothing else but the name of one that was full.
LEMMA HalfDonePure ==
  ASSUME TreeInv, NEW path \in Paths, NEW flags, NEW oom, VfsOpenHalfDone(path, flags, oom)
  PROVE  Pure
<1>1. PICK d \in InodeId : Adds(path, oom, d) /\ AddInode(d, Filename(path), "file")
  BY DEF VfsOpenHalfDone
<1>2. d \in Used /\ IsDir(d) /\ Filename(path) \in Names /\ ~HasChild(d, Filename(path))
  BY <1>1, AddsUsed DEF Adds
<1> DEFINE new == ninodes + 1
           name == Filename(path)
           full == Len(inodes[d].children) >= MAX_CHILDREN
<1>3. /\ ninodes' = new /\ root' = root /\ d # new /\ new \in InodeId
      /\ \A i \in InodeId : i # d /\ i # new => inodes'[i] = inodes[i]
  BY <1>1, <1>2, AddInodeFields
<1>4. inodes \in [InodeId -> InodeType]
  BY DEF TreeInv, TreeTypes
<1>5. inodes' = [inodes EXCEPT
        ![new] = [NoInode EXCEPT !.type = "file", !.name = name, !.parent = d],
        ![d].children = Append(@, new),
        ![d].name = IF full THEN Clobbered ELSE @]
  BY <1>1 DEF AddInode
<1>6. inodes'[new] = [NoInode EXCEPT !.type = "file", !.name = name, !.parent = d]
  BY <1>3, <1>4, <1>5
<1>7. inodes'[d] = [inodes[d] EXCEPT !.children = Append(@, new),
                                     !.name = IF full THEN Clobbered ELSE @]
  BY <1>3, <1>4, <1>5
<1>8. /\ inodes'[d] = [inodes[d] EXCEPT !.children = Append(@, new),
                                        !.name = inodes'[d].name]
      /\ inodes'[d].name = inodes[d].name \/ full
  <2>1. inodes[d] \in InodeType
    BY <1>4
  <2>2. inodes'[d].name = IF full THEN Clobbered ELSE inodes[d].name
    BY <1>7, <2>1 DEF InodeType
  <2> QED
    BY <1>7, <2>1, <2>2 DEF InodeType
<1>9. UNCHANGED handles
  BY DEF VfsOpenHalfDone
<1> QED
  BY <1>2, <1>3, <1>6, <1>8, <1>9 DEF Pure, EmptyFileAdded

\* An unsigned number that is not U32 - 1 is not -1 as an int.
LEMMA NotMinusOne == ASSUME NEW n \in Nat, n < U32 - 1 PROVE AsInt(n) # -1
BY Constants DEF AsInt

\* The calls on a file that succeed do not return -1.
LEMMA FileCodes ==
  ASSUME NoWrap, MaxPos # U32 - 1, IoInv, NEW oom, NEW f \in FileId,
         \/ \E size \in Sizes : VfsRead(f, size)
         \/ \E buf \in Contents : VfsWrite(f, buf, oom)
         \/ \E offset \in Offsets, whence \in 0..2 : VfsLseek(f, offset, whence)
         \/ VfsClose(f)
  PROVE  ret'.code # -1
<1>1. TreeInv /\ FileInv /\ DataInBounds /\ PositionsInBounds
  BY InvParts DEF IoInv
<1>2. MaxPos \in Nat /\ MaxPos < U32 - 1
  BY MaxPosIsNat, Constants
<1>3. ASSUME NEW size \in Sizes, VfsRead(f, size) PROVE ret'.code # -1
  <2>1. files[f].open /\ ret'.code = AsInt(ReadCount(f, size))
    BY <1>3 DEF VfsRead
  <2>2. ReadCount(f, size) \in Nat /\ files[f].f_pos + ReadCount(f, size) <= MaxPos
    BY <1>1, <2>1, ReadStays
  <2>3. files[f].f_pos \in Nat
    BY <1>1, <2>1, OpenHandle, Constants
  <2>4. ReadCount(f, size) < U32 - 1
    BY <1>2, <2>2, <2>3, Constants
  <2> QED
    BY <2>1, <2>2, <2>4, NotMinusOne
<1>4. ASSUME NEW buf \in Contents, VfsWrite(f, buf, oom) PROVE ret'.code # -1
  <2>1. files[f].open /\ ret'.code = AsInt(Len(buf)) /\ (files[f].f_pos + Len(buf)) % U32 <= MaxPos
    BY <1>4 DEF VfsWrite, Return
  <2>2. Len(buf) \in Nat /\ files[f].f_pos \in Nat /\ files[f].f_pos + Len(buf) <= MaxPos
    BY <1>1, <2>1, WriteStays
  <2>3. Len(buf) < U32 - 1
    BY <1>2, <2>2, Constants
  <2> QED
    BY <2>1, <2>2, <2>3, NotMinusOne
<1>5. ASSUME NEW offset \in Offsets, NEW whence \in 0..2, VfsLseek(f, offset, whence)
      PROVE  ret'.code # -1
  <2>1. PICK pos : /\ files' = [files EXCEPT ![f].f_pos = pos] /\ pos <= MaxPos
                   /\ ret'.code = AsInt(pos)
    BY <1>5 DEF VfsLseek, Return
  <2>2. files'[f].f_pos = pos /\ files' \in [FileId -> FileType]
    <3>1. Inv'
      BY <1>5, VfsLseekInv DEF IoInv
    <3>2. files \in [FileId -> FileType]
      BY <1>1 DEF FileInv, FileTypes
    <3> QED
      BY <2>1, <3>1, <3>2 DEF Inv, FileTypes, FileType
  <2>3. pos \in 0..(U32 - 1)
    BY <2>2 DEF FileType
  <2>4. pos \in Nat /\ pos < U32 - 1
    BY <1>2, <2>1, <2>3, Constants
  <2> QED
    BY <2>1, <2>4, NotMinusOne
<1>6. ASSUME VfsClose(f) PROVE ret'.code # -1
  BY <1>6 DEF VfsClose, Return
<1> QED
  BY <1>3, <1>4, <1>5, <1>6

LEMMA FailedPure ==
  ASSUME NoWrap, MaxPos # U32 - 1, IoInv, Next, ret'.code = -1
  PROVE  Pure
<1>1. PICK oom \in Ooms : Calls(oom)
  BY NextCalls
<1>2. ASSUME Fails PROVE Pure
  BY <1>2, SamePure DEF Fails
<1>3. ASSUME VfsInit(oom) PROVE Pure
  <2>1. UNCHANGED <<tree, handles>>
    BY <1>3 DEF VfsInit, Return
  <2> QED
    BY <2>1, SamePure
<1>4. ASSUME NEW path \in Paths PROVE ~VfsMkdir(path, oom)
  BY DEF VfsMkdir, Return
<1>5. ASSUME NEW path \in Paths, NEW flags \in OpenFlags
      PROVE  ~VfsOpenExisting(path, flags, oom) /\ ~VfsOpenCreate(path, flags, oom)
  BY DEF VfsOpenExisting, VfsOpenCreate, Return
<1>6. ASSUME NEW path \in Paths, NEW flags \in OpenFlags, VfsOpenHalfDone(path, flags, oom)
      PROVE  Pure
  BY <1>6, InvParts, HalfDonePure DEF IoInv
<1>7. ASSUME NEW f \in FileId
      PROVE  ~(\/ \E size \in Sizes : VfsRead(f, size)
               \/ \E buf \in Contents : VfsWrite(f, buf, oom)
               \/ \E offset \in Offsets, whence \in 0..2 : VfsLseek(f, offset, whence)
               \/ VfsClose(f))
  BY FileCodes
<1> QED
  BY <1>1, <1>2, <1>3, <1>4, <1>5, <1>6, <1>7 DEF Calls

\* As long as no sum wraps, and no position is U32 - 1, which vfs_lseek returns as -1, a
\* call that returns -1 changes nothing at all, or has left one new empty file as the last
\* entry of a directory that had none of its name, and changed nothing else but the name of
\* that directory when its entries were full (vfs.c:157,465-480).
THEOREM FailedCallsStayPure ==
  ASSUME NoWrap, MaxPos # U32 - 1 PROVE Spec => FailedCallsPure
<1>1. IoInv /\ [Next]_vars => [ret'.code = -1 => Pure]_vars
  BY FailedPure
<1> QED
  BY IoInvariance, <1>1, PTL DEF Spec, FailedCallsPure, Pure
-----------------------------------------------------------------------------
\* What TableFollowsFiles says of the step.
TableStep ==
  /\ \A s \in Slots : open_files'[s] # open_files[s] =>
       \/ open_files[s] = NULL /\ Opened(open_files'[s])
       \/ open_files'[s] = NULL /\ Closed(open_files[s])
  /\ \A f \in FileId :
       /\ Opened(f) /\ (\E s \in Slots : open_files[s] = NULL) =>
            \E s \in Slots : \A t \in Slots : open_files'[t] = f <=> t = s
       /\ Closed(f) => \A s \in Slots : open_files'[s] # f

\* A call that neither opens nor closes a file.
LEMMA SameTable ==
  ASSUME FileInv, UNCHANGED open_files, \A f \in FileId : files'[f].open = files[f].open
  PROVE  TableStep
BY DEF TableStep, Opened, Closed

\* vfs_open: the new file takes the first free slot.
LEMMA AddFileTable ==
  ASSUME FileInv, NEW i, NEW flags, NEW size, AddFile(i, flags, size)
  PROVE  TableStep
<1> DEFINE n == nfiles + 1
<1>1. n \in FileId /\ n # NULL
  BY Constants DEF AddFile, FileInv, FileTypes, FileId, NULL
<1>2. /\ files'[n].open
      /\ \A f \in FileId : f # n => files'[f] = files[f]
  <2> DEFINE r == [inode |-> i, f_pos |-> IF flags \cap O_APPEND # {} THEN size ELSE 0,
                   flags |-> flags, vref |-> 2, open |-> TRUE]
  <2>1. files' = [files EXCEPT ![n] = r] /\ r.open
    BY DEF AddFile
  <2>2. files \in [FileId -> FileType]
    BY DEF FileInv, FileTypes
  <2> HIDE DEF r
  <2> QED
    BY <1>1, <2>1, <2>2
<1>3. ~files[n].open
  BY <1>1, Constants DEF FileInv, FileTypes, HandlesOnFiles, NoFile
<1>4. open_files \in [Slots -> {NULL} \cup FileId]
  BY DEF FileInv, FileTypes, Slots
<1>5. \A s \in Slots : open_files[s] # n
  BY <1>1, <1>3 DEF FileInv, OpenTableSound, Slots
<1>6. \A f \in FileId : ~Closed(f) /\ (Opened(f) <=> f = n)
  BY <1>1, <1>2, <1>3 DEF Opened, Closed
<1>7. CASE \E s \in Slots : open_files[s] = NULL /\ open_files' = [open_files EXCEPT ![s] = n]
  <2>1. PICK s \in Slots : open_files[s] = NULL /\ open_files' = [open_files EXCEPT ![s] = n]
    BY <1>7
  <2>2. \A t \in Slots : open_files'[t] = IF t = s THEN n ELSE open_files[t]
    BY <1>4, <2>1
  <2>3. \A t \in Slots : open_files'[t] = n <=> t = s
    BY <1>5, <2>2
  <2> QED
    BY <1>1, <1>6, <2>1, <2>2, <2>3 DEF TableStep
<1>8. CASE (\A s \in Slots : open_files[s] # NULL) /\ UNCHANGED open_files
  BY <1>6, <1>8 DEF TableStep
<1> QED
  BY <1>7, <1>8 DEF AddFile, Slots

\* vfs_close: the first slot with the file is its only one.
LEMMA CloseTable ==
  ASSUME FileInv, NEW f \in FileId, VfsClose(f)
  PROVE  TableStep
<1>1. files \in [FileId -> FileType] /\ f # NULL
  BY DEF FileInv, FileTypes, FileId, NULL
<1>2. /\ files[f].open
      /\ files' = [files EXCEPT ![f].open = FALSE, ![f].vref = @ - 1]
      /\ open_files' = [s \in Slots |->
           IF open_files[s] = f /\ \A t \in 1..(s - 1) : open_files[t] # f
           THEN NULL ELSE open_files[s]]
  BY DEF VfsClose, Slots
<1>3. ~files'[f].open /\ \A g \in FileId : g # f => files'[g] = files[g]
  BY <1>1, <1>2 DEF FileType
<1>4. \A g \in FileId : ~Opened(g) /\ (Closed(g) <=> g = f)
  BY <1>2, <1>3 DEF Opened, Closed
<1>5. ASSUME NEW s \in Slots, open_files[s] = f
      PROVE  \A t \in 1..(s - 1) : open_files[t] # f
  <2> TAKE t \in 1..(s - 1)
  <2>1. t \in Slots /\ t # s
    BY Constants DEF Slots
  <2> QED
    BY <1>1, <1>5, <2>1 DEF FileInv, OpenTableSound, Slots
<1>6. \A s \in Slots : open_files'[s] = IF open_files[s] = f THEN NULL ELSE open_files[s]
  BY <1>2, <1>5
<1> QED
  BY <1>1, <1>4, <1>6 DEF TableStep

LEMMA NextTable == ASSUME Inv, Next PROVE TableStep
<1>0. FileInv /\ files \in [FileId -> FileType]
  BY InvParts DEF FileInv, FileTypes
<1>1. PICK oom \in Ooms : Calls(oom)
  BY NextCalls
<1>2. ASSUME UNCHANGED handles PROVE TableStep
  BY <1>0, <1>2, SameTable DEF handles
<1>3. ASSUME Fails \/ VfsInit(oom) \/ \E path \in Paths : VfsMkdir(path, oom)
      PROVE  TableStep
  BY <1>2, <1>3 DEF Fails, VfsInit, VfsMkdir
<1>4. ASSUME NEW path \in Paths, NEW flags \in OpenFlags,
             VfsOpenExisting(path, flags, oom) \/ VfsOpenCreate(path, flags, oom)
      PROVE  TableStep
  <2>1. PICK i, size : AddFile(i, flags, size)
    BY <1>4 DEF VfsOpenExisting, VfsOpenCreate
  <2> QED
    BY <1>0, <2>1, AddFileTable
<1>5. ASSUME NEW path \in Paths, NEW flags \in OpenFlags, VfsOpenHalfDone(path, flags, oom)
      PROVE  TableStep
  BY <1>2, <1>5 DEF VfsOpenHalfDone
<1>6. ASSUME NEW f \in FileId,
             \/ \E size \in Sizes : VfsRead(f, size)
             \/ \E buf \in Contents : VfsWrite(f, buf, oom)
             \/ \E offset \in Offsets, whence \in 0..2 : VfsLseek(f, offset, whence)
      PROVE  TableStep
  <2>1. UNCHANGED open_files /\ \E pos : files' = [files EXCEPT ![f].f_pos = pos]
    BY <1>6 DEF VfsRead, VfsWrite, VfsLseek
  <2>2. \A g \in FileId : files'[g].open = files[g].open
    BY <1>0, <2>1 DEF FileType
  <2> QED
    BY <1>0, <2>1, <2>2, SameTable
<1>7. ASSUME NEW f \in FileId, VfsClose(f)
      PROVE  TableStep
  BY <1>0, <1>7, CloseTable
<1> QED
  BY <1>1, <1>3, <1>4, <1>5, <1>6, <1>7 DEF Calls

\* For any table, however many files are open on one inode: a file that is opened while a slot
\* is free takes one that was free, one that is closed leaves its slot, and no call touches
\* the slot of another file (vfs.c:491-497,534-539).
THEOREM TableAlwaysFollows == Spec => TableFollowsFiles
<1>1. Inv /\ [Next]_vars => [TableStep]_vars
  BY NextTable
<1> QED
  BY Invariance, <1>1, PTL DEF Spec, TableFollowsFiles, TableStep
=============================================================================
