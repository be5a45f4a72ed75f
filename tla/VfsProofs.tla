----------------------------- MODULE VfsProofs ------------------------------
(* The safety of vfs.c for any set of names, any path length, any table and  *)
(* directory size, and a malloc that may fail at any call.  No step of the   *)
(* argument walks a path: whatever a lookup returns is the root or a child   *)
(* of some directory, and the invariant says that both exist.                *)
EXTENDS Vfs, TLAPS

\* The types of the tree's variables and of the open files' variables.
TreeTypes == /\ root \in {NULL} \cup InodeId
             /\ inodes \in [InodeId -> InodeType] /\ ninodes \in 0..MaxInodes
             /\ \A i \in InodeId : Len(inodes[i].data) < U32
FileTypes == /\ files \in [FileId -> FileType] /\ nfiles \in 0..MaxFiles
             /\ open_files \in [1..MAX_OPEN_FILES -> {NULL} \cup FileId]

\* A directory's k-th child was made after k others: directories stay shorter than
\* the list of inodes.
ChildrenInOrder ==
  \A d \in InodeId : \A k \in DOMAIN inodes[d].children : inodes[d].children[k] > k

\* The table holds open files only, none of them twice.
OpenTableSound ==
  \A s \in 1..MAX_OPEN_FILES : open_files[s] # NULL =>
    /\ files[open_files[s]].open
    /\ \A t \in 1..MAX_OPEN_FILES : open_files[t] = open_files[s] => t = s

\* An open file_t holds two references to its vnode, a closed one the one tmpfs_close
\* leaves: the count vfs.c:278 decrements never wraps, nor does it reach 0.
VrefsCount == \A f \in 1..nfiles : files[f].vref = IF files[f].open THEN 2 ELSE 1

\* The inductive invariant, and its half about the tree.
TreeInv == TreeTypes /\ TreeShape /\ SiblingNamesDistinct /\ ChildrenInOrder
Inv == /\ TreeInv /\ FileTypes /\ HandlesOnFiles /\ OpenTableSound /\ VrefsCount
       /\ ret.code \in Int /\ wild \in {"none", "read", "write"}

LEMMA Constants ==
  /\ MaxInodes \in Nat /\ MaxInodes > 0 /\ MaxFiles \in Nat
  /\ MAX_OPEN_FILES \in Nat /\ MAX_OPEN_FILES > 0 /\ MAX_CHILDREN \in Nat
  /\ U32 \in Nat /\ U32 > 0
BY LimitAssumption

\* Arithmetic modulo U32 stays below U32.
LEMMA Wraps == ASSUME NEW n \in Int PROVE n % U32 \in 0..(U32 - 1)
BY Constants

LEMMA CodesAreInts ==
  /\ \A n \in Int : AsInt(n) \in Int
  /\ \A c \in Int : Return(c) => ret'.code = c
BY Constants DEF AsInt, Return

LEMMA NoInodeFields ==
  /\ NoInode \in InodeType /\ NoInode.type = "free" /\ NoInode.children = <<>>
  /\ NoInode.data = <<>> /\ Len(NoInode.data) = 0 /\ NoInode.name = RootName
BY DEF NoInode, InodeType, NULL

LEMMA InitInv == Init => Inv
<1> SUFFICES ASSUME Init PROVE Inv
  OBVIOUS
<1> USE Constants
<1>1. \A i \in InodeId : inodes[i] = NoInode
  BY DEF Init
<1>2. TreeTypes
  BY <1>1, NoInodeFields DEF Init, TreeTypes, InodeId
<1>3. TreeShape
  BY <1>1, NoInodeFields DEF Init, TreeShape, Used, IsDir, IsFile, InodeId
<1>4. SiblingNamesDistinct /\ ChildrenInOrder
  BY <1>1, NoInodeFields DEF SiblingNamesDistinct, ChildrenInOrder
<1>5. FileTypes
  BY DEF Init, FileTypes, NoFile, FileType, FileId, NULL
<1>6. HandlesOnFiles /\ OpenTableSound /\ VrefsCount
  BY DEF Init, HandlesOnFiles, OpenTableSound, VrefsCount
<1> QED
  BY <1>2, <1>3, <1>4, <1>5, <1>6 DEF Init, Inv, TreeInv

\* The loop of vfs_path_lookup only stands on inodes that exist.
LEMMA ReachesUsed ==
  ASSUME TreeInv, NEW comps, NEW k \in Nat, NEW d, Reaches(comps, k, d)
  PROVE  d \in Used /\ d \in InodeId
<1>1. root # NULL /\ root \in Used
  BY DEF Reaches, TreeInv, TreeShape
<1>2. Used \subseteq InodeId
  BY Constants DEF Used, InodeId, TreeInv, TreeTypes
<1>3. PICK walk \in [1..(k - 1) -> InodeId] :
        /\ k = 0 => d = root
        /\ \A i \in 1..k :
             tmpfs_lookup(IF i - 1 = 0 THEN root ELSE IF i - 1 = k THEN d ELSE walk[i - 1],
                          comps[i], IF i = 0 THEN root ELSE IF i = k THEN d ELSE walk[i])
  BY DEF Reaches
<1>4. CASE k = 0
  BY <1>1, <1>2, <1>3, <1>4
<1>5. CASE k # 0
  <2> DEFINE e == IF k - 1 = 0 THEN root ELSE walk[k - 1]
  <2>1. k \in 1..k /\ (k - 1 # 0 => k - 1 \in 1..(k - 1))
    BY <1>5
  <2>2. e \in InodeId
    BY <1>1, <1>2, <1>3, <2>1
  <2>3. tmpfs_lookup(e, comps[k], d)
    BY <1>3, <1>5, <2>1
  <2>4. \E i \in DOMAIN inodes[e].children : inodes[e].children[i] = d
    BY <2>3 DEF tmpfs_lookup
  <2>5. d \in Used
    BY <2>2, <2>4 DEF TreeInv, TreeShape
  <2> QED
    BY <1>2, <2>5
<1> QED
  BY <1>4, <1>5

\* What AddInode makes of each inode: the new one, its directory, and the others.
LEMMA AddInodeFields ==
  ASSUME TreeInv, NEW d \in Used, NEW name \in Names, NEW type \in {"file", "dir"},
         IsDir(d), AddInode(d, name, type)
  PROVE  /\ ninodes' = ninodes + 1 /\ ninodes' \in InodeId /\ root' = root
         /\ d \in InodeId /\ d # ninodes' /\ ninodes' \notin Used
         /\ inodes' \in [InodeId -> InodeType]
         /\ inodes'[ninodes'].type = type /\ inodes'[ninodes'].name = name
         /\ inodes'[ninodes'].parent = d /\ inodes'[ninodes'].children = <<>>
         /\ inodes'[ninodes'].data = <<>>
         /\ inodes'[d].children = Append(inodes[d].children, ninodes')
         /\ inodes'[d].name \in {inodes[d].name, Clobbered}
         /\ Len(inodes[d].children) < MAX_CHILDREN => inodes'[d].name = inodes[d].name
         /\ inodes'[d].type = inodes[d].type /\ inodes'[d].parent = inodes[d].parent
         /\ inodes'[d].data = inodes[d].data
         /\ \A i \in InodeId : i # d /\ i # ninodes' => inodes'[i] = inodes[i]
<1> DEFINE n == ninodes + 1
<1>1. ninodes' = n /\ n \in InodeId /\ root' = root /\ d \in InodeId /\ d # n /\ n \notin Used
  BY Constants DEF AddInode, TreeInv, TreeTypes, Used, InodeId
<1>2. inodes \in [InodeId -> InodeType]
  BY DEF TreeInv, TreeTypes
<1>3. inodes' = [inodes EXCEPT
        ![n] = [NoInode EXCEPT !.type = type, !.name = name, !.parent = d],
        ![d].children = Append(@, n),
        ![d].name = IF Len(inodes[d].children) >= MAX_CHILDREN THEN Clobbered ELSE @]
  BY DEF AddInode
<1>4. /\ inodes' = [i \in InodeId |-> inodes'[i]]
      /\ \A i \in InodeId : i # d /\ i # n => inodes'[i] = inodes[i]
      /\ inodes'[n] = [NoInode EXCEPT !.type = type, !.name = name, !.parent = d]
  BY <1>1, <1>2, <1>3
<1>5. inodes'[d] = [inodes[d] EXCEPT
        !.children = Append(@, n),
        !.name = IF Len(inodes[d].children) >= MAX_CHILDREN THEN Clobbered ELSE @]
  BY <1>1, <1>2, <1>3
<1>6. /\ inodes'[n].type = type /\ inodes'[n].name = name /\ inodes'[n].parent = d
      /\ inodes'[n].children = <<>> /\ inodes'[n].data = <<>> /\ inodes'[n] \in InodeType
  <2>1. inodes'[n] = [type |-> type, name |-> name, parent |-> d,
                      children |-> <<>>, data |-> <<>>]
    BY <1>4 DEF NoInode
  <2> QED
    BY <2>1, <1>1 DEF InodeType
<1>7. /\ inodes'[d].children = Append(inodes[d].children, n)
      /\ inodes'[d].name = IF Len(inodes[d].children) >= MAX_CHILDREN
                           THEN Clobbered ELSE inodes[d].name
      /\ inodes'[d].type = inodes[d].type /\ inodes'[d].parent = inodes[d].parent
      /\ inodes'[d].data = inodes[d].data /\ inodes'[d] \in InodeType
  <2> DEFINE r == inodes[d]
             new == IF Len(r.children) >= MAX_CHILDREN THEN Clobbered ELSE r.name
  <2>1. r \in InodeType
    BY <1>1, <1>2
  <2>2. inodes'[d] = [type |-> r.type, name |-> new, parent |-> r.parent,
                      children |-> Append(r.children, n), data |-> r.data]
    BY <2>1, <1>5 DEF InodeType
  <2>3. Append(r.children, n) \in Seq(InodeId)
    BY <2>1, <1>1 DEF InodeType
  <2>4. new \in Names \cup {RootName, Clobbered}
    BY <2>1 DEF InodeType
  <2> HIDE DEF r, new
  <2>5. inodes'[d] \in InodeType
    BY <2>1, <2>2, <2>3, <2>4 DEF InodeType
  <2> QED
    BY <2>2, <2>5 DEF r, new
<1>8. inodes' \in [InodeId -> InodeType]
  BY <1>1, <1>2, <1>4, <1>6, <1>7
<1>9. /\ inodes'[d].name \in {inodes[d].name, Clobbered}
      /\ Len(inodes[d].children) < MAX_CHILDREN => inodes'[d].name = inodes[d].name
  <2>1. Len(inodes[d].children) \in Nat
    BY <1>1, <1>2 DEF InodeType
  <2> QED
    BY <2>1, <1>7, Constants
<1> QED
  BY <1>1, <1>4, <1>6, <1>7, <1>8, <1>9

\* A new child under a name its directory does not hold keeps the tree's invariant.
LEMMA AddInodeInv ==
  ASSUME TreeInv, NEW d \in Used, NEW name \in Names, NEW type \in {"file", "dir"},
         IsDir(d), ~HasChild(d, name), AddInode(d, name, type)
  PROVE  TreeInv'
<1> DEFINE n == ninodes'
           kids(i) == inodes[i].children
<1>1. /\ n = ninodes + 1 /\ n \in InodeId /\ root' = root
      /\ d \in InodeId /\ d # n /\ n \notin Used
      /\ inodes' \in [InodeId -> InodeType]
      /\ inodes'[n].type = type /\ inodes'[n].name = name
      /\ inodes'[n].parent = d /\ inodes'[n].children = <<>> /\ inodes'[n].data = <<>>
      /\ inodes'[d].children = Append(kids(d), n)
      /\ inodes'[d].name \in {inodes[d].name, Clobbered}
      /\ inodes'[d].type = inodes[d].type /\ inodes'[d].parent = inodes[d].parent
      /\ inodes'[d].data = inodes[d].data
      /\ \A i \in InodeId : i # d /\ i # n => inodes'[i] = inodes[i]
  BY AddInodeFields
<1>2. /\ inodes \in [InodeId -> InodeType] /\ ninodes \in Nat
      /\ Used \subseteq InodeId /\ Used' = Used \cup {n} /\ InodeId \subseteq Nat \ {0}
  BY <1>1, Constants DEF TreeInv, TreeTypes, Used, InodeId
<1>3. \A i \in InodeId : /\ kids(i) \in Seq(InodeId) /\ Len(kids(i)) \in Nat
                         /\ DOMAIN kids(i) = 1..Len(kids(i))
  BY <1>2 DEF InodeType
<1> HIDE DEF n, kids
<1>4. /\ DOMAIN inodes'[d].children = 1..(Len(kids(d)) + 1)
      /\ \A k \in 1..Len(kids(d)) : inodes'[d].children[k] = kids(d)[k]
      /\ inodes'[d].children[Len(kids(d)) + 1] = n
  BY <1>1, <1>3
<1>5. \A i \in InodeId : \A k \in DOMAIN kids(i) :
        kids(i)[k] \in Used /\ kids(i)[k] > i /\ inodes[kids(i)[k]].parent = i
  BY DEF TreeInv, TreeShape, kids
<1>6. \A i \in InodeId : i # d /\ i # n => inodes'[i].children = kids(i)
  BY <1>1 DEF kids
<1>7. \A i \in Used : inodes'[i].parent = inodes[i].parent /\ inodes'[i].type = inodes[i].type
  BY <1>1, <1>2
<1>7a. \A i \in InodeId : \A k \in DOMAIN inodes'[i].children :
         i # n /\ ~(i = d /\ k = Len(kids(d)) + 1)
           => k \in DOMAIN kids(i) /\ inodes'[i].children[k] = kids(i)[k]
  <2> SUFFICES ASSUME NEW i \in InodeId, NEW k \in DOMAIN inodes'[i].children,
                      i # n, ~(i = d /\ k = Len(kids(d)) + 1)
               PROVE  k \in DOMAIN kids(i) /\ inodes'[i].children[k] = kids(i)[k]
    OBVIOUS
  <2>1. CASE i = d
    <3>1. k \in 1..(Len(kids(d)) + 1) /\ k # Len(kids(d)) + 1 /\ Len(kids(d)) \in Nat
      BY <2>1, <1>1, <1>3, <1>4
    <3>2. k \in 1..Len(kids(d))
      BY <3>1
    <3> QED
      BY <3>2, <2>1, <1>1, <1>3, <1>4
  <2>2. CASE i # d
    BY <2>2, <1>6
  <2> QED
    BY <2>1, <2>2
<1>8. TreeTypes'
  <2>1. \A i \in InodeId : Len(inodes'[i].data) < U32
    <3> TAKE i \in InodeId
    <3>1. CASE i = n
      <4>1. Len(<<>>) = 0
        OBVIOUS
      <4> QED BY <3>1, <4>1, <1>1, Constants
    <3>2. CASE i # n
      <4>1. inodes'[i].data = inodes[i].data
        BY <3>2, <1>1
      <4> QED
        BY <4>1 DEF TreeInv, TreeTypes
    <3> QED
      BY <3>1, <3>2
  <2> QED
    BY <2>1, <1>1, <1>2, Constants DEF TreeInv, TreeTypes, n, InodeId
<1>9. \A i \in InodeId : \A k \in DOMAIN inodes'[i].children :
        LET c == inodes'[i].children[k] IN c \in Used' /\ c > i /\ inodes'[c].parent = i
  <2> TAKE i \in InodeId
  <2> TAKE k \in DOMAIN inodes'[i].children
  <2>1. CASE i = n
    BY <2>1, <1>1
  <2>2. CASE i = d /\ k = Len(kids(d)) + 1
    BY <2>2, <1>1, <1>2, <1>4 DEF Used
  <2>3. CASE i # n /\ ~(i = d /\ k = Len(kids(d)) + 1)
    <3>1. k \in DOMAIN kids(i) /\ inodes'[i].children[k] = kids(i)[k]
      BY <2>3, <1>7a
    <3> QED
      BY <3>1, <1>2, <1>5, <1>7
  <2> QED
    BY <2>1, <2>2, <2>3
<1>10. \A i \in Used' \ {root'} :
         /\ inodes'[i].parent \in Used'
         /\ \E k \in DOMAIN inodes'[inodes'[i].parent].children :
              inodes'[inodes'[i].parent].children[k] = i
  <2> TAKE i \in Used' \ {root'}
  <2>1. CASE i = n
    <3>1. Len(kids(d)) + 1 \in 1..(Len(kids(d)) + 1)
      BY <1>1, <1>3
    <3> QED
      BY <2>1, <3>1, <1>1, <1>2, <1>4
  <2>2. CASE i # n
    <3>1. i \in Used \ {root}
      BY <2>2, <1>1, <1>2
    <3>2. PICK p \in Used : p = inodes[i].parent /\ p = inodes'[i].parent
      BY <3>1, <1>7 DEF TreeInv, TreeShape
    <3>3. PICK k \in DOMAIN kids(p) : kids(p)[k] = i
      BY <3>1, <3>2 DEF TreeInv, TreeShape, kids
    <3>4. CASE p = d
      <4>1. k \in DOMAIN inodes'[d].children /\ inodes'[d].children[k] = i
        BY <3>3, <3>4, <1>1, <1>3, <1>4
      <4>2. d \in Used' /\ inodes'[i].parent = d
        BY <3>2, <3>4, <1>2
      <4> QED
        BY <4>1, <4>2
    <3>5. CASE p # d
      <4>1. p \in InodeId /\ p # n
        BY <3>2, <1>1, <1>2
      <4>2. inodes'[p].children = kids(p) /\ p \in Used'
        BY <4>1, <3>5, <1>2, <1>6
      <4>3. inodes'[inodes'[i].parent].children = kids(p) /\ inodes'[i].parent \in Used'
        BY <4>2, <3>2
      <4> QED
        BY <4>3, <3>3
    <3> QED
      BY <3>4, <3>5
  <2> QED
    BY <2>1, <2>2
<1>11. TreeShape'
  <2>1. root' # NULL => root' \in Used' /\ inodes'[root'].type = "dir"
    BY <1>1, <1>2, <1>7 DEF TreeInv, TreeShape, IsDir
  <2>2. \A i \in InodeId \ Used' : inodes'[i] = NoInode
    BY <1>1, <1>2 DEF TreeInv, TreeShape
  <2>3. \A i \in InodeId : /\ inodes'[i].type = "file" => inodes'[i].children = <<>>
                           /\ inodes'[i].type = "dir" => inodes'[i].data = <<>>
    <3> TAKE i \in InodeId
    <3>1. CASE i = d
      BY <3>1, <1>1 DEF TreeInv, TreeShape, IsDir
    <3>2. CASE i = n
      BY <3>2, <1>1
    <3>3. CASE i # d /\ i # n
      BY <3>3, <1>1 DEF TreeInv, TreeShape, IsDir, IsFile
    <3> QED
      BY <3>1, <3>2, <3>3
  <2> QED
    BY <2>1, <2>2, <2>3, <1>9, <1>10 DEF TreeShape, IsDir, IsFile
<1>12. ChildrenInOrder'
  <2> SUFFICES ASSUME NEW i \in InodeId, NEW k \in DOMAIN inodes'[i].children
               PROVE  inodes'[i].children[k] > k
    BY DEF ChildrenInOrder
  <2>1. CASE i = n
    BY <2>1, <1>1
  <2>2. CASE i = d /\ k = Len(kids(d)) + 1
    <3>1. CASE Len(kids(d)) = 0
      BY <2>2, <3>1, <1>1, <1>2, <1>4 DEF Used
    <3>2. CASE Len(kids(d)) > 0
      <4>1. Len(kids(d)) \in DOMAIN kids(d)
        BY <3>2, <1>1, <1>3
      <4>2. kids(d)[Len(kids(d))] > Len(kids(d)) /\ kids(d)[Len(kids(d))] \in Used
        BY <4>1, <1>1, <1>5 DEF TreeInv, ChildrenInOrder, kids
      <4> QED
        BY <4>2, <2>2, <1>1, <1>2, <1>3, <1>4 DEF Used
    <3> QED
      BY <3>1, <3>2, <1>1, <1>3
  <2>3. CASE i # n /\ ~(i = d /\ k = Len(kids(d)) + 1)
    <3>1. k \in DOMAIN kids(i) /\ inodes'[i].children[k] = kids(i)[k]
      BY <2>3, <1>7a
    <3> QED
      BY <3>1 DEF TreeInv, ChildrenInOrder, kids
  <2> QED
    BY <2>1, <2>2, <2>3
<1>13. SiblingNamesDistinct'
  <2> SUFFICES ASSUME NEW i \in InodeId, NEW j \in DOMAIN inodes'[i].children,
                      NEW k \in DOMAIN inodes'[i].children,
                      inodes'[inodes'[i].children[j]].name = inodes'[inodes'[i].children[k]].name,
                      inodes'[inodes'[i].children[j]].name # Clobbered
               PROVE  j = k
    BY DEF SiblingNamesDistinct
  <2>1. CASE i = n
    BY <2>1, <1>1
  \* The name of an old inode is kept or clobbered.
  <2>2. \A c \in Used : inodes'[c].name \in {inodes[c].name, Clobbered}
    BY <1>1, <1>2
  <2>3. \A e \in InodeId : \A m \in DOMAIN kids(e) :
          kids(e)[m] \in Used /\ kids(e)[m] # n
    BY <1>1, <1>5
  <2>4. CASE i # n /\ i # d
    <3>1. j \in DOMAIN kids(i) /\ k \in DOMAIN kids(i)
          /\ inodes'[i].children[j] = kids(i)[j] /\ inodes'[i].children[k] = kids(i)[k]
      BY <2>4, <1>6
    <3>2. inodes[kids(i)[j]].name = inodes[kids(i)[k]].name
          /\ inodes[kids(i)[j]].name # Clobbered
      BY <3>1, <2>2, <1>5
    <3> QED
      BY <3>1, <3>2 DEF TreeInv, SiblingNamesDistinct, kids
  <2>5. CASE i = d
    <3>1. \A m \in DOMAIN kids(d) : /\ inodes'[d].children[m] = kids(d)[m]
                                    /\ inodes[kids(d)[m]].name # name
      BY <1>1, <1>3, <1>4 DEF HasChild, kids
    <3>2. CASE j \in DOMAIN kids(d) /\ k \in DOMAIN kids(d)
      <4>1. inodes[kids(d)[j]].name = inodes[kids(d)[k]].name
            /\ inodes[kids(d)[j]].name # Clobbered
        <5>1. kids(d)[j] \in Used /\ kids(d)[k] \in Used
          BY <3>2, <1>1, <1>5
        <5>2. /\ inodes'[kids(d)[j]].name = inodes'[kids(d)[k]].name
              /\ inodes'[kids(d)[j]].name # Clobbered
          BY <3>1, <3>2, <2>5
        <5> QED
          BY <5>1, <5>2, <2>2
      <4> QED
        BY <3>2, <4>1, <1>1 DEF TreeInv, SiblingNamesDistinct, kids
    <3>3. name # Clobbered
      BY NameAssumption
    <3>4. \A m \in DOMAIN kids(d) : inodes'[inodes'[d].children[m]].name # name
      BY <3>1, <3>3, <2>2, <1>1, <1>5
    <3>5. j \in 1..(Len(kids(d)) + 1) /\ k \in 1..(Len(kids(d)) + 1)
      BY <2>5, <1>4
    <3>6. CASE j = Len(kids(d)) + 1
      BY <3>4, <3>5, <3>6, <2>5, <1>1, <1>3, <1>4
    <3>7. CASE k = Len(kids(d)) + 1
      BY <3>4, <3>5, <3>7, <2>5, <1>1, <1>3, <1>4
    <3> QED
      BY <3>2, <3>5, <3>6, <3>7, <1>1, <1>3
  <2> QED
    BY <2>1, <2>4, <2>5
<1> QED
  BY <1>8, <1>11, <1>12, <1>13 DEF TreeInv

-----------------------------------------------------------------------------
FileInv == FileTypes /\ HandlesOnFiles /\ OpenTableSound /\ VrefsCount

\* Inodes stay, with their types.
Grows == Used \subseteq Used' /\ \A i \in Used : inodes'[i].type = inodes[i].type

LEMMA AddInodeGrows ==
  ASSUME TreeInv, NEW d \in Used, NEW name \in Names, NEW type \in {"file", "dir"},
         IsDir(d), AddInode(d, name, type)
  PROVE  Grows /\ ninodes + 1 \in Used' /\ inodes'[ninodes + 1].type = type
<1>1. Used \subseteq InodeId /\ ninodes \in Nat
  BY Constants DEF TreeInv, TreeTypes, Used, InodeId
<1>2. /\ ninodes' = ninodes + 1 /\ inodes'[ninodes'].type = type
      /\ inodes'[d].type = inodes[d].type /\ ninodes' \notin Used
      /\ \A i \in InodeId : i # d /\ i # ninodes' => inodes'[i] = inodes[i]
  BY AddInodeFields
<1> QED
  BY <1>1, <1>2 DEF Grows, Used

\* The open files keep their invariant as long as inodes keep their types.
LEMMA HandlesKept ==
  ASSUME FileInv, Grows, UNCHANGED handles
  PROVE  FileInv'
BY DEF FileInv, Grows, handles, FileTypes, HandlesOnFiles, OpenTableSound, VrefsCount,
       IsFile

\* A new file_t on a file, in a slot that was free or in none.
LEMMA AddFileInv ==
  ASSUME FileInv, Grows, NEW i \in Used', inodes'[i].type = "file", Used' \subseteq InodeId,
         NEW flags \in SUBSET FlagBits, NEW size \in 0..(U32 - 1), AddFile(i, flags, size)
  PROVE  FileInv'
<1> USE Constants
<1> DEFINE n == nfiles + 1
<1>1. n \in FileId /\ nfiles' = n /\ nfiles \in Nat
  BY DEF AddFile, FileInv, FileTypes, FileId
<1>2. PICK new \in FileType : /\ new.inode = i /\ new.open /\ new.vref = 2
                              /\ files' = [files EXCEPT ![n] = new]
  <2> DEFINE r == [inode |-> i, f_pos |-> IF flags \cap O_APPEND # {} THEN size ELSE 0,
                   flags |-> flags, vref |-> 2, open |-> TRUE]
  <2>1. r \in FileType /\ r.inode = i /\ r.open /\ r.vref = 2
    BY DEF FileType
  <2> QED
    BY <2>1 DEF AddFile
<1>3. /\ files' \in [FileId -> FileType]
      /\ \A f \in FileId : files'[f] = IF f = n THEN new ELSE files[f]
  BY <1>1, <1>2 DEF FileInv, FileTypes
<1>4. HandlesOnFiles'
  BY <1>1, <1>2, <1>3 DEF FileInv, FileTypes, HandlesOnFiles, Grows, IsFile, FileId
<1>4a. VrefsCount'
  <2>1. \A f \in 1..n : f = n \/ f \in 1..nfiles
    BY <1>1
  <2> QED
    BY <2>1, <1>1, <1>2, <1>3 DEF FileInv, FileTypes, VrefsCount, FileId
<1>5. \A f \in FileId : files[f].open => f # n
  BY <1>1 DEF FileInv, HandlesOnFiles, NoFile, FileId
<1>6. open_files \in [1..MAX_OPEN_FILES -> {NULL} \cup FileId]
  BY DEF FileInv, FileTypes
<1>7. \A s \in 1..MAX_OPEN_FILES : open_files[s] # NULL => open_files[s] # n
  BY <1>5, <1>6 DEF FileInv, OpenTableSound
<1>8. n # NULL
  BY <1>1 DEF NULL
<1>9. CASE UNCHANGED open_files
  <2>1. OpenTableSound'
    BY <1>3, <1>6, <1>7, <1>9 DEF FileInv, OpenTableSound
  <2> QED
    BY <2>1, <1>1, <1>3, <1>4, <1>4a, <1>6, <1>9 DEF FileInv, FileTypes, FileId
<1>10. CASE \E s \in 1..MAX_OPEN_FILES :
              open_files[s] = NULL /\ open_files' = [open_files EXCEPT ![s] = n]
  <2>1. PICK s \in 1..MAX_OPEN_FILES :
          open_files[s] = NULL /\ open_files' = [open_files EXCEPT ![s] = n]
    BY <1>10
  <2>2. /\ open_files' \in [1..MAX_OPEN_FILES -> {NULL} \cup FileId]
        /\ \A t \in 1..MAX_OPEN_FILES : open_files'[t] = IF t = s THEN n ELSE open_files[t]
    BY <2>1, <1>1, <1>6
  <2>3. OpenTableSound'
    BY <2>2, <1>1, <1>2, <1>3, <1>6, <1>7, <1>8 DEF FileInv, OpenTableSound
  <2> QED
    BY <2>2, <2>3, <1>1, <1>3, <1>4, <1>4a DEF FileInv, FileTypes, FileId
<1> QED
  BY <1>9, <1>10 DEF AddFile

\* Moving the position of a file changes nothing else.
LEMMA MoveInv ==
  ASSUME FileInv, Grows, NEW f \in FileId, NEW pos \in 0..(U32 - 1), files[f].open,
         files' = [files EXCEPT ![f].f_pos = pos], UNCHANGED <<nfiles, open_files>>
  PROVE  FileInv'
<1> USE Constants
<1>1. files \in [FileId -> FileType]
  BY DEF FileInv, FileTypes
<1>2. /\ files' \in [FileId -> FileType]
      /\ \A g \in FileId : /\ files'[g].inode = files[g].inode
                           /\ files'[g].open = files[g].open
                           /\ files'[g].vref = files[g].vref
                           /\ g # f => files'[g] = files[g]
  BY <1>1 DEF FileType
<1>3. f \in 1..nfiles
  BY <1>1 DEF FileInv, HandlesOnFiles, NoFile, FileTypes, FileId
<1>4. HandlesOnFiles'
  <2>1. \A g \in 1..nfiles' : files'[g].inode \in Used' /\ inodes'[files'[g].inode].type = "file"
    <3> TAKE g \in 1..nfiles'
    <3>1. g \in FileId /\ g \in 1..nfiles
      BY DEF FileInv, FileTypes, FileId
    <3>2. files'[g].inode = files[g].inode
      BY <3>1, <1>2
    <3> QED
      BY <3>1, <3>2 DEF FileInv, HandlesOnFiles, Grows, IsFile
  <2>2. \A g \in FileId : g > nfiles' => files'[g] = NoFile
    BY <1>2, <1>3 DEF FileInv, FileTypes, HandlesOnFiles, FileId
  <2> QED
    BY <2>1, <2>2 DEF HandlesOnFiles, IsFile
<1>5. OpenTableSound'
  BY <1>2 DEF FileInv, FileTypes, OpenTableSound
<1>6. VrefsCount'
  BY <1>2 DEF FileInv, FileTypes, FileId, VrefsCount
<1> QED
  BY <1>2, <1>4, <1>5, <1>6 DEF FileInv, FileTypes

\* Replacing the content of a file leaves the tree as it is.
LEMMA ContentInv ==
  ASSUME TreeInv, NEW i \in Used, IsFile(i), NEW data \in Seq(Byte), Len(data) < U32,
         inodes' = [inodes EXCEPT ![i].data = data], UNCHANGED <<root, ninodes>>
  PROVE  TreeInv' /\ Grows
<1> USE Constants
<1>1. inodes \in [InodeId -> InodeType] /\ Used \subseteq InodeId /\ Used' = Used
  BY DEF TreeInv, TreeTypes, Used, InodeId
<1>2. /\ inodes' \in [InodeId -> InodeType]
      /\ \A j \in InodeId : /\ inodes'[j].type = inodes[j].type
                            /\ inodes'[j].name = inodes[j].name
                            /\ inodes'[j].parent = inodes[j].parent
                            /\ inodes'[j].children = inodes[j].children
                            /\ j # i => inodes'[j] = inodes[j]
      /\ inodes'[i].data = data
  <2> DEFINE r == inodes[i]
  <2>1. i \in InodeId /\ r \in InodeType
    BY <1>1
  <2>2. /\ inodes'[i] = [r EXCEPT !.data = data]
        /\ \A j \in InodeId : j # i => inodes'[j] = inodes[j]
        /\ inodes' = [j \in InodeId |-> inodes'[j]]
    BY <1>1, <2>1
  <2> HIDE DEF r
  <2>3. inodes'[i] = [type |-> r.type, name |-> r.name, parent |-> r.parent,
                      children |-> r.children, data |-> data]
    BY <2>1, <2>2 DEF InodeType
  <2>4. inodes'[i] \in InodeType
    BY <2>1, <2>3 DEF InodeType
  <2>5. inodes' \in [InodeId -> InodeType]
    BY <1>1, <2>2, <2>4
  <2> QED
    BY <2>2, <2>3, <2>5 DEF r
<1>3. TreeTypes'
  BY <1>1, <1>2 DEF TreeInv, TreeTypes
<1>4. \A j \in InodeId : \A k \in DOMAIN inodes[j].children :
        inodes[j].children[k] \in Used
  BY DEF TreeInv, TreeShape
<1>5. TreeShape'
  <2>1. \A j \in InodeId \ Used : inodes'[j] = NoInode
    BY <1>2 DEF TreeInv, TreeShape
  <2>2. \A j \in InodeId : \A k \in DOMAIN inodes'[j].children :
          LET c == inodes'[j].children[k] IN c \in Used /\ c > j /\ inodes'[c].parent = j
    BY <1>1, <1>2, <1>4 DEF TreeInv, TreeShape
  <2>3. \A j \in Used \ {root} :
          /\ inodes'[j].parent \in Used
          /\ \E k \in DOMAIN inodes'[inodes'[j].parent].children :
               inodes'[inodes'[j].parent].children[k] = j
    BY <1>1, <1>2 DEF TreeInv, TreeShape
  <2>4. \A j \in InodeId : /\ inodes'[j].type = "file" => inodes'[j].children = <<>>
                           /\ inodes'[j].type = "dir" => inodes'[j].data = <<>>
    BY <1>1, <1>2 DEF TreeInv, TreeShape, IsFile, IsDir
  <2>5. root # NULL => root \in Used /\ inodes'[root].type = "dir"
    BY <1>1, <1>2 DEF TreeInv, TreeShape, IsDir
  <2> QED
    BY <2>1, <2>2, <2>3, <2>4, <2>5, <1>1 DEF TreeShape, IsFile, IsDir
<1>6. SiblingNamesDistinct'
  BY <1>1, <1>2, <1>4 DEF TreeInv, SiblingNamesDistinct
<1>7. ChildrenInOrder'
  BY <1>2 DEF TreeInv, ChildrenInOrder
<1> QED
  BY <1>1, <1>2, <1>3, <1>5, <1>6, <1>7 DEF TreeInv, Grows

-----------------------------------------------------------------------------
\* What every other conjunct of Inv needs of a call that returns.
RetInv == ret.code \in Int /\ wild \in {"none", "read", "write"}

LEMMA InvParts == Inv <=> TreeInv /\ FileInv /\ RetInv
BY DEF Inv, FileInv, RetInv

LEMMA Returns == ASSUME RetInv, NEW c \in Int, Return(c), UNCHANGED wild PROVE RetInv'
BY DEF RetInv, Return

LEMMA UnchangedInv ==
  ASSUME TreeInv, FileInv, UNCHANGED <<tree, handles>>
  PROVE  TreeInv' /\ FileInv'
BY DEF tree, handles, TreeInv, TreeTypes, TreeShape, SiblingNamesDistinct, ChildrenInOrder,
       FileInv, FileTypes, HandlesOnFiles, OpenTableSound, VrefsCount, Used, IsDir, IsFile

\* A path that is not empty has a last component, a name.
LEMMA FilenameIsName ==
  ASSUME NEW path \in Paths
  PROVE  /\ Depth(path) \in Nat /\ parse_path(path) \in Seq(Names)
         /\ Depth(path) > 0 => Filename(path) \in Names
<1> USE Constants
<1>1. path \in Seq(Names) /\ MAX_COMPONENTS \in Nat
  BY InputAssumption, LimitAssumption
<1>2. parse_path(path) \in Seq(Names)
  BY <1>1 DEF parse_path
<1>3. Depth(path) \in Nat /\ (Depth(path) > 0 => Depth(path) \in 1..Len(parse_path(path)))
  BY <1>2 DEF Depth
<1> QED
  BY <1>2, <1>3 DEF Filename

\* Whatever the lookup of a new path returns is a directory without that name.
LEMMA AddsUsed ==
  ASSUME TreeInv, NEW path \in Paths, NEW oom, NEW d, Adds(path, oom, d)
  PROVE  d \in Used /\ IsDir(d) /\ ~HasChild(d, Filename(path)) /\ Filename(path) \in Names
<1>1. Depth(path) > 0 /\ Reaches(parse_path(path), Depth(path) - 1, d) /\ IsDir(d)
  BY DEF Adds, Missing
<1>2. Depth(path) - 1 \in Nat /\ Filename(path) \in Names
  BY <1>1, FilenameIsName
<1>3. d \in Used
  BY <1>1, <1>2, ReachesUsed
<1> QED
  BY <1>1, <1>2, <1>3 DEF Adds

LEMMA OpensUsed ==
  ASSUME TreeInv, NEW path \in Paths, NEW oom, NEW d, Opens(path, oom, d)
  PROVE  d \in Used /\ IsFile(d)
<1>1. Reaches(parse_path(path), Depth(path), d) /\ IsFile(d)
  BY DEF Opens, Found
<1>2. Depth(path) \in Nat
  BY FilenameIsName
<1> QED
  BY <1>1, <1>2, ReachesUsed

\* Adding a child as tmpfs_create and tmpfs_mkdir do.
LEMMA AddsInv ==
  ASSUME TreeInv, NEW path \in Paths, NEW oom, NEW type \in {"file", "dir"},
         \E d \in InodeId : Adds(path, oom, d) /\ AddInode(d, Filename(path), type)
  PROVE  TreeInv' /\ Grows /\ ninodes + 1 \in Used' /\ inodes'[ninodes + 1].type = type
<1>1. PICK d \in InodeId : Adds(path, oom, d) /\ AddInode(d, Filename(path), type)
  OBVIOUS
<1>2. d \in Used /\ IsDir(d) /\ ~HasChild(d, Filename(path)) /\ Filename(path) \in Names
  BY <1>1, AddsUsed
<1> QED
  BY <1>1, <1>2, AddInodeInv, AddInodeGrows

LEMMA UsedIsInodeId == TreeInv => Used \subseteq InodeId
BY Constants DEF TreeInv, TreeTypes, Used, InodeId

LEMMA SizeInRange ==
  ASSUME TreeInv, NEW i \in InodeId
  PROVE  inodes[i].data \in Seq(Byte) /\ Len(inodes[i].data) \in 0..(U32 - 1)
<1>1. inodes[i] \in InodeType /\ Len(inodes[i].data) < U32
  BY DEF TreeInv, TreeTypes
<1>2. inodes[i].data \in Seq(Byte)
  BY <1>1 DEF InodeType
<1>3. Len(inodes[i].data) \in Nat
  BY <1>2
<1> QED
  BY <1>1, <1>2, <1>3, Constants

\* An open file_t is one of those made, with a position and a file of its own.
LEMMA OpenHandle ==
  ASSUME TreeInv, FileInv, NEW f \in FileId, files[f].open
  PROVE  /\ f \in 1..nfiles /\ files[f].inode \in Used /\ IsFile(files[f].inode)
         /\ files[f].f_pos \in 0..(U32 - 1)
         /\ Contained(f) \in Seq(Byte) /\ Len(Contained(f)) \in 0..(U32 - 1)
<1>1. f \in 1..nfiles
  BY DEF FileInv, HandlesOnFiles, NoFile, FileTypes, FileId
<1>2. files[f].inode \in Used /\ IsFile(files[f].inode)
  BY <1>1 DEF FileInv, HandlesOnFiles
<1>3. files[f].f_pos \in 0..(U32 - 1)
  BY DEF FileInv, FileTypes, FileType
<1>4. files[f].inode \in InodeId
  BY <1>2, UsedIsInodeId
<1> QED
  BY <1>1, <1>2, <1>3, <1>4, SizeInRange DEF Contained

\* The first inode, the root, is an empty directory.
LEMMA VfsInitInv == ASSUME Inv, NEW oom, VfsInit(oom) PROVE Inv'
<1> USE Constants
<1>1. TreeInv /\ FileInv /\ RetInv
  BY InvParts
<1>2. CASE oom \in 1..3
  <2>1. UNCHANGED <<tree, handles>> /\ Return(-1) /\ UNCHANGED wild
    BY <1>2 DEF VfsInit
  <2>2. TreeInv' /\ FileInv'
    BY <1>1, <2>1, UnchangedInv
  <2>3. RetInv'
    BY <1>1, <2>1, Returns
  <2> QED
    BY <2>2, <2>3 DEF Inv, FileInv, RetInv
<1>3. CASE oom \notin 1..3
  <2> DEFINE n == ninodes + 1
             new == [NoInode EXCEPT !.type = "dir"]
  <2>1. /\ root = NULL /\ root' = n /\ ninodes' = n /\ n \in InodeId
        /\ n \notin Used /\ Used' = Used \cup {n} /\ Used \subseteq InodeId
        /\ inodes' = [inodes EXCEPT ![n] = new] /\ inodes \in [InodeId -> InodeType]
        /\ Return(0) /\ UNCHANGED handles /\ UNCHANGED wild
    BY <1>1, <1>3 DEF VfsInit, TreeInv, TreeTypes, InodeId, Used
  <2>2. /\ new \in InodeType /\ new.type = "dir" /\ new.children = <<>> /\ new.data = <<>>
        /\ new.name = RootName
    <3>1. new = [type |-> "dir", name |-> RootName, parent |-> NULL,
                 children |-> <<>>, data |-> <<>>]
      BY DEF NoInode
    <3>2. <<>> \in Seq(InodeId) /\ <<>> \in Seq(Byte)
      OBVIOUS
    <3> HIDE DEF new
    <3> QED
      BY <3>1, <3>2 DEF InodeType
  <2>3. Used = {}
    \* Every inode but the root has a parent made before it, and there is no root.
    <3>1. SUFFICES ASSUME Used # {} PROVE FALSE
      OBVIOUS
    <3>2. 1 \in Used
      BY <3>1, <1>1 DEF Used, TreeInv, TreeTypes
    <3>3. 1 # root /\ 1 \in InodeId
      BY <2>1, <3>2 DEF NULL, InodeId
    <3>4. PICK p \in Used : /\ p = inodes[1].parent
                            /\ \E k \in DOMAIN inodes[p].children : inodes[p].children[k] = 1
      BY <1>1, <3>2, <3>3 DEF TreeInv, TreeShape
    <3>5. 1 > p /\ p \in InodeId
      BY <1>1, <2>1, <3>4 DEF TreeInv, TreeShape
    <3> QED
      BY <3>5 DEF InodeId
  <2> HIDE DEF n, new
  <2>4. /\ inodes' \in [InodeId -> InodeType] /\ inodes'[n] = new
        /\ \A i \in InodeId : i # n => inodes'[i] = NoInode
    BY <1>1, <2>1, <2>2, <2>3 DEF TreeInv, TreeShape
  <2>5. /\ \A i \in InodeId : inodes'[i].children = <<>> /\ inodes'[i].data = <<>>
        /\ inodes'[n].type = "dir"
    BY <2>2, <2>4, NoInodeFields
  <2>6. TreeTypes'
    <3>1. \A i \in InodeId : Len(inodes'[i].data) < U32
      <4>1. Len(<<>>) = 0
        OBVIOUS
      <4> QED
        BY <2>5, <4>1
    <3>2. ninodes' \in 0..MaxInodes /\ root' \in {NULL} \cup InodeId
      BY <2>1 DEF InodeId
    <3> QED
      BY <2>4, <3>1, <3>2 DEF TreeTypes
  <2>7. TreeShape'
    BY <2>1, <2>3, <2>4, <2>5 DEF TreeShape, IsDir, IsFile
  <2>8. SiblingNamesDistinct' /\ ChildrenInOrder'
    BY <2>5 DEF SiblingNamesDistinct, ChildrenInOrder
  <2>9. FileInv'
    <3>1. Grows
      BY <2>1, <2>3 DEF Grows
    <3> QED
      BY <1>1, <2>1, <3>1, HandlesKept
  <2>10. RetInv'
    BY <1>1, <2>1, Returns
  <2> QED
    BY <2>6, <2>7, <2>8, <2>9, <2>10 DEF Inv, TreeInv, FileInv, RetInv
<1> QED
  BY <1>2, <1>3

LEMMA VfsMkdirInv ==
  ASSUME Inv, NEW path \in Paths, NEW oom, VfsMkdir(path, oom) PROVE Inv'
<1>1. TreeInv /\ FileInv /\ RetInv
  BY InvParts
<1>2. TreeInv' /\ Grows
  BY <1>1, AddsInv DEF VfsMkdir
<1>3. FileInv'
  BY <1>1, <1>2, HandlesKept DEF VfsMkdir, handles
<1>4. RetInv'
  BY <1>1, Returns DEF VfsMkdir
<1> QED
  BY <1>2, <1>3, <1>4 DEF Inv, FileInv, RetInv

LEMMA VfsOpenExistingInv ==
  ASSUME Inv, NEW path \in Paths, NEW flags \in OpenFlags, NEW oom,
         VfsOpenExisting(path, flags, oom)
  PROVE  Inv'
<1>1. TreeInv /\ FileInv /\ RetInv
  BY InvParts
<1>2. PICK d \in InodeId : Opens(path, oom, d) /\ AddFile(d, flags, Len(inodes[d].data))
  BY DEF VfsOpenExisting
<1>3. UNCHANGED tree /\ Return(0) /\ UNCHANGED wild
  BY DEF VfsOpenExisting
<1>4. TreeInv' /\ Grows /\ Used' = Used /\ inodes' = inodes
  BY <1>1, <1>3 DEF tree, TreeInv, TreeTypes, TreeShape, SiblingNamesDistinct,
                    ChildrenInOrder, Used, IsDir, IsFile, Grows
<1>5. d \in Used /\ inodes[d].type = "file"
  BY <1>1, <1>2, OpensUsed DEF IsFile
<1>6. Used' \subseteq InodeId /\ Len(inodes[d].data) \in 0..(U32 - 1)
  BY <1>1, <1>4, UsedIsInodeId, SizeInRange
<1>7. flags \in SUBSET FlagBits
  BY InputAssumption
<1>8. FileInv'
  BY <1>1, <1>2, <1>4, <1>5, <1>6, <1>7, AddFileInv
<1>9. RetInv'
  BY <1>1, <1>3, Returns
<1> QED
  BY <1>4, <1>8, <1>9 DEF Inv, FileInv, RetInv

LEMMA VfsOpenCreateInv ==
  ASSUME Inv, NEW path \in Paths, NEW flags \in OpenFlags, NEW oom,
         VfsOpenCreate(path, flags, oom)
  PROVE  Inv'
<1>1. TreeInv /\ FileInv /\ RetInv
  BY InvParts
<1>2. TreeInv' /\ Grows /\ ninodes + 1 \in Used' /\ inodes'[ninodes + 1].type = "file"
  BY <1>1, AddsInv DEF VfsOpenCreate
<1>3. Used' \subseteq InodeId
  BY <1>2, Constants DEF TreeInv, TreeTypes, Used, InodeId
<1>4. flags \in SUBSET FlagBits /\ 0 \in 0..(U32 - 1)
  BY InputAssumption, Constants
<1>5. FileInv'
  BY <1>1, <1>2, <1>3, <1>4, AddFileInv DEF VfsOpenCreate
<1>6. RetInv'
  BY <1>1, Returns DEF VfsOpenCreate
<1> QED
  BY <1>2, <1>5, <1>6 DEF Inv, FileInv, RetInv

LEMMA VfsOpenHalfDoneInv ==
  ASSUME Inv, NEW path \in Paths, NEW flags \in OpenFlags, NEW oom,
         VfsOpenHalfDone(path, flags, oom)
  PROVE  Inv'
<1>1. TreeInv /\ FileInv /\ RetInv
  BY InvParts
<1>2. TreeInv' /\ Grows
  BY <1>1, AddsInv DEF VfsOpenHalfDone
<1>3. FileInv'
  BY <1>1, <1>2, HandlesKept DEF VfsOpenHalfDone
<1>4. RetInv'
  BY <1>1, Returns DEF VfsOpenHalfDone
<1> QED
  BY <1>2, <1>3, <1>4 DEF Inv, FileInv, RetInv

\* A failed call leaves everything but the returned code alone.
Fails == UNCHANGED <<tree, handles, wild>> /\ Return(-1)

LEMMA FailsInv == ASSUME Inv, Fails PROVE Inv'
<1>1. TreeInv /\ FileInv /\ RetInv
  BY InvParts
<1>2. TreeInv' /\ FileInv'
  BY <1>1, UnchangedInv DEF Fails
<1>3. RetInv'
  BY <1>1, Returns DEF Fails
<1> QED
  BY <1>2, <1>3 DEF Inv, FileInv, RetInv

\* The calls that only move a position.
LEMMA MovesInv ==
  ASSUME Inv, NEW f \in FileId, NEW pos \in 0..(U32 - 1), files[f].open,
         files' = [files EXCEPT ![f].f_pos = pos],
         UNCHANGED <<tree, nfiles, open_files>>, RetInv'
  PROVE  Inv'
<1>1. TreeInv /\ FileInv
  BY InvParts
<1>2. TreeInv' /\ Grows
  BY <1>1 DEF tree, TreeInv, TreeTypes, TreeShape, SiblingNamesDistinct,
              ChildrenInOrder, Used, IsDir, IsFile, Grows
<1>3. FileInv'
  BY <1>1, <1>2, MoveInv
<1> QED
  BY <1>2, <1>3 DEF Inv, FileInv, RetInv

LEMMA ReadCountInRange ==
  ASSUME TreeInv, FileInv, NEW f \in FileId, files[f].open, NEW size \in Sizes
  PROVE  ReadCount(f, size) \in Nat
<1>1. size \in Nat
  BY InputAssumption, Constants
<1>2. files[f].f_pos \in Nat /\ Len(Contained(f)) \in Nat
  BY OpenHandle, Constants
<1>3. /\ files[f].f_pos < Len(Contained(f))
           => Len(Contained(f)) - files[f].f_pos \in Nat
  BY <1>2
<1>4. files[f].f_pos >= Len(Contained(f)) \/ files[f].f_pos < Len(Contained(f))
  BY <1>2
<1> QED
  BY <1>1, <1>3, <1>4 DEF ReadCount

LEMMA VfsReadInv ==
  ASSUME Inv, NEW f \in FileId, NEW size \in Sizes, VfsRead(f, size) PROVE Inv'
<1>1. TreeInv /\ FileInv /\ RetInv
  BY InvParts
<1> DEFINE n == ReadCount(f, size)
           pos == (files[f].f_pos + n) % U32
<1>2. files[f].open /\ n \in Nat
  BY <1>1, ReadCountInRange DEF VfsRead
<1>3. files[f].f_pos \in Nat
  BY <1>1, <1>2, OpenHandle, Constants
<1>4. pos \in 0..(U32 - 1)
  BY <1>2, <1>3, Wraps
<1>5. RetInv'
  <2>1. ret'.code = AsInt(n)
    BY DEF VfsRead
  <2>2. wild' \in {"read", wild}
    BY DEF VfsRead
  <2>3. AsInt(n) \in Int
    BY <1>2, CodesAreInts
  <2> QED
    BY <1>1, <2>1, <2>2, <2>3 DEF RetInv
<1>6. files' = [files EXCEPT ![f].f_pos = pos] /\ UNCHANGED <<tree, nfiles, open_files>>
  BY DEF VfsRead
<1> HIDE DEF pos
<1> QED
  BY <1>2, <1>4, <1>5, <1>6, MovesInv

LEMMA VfsLseekInv ==
  ASSUME Inv, NEW f \in FileId, NEW offset \in Offsets, NEW whence \in 0..2,
         VfsLseek(f, offset, whence)
  PROVE  Inv'
<1>1. TreeInv /\ FileInv /\ RetInv
  BY InvParts
<1> DEFINE base == CASE whence = 0 -> 0
                     [] whence = 1 -> files[f].f_pos
                     [] whence = 2 -> Len(Contained(f))
           pos == (base + offset) % U32
<1>2. files[f].open
  BY DEF VfsLseek
<1>3. files[f].f_pos \in Int /\ Len(Contained(f)) \in Int
  BY <1>1, <1>2, OpenHandle, Constants
<1>4. base \in Int /\ offset \in Int
  <2>1. whence = 0 \/ whence = 1 \/ whence = 2
    OBVIOUS
  <2> QED
    BY <1>3, <2>1, InputAssumption
<1>5. pos \in 0..(U32 - 1)
  <2> HIDE DEF base
  <2>1. base + offset \in Int
    BY <1>4
  <2> QED
    BY <2>1, Wraps
<1>6. /\ files' = [files EXCEPT ![f].f_pos = pos] /\ Return(AsInt(pos))
      /\ UNCHANGED <<tree, nfiles, open_files, wild>>
  BY DEF VfsLseek
<1> HIDE DEF pos
<1>7. AsInt(pos) \in Int
  BY <1>5, CodesAreInts, Constants
<1>8. RetInv'
  BY <1>1, <1>6, <1>7, Returns
<1> QED
  BY <1>2, <1>5, <1>6, <1>8, MovesInv

\* What tmpfs_write leaves in the file is a file's content again.
LEMMA WrittenIsData ==
  ASSUME TreeInv, FileInv, NEW f \in FileId, files[f].open, NEW buf \in Contents
  PROVE  /\ Written(f, buf) \in Seq(Byte) /\ Len(Written(f, buf)) < U32
         /\ Len(Written(f, buf)) = NewSize(f, Len(buf))
<1> DEFINE n == NewSize(f, Len(buf))
           pos == files[f].f_pos
           data == Contained(f)
<1>1. pos \in 0..(U32 - 1) /\ data \in Seq(Byte) /\ Len(data) \in 0..(U32 - 1)
  BY OpenHandle
<1>2. buf \in Seq(Byte) /\ Len(buf) \in Nat
  <2>1. buf \in Seq(Bytes)
    BY InputAssumption
  <2> QED
    BY <2>1 DEF Byte
<1>3. n \in 0..(U32 - 1)
  <2>1. (pos + Len(buf)) % U32 \in 0..(U32 - 1)
    <3> HIDE DEF pos, data, n
    <3>1. pos + Len(buf) \in Int
      BY <1>1, <1>2, Constants
    <3> QED
      BY <3>1, Wraps
  <2> QED
    BY <1>1, <2>1 DEF NewSize
<1> HIDE DEF n, pos, data
<1>4. \A k \in 1..n :
        (LET j == (k - 1 - pos) % U32
         IN  IF j < Len(buf) THEN buf[j + 1]
             ELSE IF k <= Len(data) THEN data[k] ELSE Garbage) \in Byte
  <2> TAKE k \in 1..n
  <2> DEFINE j == (k - 1 - pos) % U32
  <2>1. j \in Nat
    <3>1. k - 1 - pos \in Int
      BY <1>1, <1>3, Constants
    <3> QED
      BY <3>1, Wraps, Constants
  <2> HIDE DEF j
  <2>2. j < Len(buf) => buf[j + 1] \in Byte
    BY <1>2, <2>1
  <2>3. k <= Len(data) => data[k] \in Byte
    BY <1>1, <1>3
  <2>4. Garbage \in Byte
    BY DEF Byte
  <2> QED
    BY <2>2, <2>3, <2>4 DEF j
<1>5. Written(f, buf) = [k \in 1..n |->
        LET j == (k - 1 - pos) % U32
        IN  IF j < Len(buf) THEN buf[j + 1]
            ELSE IF k <= Len(data) THEN data[k] ELSE Garbage]
  BY DEF Written, n, pos, data
<1>6. Written(f, buf) \in [1..n -> Byte]
  BY <1>4, <1>5
<1>7. n \in Nat
  BY <1>3, Constants
<1>8. Written(f, buf) \in Seq(Byte) /\ Len(Written(f, buf)) = n
  BY <1>6, <1>7
<1> QED
  BY <1>3, <1>8, Constants DEF n

LEMMA VfsWriteInv ==
  ASSUME Inv, NEW f \in FileId, NEW buf \in Contents, NEW oom, VfsWrite(f, buf, oom)
  PROVE  Inv'
<1>1. TreeInv /\ FileInv /\ RetInv
  BY InvParts
<1> DEFINE i == files[f].inode
           pos == (files[f].f_pos + Len(buf)) % U32
<1>2. files[f].open /\ i \in Used /\ IsFile(i) /\ files[f].f_pos \in Nat
  BY <1>1, OpenHandle, Constants DEF VfsWrite
<1>3. Written(f, buf) \in Seq(Byte) /\ Len(Written(f, buf)) < U32
  BY <1>1, <1>2, WrittenIsData
<1>4. /\ inodes' = [inodes EXCEPT ![i].data = Written(f, buf)]
      /\ files' = [files EXCEPT ![f].f_pos = pos]
      /\ UNCHANGED <<root, ninodes, nfiles, open_files>>
  BY DEF VfsWrite
<1>5. Len(buf) \in Nat
  <2>1. buf \in Seq(Bytes)
    BY InputAssumption
  <2> QED
    BY <2>1
<1>6. pos \in 0..(U32 - 1)
  <2>1. files[f].f_pos + Len(buf) \in Int
    BY <1>2, <1>5
  <2> QED
    BY <2>1, Wraps
<1> HIDE DEF i, pos
<1>7. TreeInv' /\ Grows
  BY <1>1, <1>2, <1>3, <1>4, ContentInv
<1>8. FileInv'
  BY <1>1, <1>2, <1>4, <1>6, <1>7, MoveInv
<1>9. RetInv'
  <2>1. ret'.code = AsInt(Len(buf)) /\ AsInt(Len(buf)) \in Int
    BY <1>5, CodesAreInts DEF VfsWrite, Return
  <2>2. wild' \in {"write", wild}
    BY DEF VfsWrite
  <2> QED
    BY <1>1, <2>1, <2>2 DEF RetInv
<1> QED
  BY <1>7, <1>8, <1>9 DEF Inv, FileInv, RetInv

LEMMA VfsCloseInv ==
  ASSUME Inv, NEW f \in FileId, VfsClose(f) PROVE Inv'
<1>1. TreeInv /\ FileInv /\ RetInv
  BY InvParts
<1>2. files \in [FileId -> FileType] /\ files[f].open /\ f \in 1..nfiles /\ files[f].vref = 2
  BY <1>1, OpenHandle DEF FileInv, FileTypes, VfsClose, VrefsCount
<1>3. /\ files' = [g \in FileId |-> files'[g]]
      /\ \A g \in FileId : g # f => files'[g] = files[g]
      /\ files'[f] = [files[f] EXCEPT !.open = FALSE, !.vref = @ - 1]
  <2>1. files' = [files EXCEPT ![f].open = FALSE, ![f].vref = @ - 1]
    BY DEF VfsClose
  <2> QED
    BY <1>2, <2>1
<1>4. /\ files' \in [FileId -> FileType]
      /\ \A g \in FileId : /\ files'[g].inode = files[g].inode
                           /\ g # f => files'[g] = files[g]
                           /\ g = f => ~files'[g].open /\ files'[g].vref = 1
  <2> DEFINE r == files[f]
  <2>1. r \in FileType /\ r.vref - 1 = 1
    BY <1>2
  <2>2. files'[f] = [r EXCEPT !.open = FALSE, !.vref = @ - 1]
    BY <1>3
  <2> HIDE DEF r
  <2>3. files'[f] = [inode |-> r.inode, f_pos |-> r.f_pos, flags |-> r.flags,
                     vref |-> 1, open |-> FALSE]
    BY <2>1, <2>2 DEF FileType
  <2>4. files'[f] \in FileType /\ files'[f].inode = r.inode
    BY <2>1, <2>3 DEF FileType
  <2>5. ~files'[f].open /\ files'[f].vref = 1
    BY <2>3
  <2>6. \A g \in FileId : files'[g] \in FileType
    BY <1>2, <1>3, <2>4
  <2>7. files' \in [FileId -> FileType]
    BY <1>3, <2>6
  <2> QED
    BY <1>3, <2>4, <2>5, <2>7 DEF r
<1>5. TreeInv' /\ Grows
  BY <1>1 DEF VfsClose, tree, TreeInv, TreeTypes, TreeShape, SiblingNamesDistinct,
              ChildrenInOrder, Used, IsDir, IsFile, Grows
<1>6. nfiles' = nfiles
  BY DEF VfsClose
<1>7. HandlesOnFiles'
  <2>1. \A g \in 1..nfiles : files'[g].inode \in Used' /\ inodes'[files'[g].inode].type = "file"
    <3> TAKE g \in 1..nfiles
    <3>1. g \in FileId
      BY <1>1, Constants DEF FileInv, FileTypes, FileId
    <3> QED
      BY <3>1, <1>1, <1>4, <1>5 DEF FileInv, HandlesOnFiles, Grows, IsFile
  <2>2. \A g \in FileId : g > nfiles => files'[g] = NoFile
    BY <1>1, <1>2, <1>4 DEF FileInv, FileTypes, HandlesOnFiles, FileId
  <2> QED
    BY <2>1, <2>2, <1>6 DEF HandlesOnFiles, IsFile
<1>8. /\ open_files' \in [1..MAX_OPEN_FILES -> {NULL} \cup FileId]
      /\ \A s \in 1..MAX_OPEN_FILES : open_files'[s] # NULL =>
           open_files[s] = open_files'[s] /\ open_files[s] # f
  <2>1. /\ open_files \in [1..MAX_OPEN_FILES -> {NULL} \cup FileId]
        /\ open_files' = [s \in 1..MAX_OPEN_FILES |->
             IF open_files[s] = f /\ \A t \in 1..(s - 1) : open_files[t] # f
             THEN NULL ELSE open_files[s]]
    BY <1>1 DEF FileInv, FileTypes, VfsClose
  \* f has one slot at most, so its first slot is every slot it has.
  <2>2. \A s \in 1..MAX_OPEN_FILES : open_files[s] = f =>
          \A t \in 1..(s - 1) : open_files[t] # f
    <3> SUFFICES ASSUME NEW s \in 1..MAX_OPEN_FILES, open_files[s] = f, NEW t \in 1..(s - 1),
                        open_files[t] = f
                 PROVE  FALSE
      OBVIOUS
    <3>1. t \in 1..MAX_OPEN_FILES /\ t # s
      BY Constants
    <3>2. f # NULL
      BY DEF FileId, NULL
    <3> QED
      BY <3>1, <3>2, <1>1 DEF FileInv, OpenTableSound
  <2> QED
    BY <2>1, <2>2
<1>9. OpenTableSound'
  <2> SUFFICES ASSUME NEW s \in 1..MAX_OPEN_FILES, open_files'[s] # NULL
               PROVE  /\ files'[open_files'[s]].open
                      /\ \A t \in 1..MAX_OPEN_FILES : open_files'[t] = open_files'[s] => t = s
    BY DEF OpenTableSound
  <2>1. open_files[s] = open_files'[s] /\ open_files[s] # f /\ open_files[s] \in FileId
    BY <1>1, <1>8 DEF FileInv, FileTypes
  <2>2. files'[open_files[s]] = files[open_files[s]] /\ files[open_files[s]].open
    BY <2>1, <1>1, <1>4 DEF FileInv, OpenTableSound
  <2>3. \A t \in 1..MAX_OPEN_FILES : open_files'[t] = open_files'[s] => t = s
    BY <2>1, <1>1, <1>8 DEF FileInv, OpenTableSound
  <2> QED
    BY <2>1, <2>2, <2>3
<1>9a. VrefsCount'
  BY <1>1, <1>4, <1>6, Constants DEF FileInv, FileTypes, FileId, VrefsCount
<1>10. FileInv'
  BY <1>1, <1>4, <1>6, <1>7, <1>8, <1>9, <1>9a DEF FileInv, FileTypes
<1>11. RetInv'
  BY <1>1, Returns DEF VfsClose
<1> QED
  BY <1>5, <1>10, <1>11 DEF Inv, FileInv, RetInv

LEMMA NextInv == ASSUME Inv, Next PROVE Inv'
<1>1. PICK oom \in Ooms :
        \/ VfsInit(oom)
        \/ \E path \in Paths : VfsMkdir(path, oom) \/ VfsMkdirFails(path, oom)
        \/ \E path \in Paths, flags \in OpenFlags :
             \/ VfsOpenExisting(path, flags, oom)
             \/ VfsOpenCreate(path, flags, oom)
             \/ VfsOpenHalfDone(path, flags, oom)
             \/ VfsOpenFails(path, flags, oom)
        \/ \E f \in FileId :
             \/ \E size \in Sizes : VfsRead(f, size)
             \/ VfsReadDenied(f)
             \/ \E buf \in Contents : VfsWrite(f, buf, oom) \/ VfsWriteFails(f, buf, oom)
             \/ \E offset \in Offsets, whence \in 0..2 : VfsLseek(f, offset, whence)
             \/ VfsLseekFails(f)
             \/ VfsClose(f)
  BY DEF Next
<1>2. CASE VfsInit(oom)
  BY <1>2, VfsInitInv
<1>3. ASSUME NEW path \in Paths, VfsMkdir(path, oom) \/ VfsMkdirFails(path, oom)
      PROVE  Inv'
  <2>1. CASE VfsMkdir(path, oom)
    BY <2>1, VfsMkdirInv
  <2>2. CASE VfsMkdirFails(path, oom)
    BY <2>2, FailsInv DEF VfsMkdirFails, Fails
  <2> QED
    BY <1>3, <2>1, <2>2
<1>4. ASSUME NEW path \in Paths, NEW flags \in OpenFlags,
             \/ VfsOpenExisting(path, flags, oom)
             \/ VfsOpenCreate(path, flags, oom)
             \/ VfsOpenHalfDone(path, flags, oom)
             \/ VfsOpenFails(path, flags, oom)
      PROVE  Inv'
  <2>1. CASE VfsOpenExisting(path, flags, oom)
    BY <2>1, VfsOpenExistingInv
  <2>2. CASE VfsOpenCreate(path, flags, oom)
    BY <2>2, VfsOpenCreateInv
  <2>3. CASE VfsOpenHalfDone(path, flags, oom)
    BY <2>3, VfsOpenHalfDoneInv
  <2>4. CASE VfsOpenFails(path, flags, oom)
    BY <2>4, FailsInv DEF VfsOpenFails, Fails
  <2> QED
    BY <1>4, <2>1, <2>2, <2>3, <2>4
<1>5. ASSUME NEW f \in FileId,
             \/ \E size \in Sizes : VfsRead(f, size)
             \/ VfsReadDenied(f)
             \/ \E buf \in Contents : VfsWrite(f, buf, oom) \/ VfsWriteFails(f, buf, oom)
             \/ \E offset \in Offsets, whence \in 0..2 : VfsLseek(f, offset, whence)
             \/ VfsLseekFails(f)
             \/ VfsClose(f)
      PROVE  Inv'
  <2>1. CASE \E size \in Sizes : VfsRead(f, size)
    BY <2>1, VfsReadInv
  <2>2. CASE VfsReadDenied(f) \/ VfsLseekFails(f)
    BY <2>2, FailsInv DEF VfsReadDenied, VfsLseekFails, Fails
  <2>3. CASE \E buf \in Contents : VfsWrite(f, buf, oom) \/ VfsWriteFails(f, buf, oom)
    <3>1. PICK buf \in Contents : VfsWrite(f, buf, oom) \/ VfsWriteFails(f, buf, oom)
      BY <2>3
    <3>2. CASE VfsWrite(f, buf, oom)
      BY <3>2, VfsWriteInv
    <3>3. CASE VfsWriteFails(f, buf, oom)
      BY <3>3, FailsInv DEF VfsWriteFails, Fails
    <3> QED
      BY <3>1, <3>2, <3>3
  <2>4. CASE \E offset \in Offsets, whence \in 0..2 : VfsLseek(f, offset, whence)
    BY <2>4, VfsLseekInv
  <2>5. CASE VfsClose(f)
    BY <2>5, VfsCloseInv
  <2> QED
    BY <1>5, <2>1, <2>2, <2>3, <2>4, <2>5
<1> QED
  BY <1>1, <1>2, <1>3, <1>4, <1>5

LEMMA StutterInv == ASSUME Inv, UNCHANGED vars PROVE Inv'
<1>1. TreeInv /\ FileInv /\ RetInv
  BY InvParts
<1>2. TreeInv' /\ FileInv'
  BY <1>1, UnchangedInv DEF vars
<1>3. RetInv'
  BY <1>1 DEF vars, RetInv
<1> QED
  BY <1>2, <1>3 DEF Inv, FileInv, RetInv

LEMMA Invariance == Spec => []Inv
<1>1. Inv /\ [Next]_vars => Inv'
  BY NextInv, StutterInv
<1> QED
  BY InitInv, <1>1, PTL DEF Spec
-----------------------------------------------------------------------------
\* Every variable of the file system stays in its type: the children of an inode are
\* inodes, a size fits in 32 bits, the table holds file_t objects (vfs.c:14-30,485-497).
THEOREM TypeCorrect == Spec => []TypeOK
<1>1. Inv => TypeOK
  BY DEF Inv, TreeInv, TreeTypes, FileTypes, TypeOK
<1> QED
  BY Invariance, <1>1, PTL

\* Whatever the calls, and whichever malloc fails, tmpfs stays one tree
\* (vfs.c:149-157,196-205).
THEOREM TreeStaysATree == Spec => []TreeShape
<1>1. Inv => TreeShape
  BY DEF Inv, TreeInv
<1> QED
  BY Invariance, <1>1, PTL

\* No directory gets two entries of one name, not even by a vfs_open that failed after
\* its file was made (vfs.c:105,139,186).
THEOREM SiblingNamesStayDistinct == Spec => []SiblingNamesDistinct
<1>1. Inv => SiblingNamesDistinct
  BY DEF Inv, TreeInv
<1> QED
  BY Invariance, <1>1, PTL

\* A file_t always leads to a file of the tree (vfs.c:473).
THEOREM HandlesStayOnFiles == Spec => []HandlesOnFiles
<1>1. Inv => HandlesOnFiles
  BY DEF Inv
<1> QED
  BY Invariance, <1>1, PTL
=============================================================================
