-------------------------- MODULE FileSystemTreeProofs --------------------------
(***************************************************************************)
(* Theorems about the directories of FileSystem: what a path names, which  *)
(* inodes the entries name, and which files a call touches.                *)
(***************************************************************************)
EXTENDS FileSystemTree, FileSystemProofs

-----------------------------------------------------------------------------
(* Recursion over a sequence, from its front: the definitions of the       *)
(* module that walk a path or a line end, and are what they say            *)

\* A set of numbers that contains the successor of each of its initial
\* segments is all of Nat: induction, in the form the provers can use.
LEMMA Induction ==
    ASSUME NEW T \in SUBSET Nat, 0 \in T, \A n \in T : n + 1 \in T
    PROVE  T = Nat
<1> SUFFICES ASSUME T # Nat PROVE FALSE
  OBVIOUS
<1> DEFINE Missed == Nat \ T
           m == First(Missed)
<1>1. Missed \in SUBSET Nat /\ Missed # {}
  OBVIOUS
<1>2. m \in Missed /\ \A n \in Missed : m <= n
  BY <1>1, FirstProperty
<1> HIDE DEF m
<1>3. m \in Nat /\ m # 0 /\ m \notin T
  BY <1>2
<1>4. m - 1 \in Nat /\ ~ (m <= m - 1)
  BY <1>3
<1>5. m - 1 \in T
  BY <1>2, <1>4
<1> QED
  BY <1>3, <1>5

\* The parts of a sequence that is not empty.
LEMMA ParentSeq ==
    ASSUME NEW S, NEW seq \in Seq(S), seq # << >>
    PROVE  /\ Parent(seq) \in Seq(S)
           /\ Len(seq) \in Nat \ {0}
           /\ Len(Parent(seq)) = Len(seq) - 1
           /\ \A k \in 1 .. Len(seq) - 1 : Parent(seq)[k] = seq[k]
           /\ \A k \in 1 .. Len(seq) : seq[k] \in S
           /\ FileName(seq) \in S
<1>1. Len(seq) \in Nat /\ Len(seq) # 0 /\ \A k \in 1 .. Len(seq) : seq[k] \in S
  BY LenProperties, EmptySeq
<1> DEFINE n == Len(seq) - 1
<1>2. n \in Int /\ 1 \in Int /\ \A k \in 1 .. n : seq[k] \in S
  BY <1>1
<1> HIDE DEF n
<1>3. /\ SubSeq(seq, 1, n) \in Seq(S)
      /\ Len(SubSeq(seq, 1, n)) = IF 1 <= n THEN n - 1 + 1 ELSE 0
      /\ \A k \in 1 .. n - 1 + 1 : SubSeq(seq, 1, n)[k] = seq[1 + k - 1]
  BY <1>2, SubSeqProperties
<1>4. /\ SubSeq(seq, 1, n) \in Seq(S)
      /\ Len(SubSeq(seq, 1, n)) = n
      /\ \A k \in 1 .. n : SubSeq(seq, 1, n)[k] = seq[k]
  <2>1. n \in Nat
    BY <1>1 DEF n
  <2>2. \A k \in 1 .. n : k \in 1 .. n - 1 + 1 /\ 1 + k - 1 = k
    BY <2>1
  <2> QED
    BY <1>3, <2>1, <2>2
<1>5. Parent(seq) = SubSeq(seq, 1, n)
  BY DEF Parent, n
<1>6. FileName(seq) \in S
  BY <1>1 DEF FileName
<1> QED
  BY <1>1, <1>4, <1>5, <1>6 DEF n

LEMMA ParentPath ==
    ASSUME NEW path \in Path, path # << >>
    PROVE  /\ Parent(path) \in Path
           /\ Len(path) \in Nat \ {0}
           /\ Len(Parent(path)) = Len(path) - 1
           /\ \A k \in 1 .. Len(path) - 1 : Parent(path)[k] = path[k]
           /\ \A k \in 1 .. Len(path) : path[k] \in Component
           /\ FileName(path) \in Component
BY ParentSeq DEF Path

Steps(S, R) == [R -> [S -> R]]

\* The values met on the way through a sequence, one for each of its fronts.
Walks(R, base, step, seq) ==
    {w \in [0 .. Len(seq) -> R] :
        /\ w[0] = base
        /\ \A k \in 1 .. Len(seq) : w[k] = step[w[k - 1]][seq[k]]}

LEMMA WalkExists ==
    ASSUME NEW S, NEW R, NEW base \in R, NEW step \in Steps(S, R), NEW seq \in Seq(S)
    PROVE  Walks(R, base, step, seq) # {}
<1> DEFINE T == {n \in Nat : \A p \in Seq(S) : Len(p) = n => Walks(R, base, step, p) # {}}
<1>1. 0 \in T
  <2> SUFFICES ASSUME NEW p \in Seq(S), Len(p) = 0 PROVE Walks(R, base, step, p) # {}
    OBVIOUS
  <2> DEFINE w == [k \in 0 .. 0 |-> base]
  <2>1. w \in [0 .. 0 -> R] /\ w[0] = base
    OBVIOUS
  <2> HIDE DEF w
  <2>2. w \in Walks(R, base, step, p)
    BY <2>1 DEF Walks
  <2> QED
    BY <2>2
<1>2. ASSUME NEW n \in T PROVE n + 1 \in T
  <2> SUFFICES ASSUME NEW p \in Seq(S), Len(p) = n + 1
               PROVE  Walks(R, base, step, p) # {}
    OBVIOUS
  <2>1. /\ n \in Nat
        /\ p # << >>
        /\ Parent(p) \in Seq(S) /\ Len(Parent(p)) = n
        /\ \A k \in 1 .. n : Parent(p)[k] = p[k]
        /\ p[n + 1] \in S
    <3>1. n \in Nat /\ p # << >> /\ Len(p) - 1 = n /\ n + 1 \in 1 .. Len(p)
      BY EmptySeq
    <3>2. /\ Parent(p) \in Seq(S) /\ Len(Parent(p)) = Len(p) - 1
          /\ \A k \in 1 .. Len(p) - 1 : Parent(p)[k] = p[k]
          /\ \A k \in 1 .. Len(p) : p[k] \in S
      BY <3>1, ParentSeq
    <3> QED
      BY <3>1, <3>2
  <2>2. PICK v \in Walks(R, base, step, Parent(p)) : TRUE
    BY <2>1
  <2>3. /\ v \in [0 .. n -> R]
        /\ v[0] = base
        /\ \A k \in 1 .. n : v[k] = step[v[k - 1]][p[k]]
    BY <2>1, <2>2 DEF Walks
  <2> DEFINE last == step[v[n]][p[n + 1]]
             w == [k \in 0 .. n + 1 |-> IF k <= n THEN v[k] ELSE last]
  <2>4. last \in R
    BY <2>1, <2>3 DEF Steps
  <2> HIDE DEF last
  <2>5. w \in [0 .. n + 1 -> R] /\ w[0] = base
    BY <2>1, <2>3, <2>4
  <2>6. \A k \in 1 .. n + 1 : w[k] = step[w[k - 1]][p[k]]
    <3> SUFFICES ASSUME NEW k \in 1 .. n + 1 PROVE w[k] = step[w[k - 1]][p[k]]
      OBVIOUS
    <3>1. CASE k \in 1 .. n
      <4>1. w[k] = v[k] /\ w[k - 1] = v[k - 1]
        BY <2>1, <3>1
      <4> QED
        BY <2>3, <3>1, <4>1
    <3>2. CASE k = n + 1
      <4>1. w[k] = last /\ w[k - 1] = v[n]
        BY <2>1, <3>2
      <4> QED
        BY <3>2, <4>1 DEF last
    <3> QED
      BY <2>1, <3>1, <3>2
  <2> HIDE DEF w
  <2>7. w \in Walks(R, base, step, p)
    BY <2>5, <2>6 DEF Walks
  <2> QED
    BY <2>7
<1> HIDE DEF T
<1>3. T \in SUBSET Nat
  BY DEF T
<1>4. T = Nat
  BY <1>1, <1>2, <1>3, Induction
<1>5. Len(seq) \in Nat
  BY LenProperties
<1> QED
  BY <1>4, <1>5 DEF T

LEMMA WalkUnique ==
    ASSUME NEW S, NEW R, NEW base, NEW step, NEW seq \in Seq(S),
           NEW v \in Walks(R, base, step, seq), NEW w \in Walks(R, base, step, seq)
    PROVE  \A k \in 0 .. Len(seq) : v[k] = w[k]
<1> DEFINE n == Len(seq)
           T == {k \in Nat : k <= n => v[k] = w[k]}
<1>0. n \in Nat
  BY LenProperties
<1>1. /\ v \in [0 .. n -> R] /\ w \in [0 .. n -> R]
      /\ v[0] = w[0]
      /\ \A k \in 1 .. n : v[k] = step[v[k - 1]][seq[k]]
      /\ \A k \in 1 .. n : w[k] = step[w[k - 1]][seq[k]]
  BY DEF Walks
<1> HIDE DEF n
<1>2. 0 \in T
  BY <1>1
<1>3. ASSUME NEW k \in T PROVE k + 1 \in T
  <2>1. CASE k + 1 <= n
    <3>1. k + 1 \in 1 .. n /\ (k + 1) - 1 = k /\ v[k] = w[k]
      BY <1>0, <2>1
    <3>2. v[k + 1] = w[k + 1]
      BY <1>1, <3>1
    <3> QED
      BY <3>2
  <2>2. CASE ~ (k + 1 <= n)
    BY <2>2
  <2> QED
    BY <2>1, <2>2
<1>4. T \in SUBSET Nat
  OBVIOUS
<1> HIDE DEF T
<1>5. T = Nat
  BY <1>2, <1>3, <1>4, Induction
<1> QED
  BY <1>0, <1>5 DEF T, n

\* A walk through a sequence goes on from a walk through its front.
LEMMA WalkFront ==
    ASSUME NEW S, NEW R, NEW base \in R, NEW step \in Steps(S, R),
           NEW seq \in Seq(S), seq # << >>
    PROVE  \A w \in Walks(R, base, step, seq) :
               \E v \in Walks(R, base, step, Parent(seq)) :
                   w[Len(seq)] = step[v[Len(Parent(seq))]][FileName(seq)]
<1> TAKE w \in Walks(R, base, step, seq)
<1> DEFINE n == Len(seq) - 1
           v == [k \in 0 .. n |-> w[k]]
<1>1. /\ w \in [0 .. Len(seq) -> R]
      /\ w[0] = base
      /\ \A k \in 1 .. Len(seq) : w[k] = step[w[k - 1]][seq[k]]
  BY DEF Walks
<1>2. /\ n \in Nat /\ Len(seq) = n + 1
      /\ Parent(seq) \in Seq(S) /\ Len(Parent(seq)) = n
      /\ \A k \in 1 .. n : Parent(seq)[k] = seq[k]
  BY ParentSeq
<1> HIDE DEF n
<1>3. v \in [0 .. n -> R] /\ v[0] = base
  BY <1>1, <1>2
<1>4. \A k \in 1 .. n : v[k] = step[v[k - 1]][Parent(seq)[k]]
  <2> SUFFICES ASSUME NEW k \in 1 .. n PROVE v[k] = step[v[k - 1]][Parent(seq)[k]]
    OBVIOUS
  <2>1. v[k] = w[k] /\ v[k - 1] = w[k - 1] /\ k \in 1 .. Len(seq)
    BY <1>2
  <2> QED
    BY <1>1, <1>2, <2>1
<1>5. v[n] = w[n]
  BY <1>2
<1> HIDE DEF v
<1>6. v \in Walks(R, base, step, Parent(seq))
  BY <1>2, <1>3, <1>4 DEF Walks
<1>7. w[n + 1] = step[w[n]][seq[n + 1]]
  <2>1. n + 1 \in 1 .. Len(seq) /\ (n + 1) - 1 = n
    BY <1>2
  <2> QED
    BY <1>1, <2>1
<1> QED
  BY <1>2, <1>5, <1>6, <1>7 DEF FileName

(***************************************************************************)
(* A recursion over the front of a sequence has a solution: base for the   *)
(* empty sequence, else a step with the last element from the value for    *)
(* the rest.                                                               *)
(***************************************************************************)
LEMMA SeqRecursion ==
    ASSUME NEW S, NEW R, NEW base \in R, NEW step \in Steps(S, R)
    PROVE  \E g \in [Seq(S) -> R] : \A seq \in Seq(S) :
               g[seq] = IF seq = << >> THEN base
                        ELSE step[g[Parent(seq)]][FileName(seq)]
<1> DEFINE End(seq) == (CHOOSE w \in Walks(R, base, step, seq) : TRUE)[Len(seq)]
           g == [seq \in Seq(S) |-> End(seq)]
<1>1. ASSUME NEW seq \in Seq(S), NEW w \in Walks(R, base, step, seq)
      PROVE  End(seq) = w[Len(seq)] /\ End(seq) \in R
  <2> DEFINE c == CHOOSE u \in Walks(R, base, step, seq) : TRUE
  <2>1. c \in Walks(R, base, step, seq)
    OBVIOUS
  <2>2. End(seq) = c[Len(seq)]
    OBVIOUS
  <2> HIDE DEF c
  <2>3. Len(seq) \in 0 .. Len(seq)
    BY LenProperties
  <2>4. c[Len(seq)] = w[Len(seq)]
    BY <2>1, <2>3, WalkUnique
  <2>5. c \in [0 .. Len(seq) -> R]
    BY <2>1 DEF Walks
  <2> HIDE DEF End
  <2> QED
    BY <2>2, <2>3, <2>4, <2>5
<1>2. \A seq \in Seq(S) : Walks(R, base, step, seq) # {}
  BY WalkExists
<1> HIDE DEF End
<1>3. g \in [Seq(S) -> R]
  BY <1>1, <1>2
<1>4. ASSUME NEW seq \in Seq(S)
      PROVE  g[seq] = IF seq = << >> THEN base ELSE step[g[Parent(seq)]][FileName(seq)]
  <2>1. PICK w \in Walks(R, base, step, seq) : g[seq] = w[Len(seq)]
    BY <1>1, <1>2
  <2>2. CASE seq = << >>
    BY <2>1, <2>2, EmptySeq DEF Walks
  <2>3. CASE seq # << >>
    <3>1. Parent(seq) \in Seq(S)
      BY <2>3, ParentSeq
    <3>2. PICK v \in Walks(R, base, step, Parent(seq)) :
             w[Len(seq)] = step[v[Len(Parent(seq))]][FileName(seq)]
      <4> HIDE DEF g
      <4>1. \A u \in Walks(R, base, step, seq) :
               \E v \in Walks(R, base, step, Parent(seq)) :
                   u[Len(seq)] = step[v[Len(Parent(seq))]][FileName(seq)]
        BY <2>3, WalkFront
      <4> QED
        BY <4>1
    <3>3. g[Parent(seq)] = v[Len(Parent(seq))]
      BY <1>1, <3>1
    <3> QED
      BY <2>1, <2>3, <3>2, <3>3
  <2> QED
    BY <2>2, <2>3
<1> HIDE DEF g
<1> QED
  BY <1>3, <1>4

\* ... and what holds of the base and of each step holds of every value.
LEMMA SeqInduction ==
    ASSUME NEW S, NEW P, << >> \in P,
           \A seq \in Seq(S) : seq # << >> /\ Parent(seq) \in P => seq \in P
    PROVE  Seq(S) \subseteq P
<1> DEFINE T == {n \in Nat : \A p \in Seq(S) : Len(p) = n => p \in P}
<1>1. 0 \in T
  BY EmptySeq
<1>2. ASSUME NEW n \in T PROVE n + 1 \in T
  <2> SUFFICES ASSUME NEW p \in Seq(S), Len(p) = n + 1 PROVE p \in P
    OBVIOUS
  <2>1. n \in Nat /\ p # << >>
    BY EmptySeq
  <2>2. Parent(p) \in Seq(S) /\ Len(Parent(p)) = n
    BY <2>1, ParentSeq
  <2> QED
    BY <2>1, <2>2
<1>3. T \in SUBSET Nat
  OBVIOUS
<1> HIDE DEF T
<1>4. T = Nat
  BY <1>1, <1>2, <1>3, Induction
<1> QED
  BY <1>4, LenProperties DEF T

-----------------------------------------------------------------------------
(* find_inode_by_path is what its defining equation says                   *)

Found == Inode \cup {NoInode}

LEMMA LookupType ==
    ASSUME TypeOK, NEW i \in Found, NEW name \in Component
    PROVE  dir_lookup[i][name] \in Found
<1> DEFINE hits == {s \in Slot : dir_entries(i)[s].in_use
                                 /\ dir_entries(i)[s].name = name}
<1>1. dir_lookup[i][name] =
        IF ~ IsDirectory(i) \/ inode_table[i].blocks[0] = NoBlock \/ hits = {}
        THEN NoInode
        ELSE dir_entries(i)[First(hits)].inode
  BY DEF dir_lookup, Found
<1>2. CASE IsDirectory(i) /\ hits # {}
  <2>1. i \in Inode
    BY <1>2 DEF IsDirectory, Found
  <2>2. hits \in SUBSET Nat
    BY SizesAssumption DEF Slot
  <2>3. First(hits) \in Slot
    BY <1>2, <2>2, FirstProperty
  <2>4. dir_entries(i)[First(hits)].inode \in Inode
    BY <2>1, <2>3, EntriesType DEF DirEntry
  <2> QED
    BY <1>1, <2>4 DEF Found
<1>3. CASE ~ (IsDirectory(i) /\ hits # {})
  BY <1>1, <1>3 DEF Found
<1> QED
  BY <1>2, <1>3

(***************************************************************************)
(* The recursion of find_inode_by_path: the root for the empty path, else  *)
(* the entry called like the last component in the directory the walk to   *)
(* the parent ends in.                                                     *)
(***************************************************************************)
LEMMA PathWalk ==
    ASSUME TypeOK, NEW path \in Path
    PROVE  path_walk[path] = IF path = << >> THEN Root
                             ELSE dir_lookup[path_walk[Parent(path)]][FileName(path)]
<1> DEFINE step == [i \in Found |-> [name \in Component |-> dir_lookup[i][name]]]
           Body(f) == [p \in Path |-> IF p = << >> THEN Root
                           ELSE dir_lookup[f[Parent(p)]][FileName(p)]]
<1>1. step \in Steps(Component, Found) /\ Root \in Found
  BY LookupType, ConstantTypes DEF Found, Root, Steps
<1>2. \A i \in Found : \A name \in Component : step[i][name] = dir_lookup[i][name]
  OBVIOUS
<1> HIDE DEF step
<1>3. PICK g \in [Path -> Found] : \A p \in Path :
         g[p] = IF p = << >> THEN Root ELSE step[g[Parent(p)]][FileName(p)]
  <2> HIDE DEF Body
  <2>1. \E g \in [Seq(Component) -> Found] : \A p \in Seq(Component) :
           g[p] = IF p = << >> THEN Root ELSE step[g[Parent(p)]][FileName(p)]
    BY <1>1, SeqRecursion
  <2> QED
    BY <2>1 DEF Path
<1>4. g = Body(g)
  <2>1. ASSUME NEW p \in Path
        PROVE  g[p] = IF p = << >> THEN Root
                      ELSE dir_lookup[g[Parent(p)]][FileName(p)]
    BY <1>2, <1>3, <2>1, ParentPath
  <2> QED
    BY <1>3, <2>1
<1>5. path_walk = CHOOSE f : f = Body(f)
  BY DEF path_walk
<1>6. path_walk = Body(path_walk)
  BY <1>4, <1>5
<1> QED
  BY <1>6

LEMMA FindWalk ==
    ASSUME TypeOK, NEW path \in Path
    PROVE  /\ find_inode_by_path(path) = path_walk[path]
           /\ path_walk[path] \in Found
<1> DEFINE P == {p \in Path : path_walk[p] \in Found}
<1>1. << >> \in P
  <2>1. << >> \in Path
    BY EmptySeq DEF Path
  <2>2. path_walk[<< >>] = Root
    BY <2>1, PathWalk
  <2> QED
    BY <2>1, <2>2, ConstantTypes DEF Found, Root
<1>2. ASSUME NEW p \in Path, p # << >>, Parent(p) \in P PROVE p \in P
  <2>1. Parent(p) \in Path /\ FileName(p) \in Component
    BY <1>2, ParentPath
  <2>2. path_walk[p] = dir_lookup[path_walk[Parent(p)]][FileName(p)]
    BY <1>2, PathWalk
  <2> QED
    BY <1>2, <2>1, <2>2, LookupType
<1> HIDE DEF P
<1>3. path \in P
  BY <1>1, <1>2, SeqInduction DEF Path
<1>4. path_walk[path] \in Found
  BY <1>3 DEF P
<1> QED
  BY <1>4 DEF find_inode_by_path, Found

(***************************************************************************)
(* What find_inode_by_path finds is named by an entry in use of a          *)
(* directory, and that directory is what it finds for the parent.          *)
(***************************************************************************)
Entry(d, s) == dir_entries(d)[s]

LEMMA FoundByEntry ==
    ASSUME TypeOK, NEW path \in Path, path # << >>,
           find_inode_by_path(path) # NoInode
    PROVE  LET d == find_inode_by_path(Parent(path))
           IN  /\ d \in Directories
               /\ \E s \in Slot : /\ Entry(d, s).in_use
                                 /\ Entry(d, s).name = FileName(path)
                                 /\ Entry(d, s).inode = find_inode_by_path(path)
<1> DEFINE d == find_inode_by_path(Parent(path))
           name == FileName(path)
           hits == {s \in Slot : dir_entries(d)[s].in_use
                                 /\ dir_entries(d)[s].name = name}
<1>1. Parent(path) \in Path /\ name \in Component
  BY ParentPath DEF FileName
<1>2. find_inode_by_path(path) = dir_lookup[d][name]
  BY <1>1, FindWalk, PathWalk
<1>3. d \in Found
  BY <1>1, FindWalk
<1> HIDE DEF d, name
<1>4. dir_lookup[d][name] =
        IF ~ IsDirectory(d) \/ inode_table[d].blocks[0] = NoBlock \/ hits = {}
        THEN NoInode
        ELSE dir_entries(d)[First(hits)].inode
  BY <1>1, <1>3 DEF dir_lookup, Found
<1>5. IsDirectory(d) /\ inode_table[d].blocks[0] # NoBlock /\ hits # {}
      /\ dir_lookup[d][name] = dir_entries(d)[First(hits)].inode
  BY <1>2, <1>4
<1>6. d \in Directories
  BY <1>3, <1>5 DEF Directories, IsDirectory, Found
<1>7. hits \in SUBSET Nat
  BY SizesAssumption DEF Slot
<1>8. First(hits) \in hits
  BY <1>5, <1>7, FirstProperty
<1> QED
  BY <1>2, <1>5, <1>6, <1>8 DEF Entry, d, name

-----------------------------------------------------------------------------
(* The strengthening of NoDanglingEntries that makes it inductive          *)

\* Each entry in use has a name and names an inode in use.
EntriesLive ==
    \A d \in Directories : \A s \in Slot :
        Entry(d, s).in_use => /\ Entry(d, s).inode \in Live
                              /\ Entry(d, s).name \in Component

\* No file has two entries.
OneLink ==
    \A c, d \in Directories : \A s, t \in Slot :
        (/\ Entry(c, s).in_use /\ Entry(d, t).in_use
         /\ Entry(c, s).inode = Entry(d, t).inode
         /\ inode_table[Entry(c, s).inode].type = "FILE")
        => c = d /\ s = t

\* No entry names inode i, its own "." apart.
Unlinked(i) ==
    \A d \in Directories \ {i} : \A s \in Slot :
        Entry(d, s).in_use => Entry(d, s).inode # i

TreeOK == EntriesLive /\ OneLink

\* fs_create_dir and fs_create_file hold their parent's inode number across
\* disk writes (and a deletion): it stays a directory.
HoldsParent ==
    \/ pc \in {"dir_link", "file_alloc", "file_data"}
    \/ pc \in {"delete_file", "delete_inodes", "delete_bitmap"} /\ task.op = "create_file"
ParentInv == HoldsParent => inode_table[frame.parent].type = "DIR"

\* The inode that waits for its entry.
UnlinkedInv ==
    /\ pc \in {"dir_link", "file_data"} => Unlinked(frame.inode)
    /\ pc = "dir_link" => inode_table[frame.inode].type = "DIR"

\* The root is a directory from its installation on: no call frees it.
RootInv ==
    /\ pc \notin {"boot", "off"} \/ d_superblock.installed = 1 =>
           inode_table[Root].type = "DIR"
    /\ pc \in {"dir_link", "file_data"} => frame.inode # Root

Tidy == TreeOK /\ ParentInv /\ UnlinkedInv /\ RootInv

LinkInv == BlockInv /\ Tidy

-----------------------------------------------------------------------------
(* What a disk write changes in a directory                                *)

LEMMA DirKept ==
    ASSUME NEW d \in Inode, inode_table'[d].blocks[0] = inode_table[d].blocks[0],
           inode_table[d].blocks[0] # NoBlock =>
               d_data'[inode_table[d].blocks[0]] = d_data[inode_table[d].blocks[0]]
    PROVE  \A s \in Slot : Entry(d, s)' = Entry(d, s)
<1>1. read_inode_block(inode_table[d].blocks[0])'
          = read_inode_block(inode_table[d].blocks[0])
  BY DEF read_inode_block
<1> QED
  BY <1>1 DEF Entry, dir_entries

LEMMA DirRewritten ==
    ASSUME TypeOK, NEW d \in Inode, NEW b \in Block, b # NoBlock, NEW entries,
           write_inode_block(b, DirSector(entries)), inode_table'[d].blocks[0] = b
    PROVE  \A s \in Slot :
               Entry(d, s)' = IF s \in StoredSlot THEN entries[s] ELSE FreeEntry
<1>1. d_data'[b] = DirSector(entries)
  BY DEF write_inode_block, TypeOK, DiskTypeOK
<1>2. read_inode_block(inode_table[d].blocks[0])' = DirSector(entries)
  BY <1>1 DEF read_inode_block
<1>3. \A s \in StoredSlot : DirSector(entries).dir[s] = entries[s]
  BY DEF DirSector
<1> QED
  BY <1>2, <1>3 DEF Entry, dir_entries

LEMMA WriteSpares ==
    ASSUME TypeOK, NEW b \in Block, NEW sector, write_inode_block(b, sector),
           NEW c \in Block, b = NoBlock \/ c # b
    PROVE  d_data'[c] = d_data[c]
BY DEF write_inode_block, TypeOK, DiskTypeOK

\* No directory shares its block, and no free block is a directory's.
LEMMA DirBlocks ==
    ASSUME TypeOK, Owned, NEW d \in Directories
    PROVE  /\ d \in Inode
           /\ inode_table[d].blocks[0] \in Block
           /\ inode_table[d].blocks[0] \in block_bitmap
           /\ \A i \in Inode \ {d} : inode_table[d].blocks[0] \notin BlocksOf(i)
           /\ \A i \in Inode \ {d} : inode_table[d].blocks[0] # inode_table[i].blocks[0]
<1>1. d \in Inode /\ inode_table[d].blocks[0] # NoBlock
  BY DEF Directories
<1>2. inode_table[d].blocks[0] \in Block
  BY <1>1, FirstBlockType
<1>3. inode_table[d].blocks[0] \in BlocksOf(d)
  BY <1>1, ConstantTypes DEF BlocksOf, BlockIndices
<1>4. inode_table[d].blocks[0] \in block_bitmap
  BY <1>1, <1>3 DEF Owned
<1>5. \A i \in Inode \ {d} : inode_table[d].blocks[0] \notin BlocksOf(i)
  BY <1>1, <1>3 DEF Owned
<1>6. ASSUME NEW i \in Inode \ {d}, inode_table[d].blocks[0] = inode_table[i].blocks[0]
      PROVE  FALSE
  <2>1. inode_table[i].blocks[0] \in BlocksOf(i)
    BY <1>1, <1>6, ConstantTypes DEF BlocksOf, BlockIndices
  <2> QED
    BY <1>5, <1>6, <2>1
<1> QED
  BY <1>1, <1>2, <1>4, <1>5, <1>6

LEMMA EntryType ==
    ASSUME TypeOK, NEW d \in Inode, NEW s \in Slot
    PROVE  /\ Entry(d, s) \in DirEntry
           /\ s \notin StoredSlot => Entry(d, s) = FreeEntry
BY EntriesType DEF Entry, dir_entries

-----------------------------------------------------------------------------
(* The ways a step changes the tree                                        *)

\* Entries stay or go, and what the remaining ones name keeps its type.
LEMMA EntriesKept ==
    ASSUME TreeOK, Directories' \subseteq Directories,
           \A d \in Directories' : \A s \in Slot :
               Entry(d, s)'.in_use =>
                   /\ Entry(d, s)' = Entry(d, s)
                   /\ inode_table'[Entry(d, s).inode].type
                          = inode_table[Entry(d, s).inode].type
    PROVE  TreeOK' /\ \A i : Unlinked(i) => Unlinked(i)'
<1>1. EntriesLive'
  BY DEF TreeOK, EntriesLive, Live
<1>2. OneLink'
  BY DEF TreeOK, OneLink
<1>3. \A i : Unlinked(i) => Unlinked(i)'
  BY DEF Unlinked
<1> QED
  BY <1>1, <1>2, <1>3 DEF TreeOK

\* Nothing a lookup reads changes.
LEMMA SameTree ==
    ASSUME TreeOK, inode_table' = inode_table, d_data' = d_data
    PROVE  TreeOK' /\ \A i : Unlinked(i) => Unlinked(i)'
<1>1. Directories' = Directories
  BY DEF Directories
<1>2. \A d \in Directories : \A s \in Slot : Entry(d, s)' = Entry(d, s)
  BY DirKept DEF Directories
<1> QED
  BY <1>1, <1>2, EntriesKept

LEMMA QuietStep ==
    ASSUME LinkInv, inode_table' = inode_table, d_data' = d_data,
           \/ pc \notin {"boot", "off"}
           \/ d_superblock.installed = 1
           \/ pc' \in {"boot", "off"} /\ d_superblock' = d_superblock,
           pc' \notin {"dir_link", "file_data"},
           HoldsParent' => HoldsParent /\ frame' = frame
    PROVE  Tidy'
<1>1. TreeOK'
  BY SameTree DEF LinkInv, Tidy
<1> QED
  BY <1>1 DEF LinkInv, Tidy, ParentInv, UnlinkedInv, RootInv

\* The error path of a half-made file or directory.
LEMMA TreeGivenBack ==
    ASSUME LinkInv, pc \in {"dir_link", "file_data"}, GiveBack
    PROVE  Tidy'
<1> DEFINE i == frame.inode
<1>1. TypeOK /\ i \in Inode /\ TreeOK /\ Unlinked(i)
      /\ i # Root /\ inode_table[Root].type = "DIR"
  BY DEF LinkInv, Tidy, UnlinkedInv, RootInv, BlockInv, TypeInv, TypeOK, ControlTypeOK, Frame
<1>2. /\ inode_table' = [inode_table EXCEPT ![i] = FreeInode]
      /\ d_data' = d_data
      /\ pc' \in {"install_dirs", "return"}
  BY Returns DEF GiveBack, free_inode, disk
<1> HIDE DEF i
<1>3. /\ inode_table'[i].type = "FREE"
      /\ \A k \in Inode \ {i} : inode_table'[k] = inode_table[k]
  BY <1>1, <1>2 DEF FreeInode, TypeOK, RamTypeOK
<1>4. Directories' \subseteq Directories \ {i}
  BY <1>3 DEF Directories
<1>5. \A d \in Directories' : \A s \in Slot : Entry(d, s)' = Entry(d, s)
  BY <1>2, <1>3, <1>4, DirKept DEF Directories
<1>6. \A d \in Directories' : \A s \in Slot :
         Entry(d, s).in_use => Entry(d, s).inode \in Inode \ {i}
  BY <1>1, <1>4 DEF Unlinked, TreeOK, EntriesLive, Live
<1>7. TreeOK'
  BY <1>1, <1>3, <1>4, <1>5, <1>6, EntriesKept
<1>8. inode_table'[Root].type = "DIR"
  BY <1>1, <1>3, ConstantTypes DEF Root
<1> QED
  BY <1>2, <1>7, <1>8 DEF Tidy, ParentInv, UnlinkedInv, RootInv, HoldsParent

\* The entry is written to the parent's directory, or falls off its sector.
LEMMA TreeEntered ==
    ASSUME TypeOK, Owned, TreeOK,
           NEW p \in Inode, inode_table[p].type = "DIR",
           NEW i \in Inode, inode_table[i].type \in {"FILE", "DIR"}, Unlinked(i),
           NEW name \in Component, NEW f \in Slot, ~ Entry(p, f).in_use,
           inode_table' = inode_table,
           write_inode_block(inode_table[p].blocks[0], DirSector([dir_entries(p) EXCEPT
               ![f] = [in_use |-> TRUE, name |-> name, inode |-> i]]))
    PROVE  TreeOK'
<1> DEFINE b == inode_table[p].blocks[0]
           entry == [in_use |-> TRUE, name |-> name, inode |-> i]
           written == [dir_entries(p) EXCEPT ![f] = entry]
<1>1. b \in Block /\ dir_entries(p) \in [Slot -> DirEntry]
  BY FirstBlockType, EntriesType
<1>2. CASE b = NoBlock
  <2>1. d_data' = d_data
    BY <1>2 DEF write_inode_block
  <2> QED
    BY <2>1, SameTree
<1>3. CASE b # NoBlock
  <2>1. p \in Directories /\ Directories' = Directories
    BY <1>3 DEF Directories
  <2>2. \A s \in Slot : written[s] = IF s = f THEN entry ELSE Entry(p, s)
    BY <1>1 DEF Entry
  <2>3. \A s \in Slot : Entry(p, s)' = IF s \in StoredSlot THEN written[s] ELSE FreeEntry
    <3>1. PICK c \in Block : c = b
      BY <1>1
    <3>2. write_inode_block(c, DirSector(written)) /\ inode_table'[p].blocks[0] = c
          /\ c # NoBlock
      BY <1>3, <3>1
    <3> HIDE DEF written, b
    <3> QED
      BY <3>2, DirRewritten
  <2>4. \A d \in Directories \ {p} : \A s \in Slot : Entry(d, s)' = Entry(d, s)
    <3> SUFFICES ASSUME NEW d \in Directories \ {p}
                 PROVE  \A s \in Slot : Entry(d, s)' = Entry(d, s)
      OBVIOUS
    <3>1. d \in Inode /\ inode_table[d].blocks[0] \in Block
          /\ inode_table[d].blocks[0] # b
      BY DirBlocks
    <3>2. d_data'[inode_table[d].blocks[0]] = d_data[inode_table[d].blocks[0]]
      BY <1>1, <3>1, WriteSpares
    <3> QED
      BY <3>1, <3>2, DirKept
  <2> HIDE DEF written, entry, b
  <2>5. \A s \in Slot : Entry(p, s)'.in_use =>
           \/ Entry(p, s).in_use /\ Entry(p, s)' = Entry(p, s)
           \/ s = f /\ Entry(p, s)' = entry
    BY <2>2, <2>3 DEF FreeEntry
  <2>6. \A d \in Directories : \A s \in Slot : Entry(d, s)'.in_use =>
           \/ Entry(d, s).in_use /\ Entry(d, s)' = Entry(d, s)
           \/ d = p /\ s = f /\ Entry(d, s)' = entry
    BY <2>4, <2>5
  <2>7. entry.inode = i /\ entry.name = name
    BY DEF entry
  <2>8. EntriesLive'
    BY <2>1, <2>6, <2>7 DEF TreeOK, EntriesLive, Live
  <2>9. OneLink'
    <3>1. CASE inode_table[i].type = "DIR"
      BY <2>1, <2>6, <2>7, <3>1 DEF TreeOK, OneLink
    <3>2. CASE inode_table[i].type = "FILE"
      <4>1. i \notin Directories
        BY <3>2 DEF Directories
      <4>2. \A d \in Directories : \A s \in Slot :
               Entry(d, s).in_use => Entry(d, s).inode # i
        BY <4>1 DEF Unlinked
      <4> QED
        BY <2>1, <2>6, <2>7, <4>2 DEF TreeOK, OneLink
    <3> QED
      BY <3>1, <3>2
  <2> QED
    BY <2>8, <2>9 DEF TreeOK
<1> QED
  BY <1>2, <1>3

LEMMA TreeLinked ==
    ASSUME LinkInv, NEW name \in Component, NEW next, LinkEntry(name, next),
           pc \in {"dir_link", "file_data"}, next \in {"dir_inodes", "file_inodes"}
    PROVE  Tidy'
<1> DEFINE free == {s \in Slot : ~ dir_entries(frame.parent)[s].in_use}
           entry == [in_use |-> TRUE, name |-> name, inode |-> frame.inode]
           written == [dir_entries(frame.parent) EXCEPT ![First(free)] = entry]
<1>1. CASE GiveBack
  BY <1>1, TreeGivenBack
<1>2. CASE /\ free # {}
           /\ write_inode_block(inode_table[frame.parent].blocks[0], DirSector(written))
           /\ Goto(next)
           /\ UNCHANGED <<ram, metadata, task, frame, result, boots>>
  <2>1. PICK p \in Inode, i \in Inode : p = frame.parent /\ i = frame.inode
    BY DEF LinkInv, BlockInv, TypeInv, TypeOK, ControlTypeOK, Frame
  <2>2. /\ TypeOK /\ Owned /\ TreeOK /\ Unlinked(i)
        /\ inode_table[p].type = "DIR"
        /\ inode_table[i].type \in {"FILE", "DIR"}
        /\ inode_table[Root].type = "DIR"
    BY <2>1 DEF LinkInv, Tidy, UnlinkedInv, RootInv, ParentInv, HoldsParent, BlockInv, LoopInv,
       TypeInv
  <2>3. pc' \notin {"dir_link", "file_data"} /\ ~ HoldsParent'
    BY <1>2 DEF Goto, HoldsParent
  <2>4. free \in SUBSET Nat
    BY SizesAssumption DEF Slot
  <2>5. PICK f \in Slot : f = First(free) /\ ~ Entry(p, f).in_use
    BY <1>2, <2>1, <2>4, FirstProperty DEF Entry
  <2> HIDE DEF free
  <2>6. inode_table' = inode_table
        /\ write_inode_block(inode_table[p].blocks[0], DirSector([dir_entries(p) EXCEPT
               ![f] = [in_use |-> TRUE, name |-> name, inode |-> i]]))
    BY <1>2, <2>1, <2>5 DEF ram
  <2>7. TreeOK'
    BY <2>2, <2>5, <2>6, TreeEntered
  <2> QED
    BY <2>2, <2>3, <2>6, <2>7 DEF Tidy, ParentInv, UnlinkedInv, RootInv
<1> QED
  BY <1>1, <1>2 DEF LinkEntry

\* A new directory: its block holds "." and "..", and nothing names it yet.
LEMMA TreeAllocated ==
    ASSUME LinkInv, NEW p \in Inode, NEW i \in Inode, NEW b \in Block,
           inode_table[p].type = "DIR", inode_table[i].type = "FREE",
           b \notin block_bitmap,
           inode_table' = [inode_table EXCEPT ![i] =
               [FreeInode EXCEPT !.type = "DIR", !.blocks[0] = b]],
           write_inode_block(b, DirSector(NewDirectory(i, p)))
    PROVE  TreeOK' /\ Unlinked(i)'
<1>1. TypeOK /\ Owned /\ TreeOK /\ i # p
  BY DEF LinkInv, Tidy, BlockInv, TypeInv
<1>2. /\ inode_table'[i].type = "DIR" /\ inode_table'[i].blocks[0] = b
      /\ \A k \in Inode \ {i} : inode_table'[k] = inode_table[k]
  BY <1>1, ConstantTypes DEF FreeInode, TypeOK, RamTypeOK
<1>3. Directories \subseteq Directories' /\ Directories' \subseteq Directories \cup {i}
      /\ i \notin Directories /\ (i \in Directories' => b # NoBlock)
  BY <1>2 DEF Directories
<1>4. \A d \in Directories : \A s \in Slot : Entry(d, s)' = Entry(d, s)
  <2> SUFFICES ASSUME NEW d \in Directories
               PROVE  \A s \in Slot : Entry(d, s)' = Entry(d, s)
    OBVIOUS
  <2>1. d \in Inode \ {i} /\ inode_table[d].blocks[0] \in Block
        /\ inode_table[d].blocks[0] # b
    BY <1>1, <1>3, DirBlocks
  <2>2. d_data'[inode_table[d].blocks[0]] = d_data[inode_table[d].blocks[0]]
    BY <1>1, <2>1, WriteSpares
  <2> QED
    BY <1>2, <2>1, <2>2, DirKept
<1>5. \A d \in Directories : \A s \in Slot : Entry(d, s).in_use =>
         /\ Entry(d, s).inode \in Inode \ {i} /\ Entry(d, s).inode \in Live
         /\ Entry(d, s).name \in Component
  BY <1>1 DEF TreeOK, EntriesLive, Live
<1>6. i \in Directories' => \A s \in Slot : Entry(i, s)'.in_use =>
         /\ Entry(i, s)'.inode \in {i, p}
         /\ Entry(i, s)'.name \in Component
  <2> SUFFICES ASSUME i \in Directories', NEW s \in Slot, Entry(i, s)'.in_use
               PROVE  Entry(i, s)'.inode \in {i, p} /\ Entry(i, s)'.name \in Component
    OBVIOUS
  <2>1. Entry(i, s)' = IF s \in StoredSlot THEN NewDirectory(i, p)[s] ELSE FreeEntry
    BY <1>1, <1>2, <1>3, DirRewritten
  <2>2. CASE s = 0
    <3>1. NewDirectory(i, p)[s] = [in_use |-> TRUE, name |-> Dot, inode |-> i]
      BY <2>2 DEF NewDirectory
    <3> QED
      BY <2>1, <3>1 DEF FreeEntry, Component
  <2>3. CASE s = 1
    <3>1. NewDirectory(i, p)[s] = [in_use |-> TRUE, name |-> DotDot, inode |-> p]
      BY <2>3 DEF NewDirectory
    <3> QED
      BY <2>1, <3>1 DEF FreeEntry, Component
  <2>4. CASE s # 0 /\ s # 1
    <3>1. NewDirectory(i, p)[s] = FreeEntry
      BY <2>4 DEF NewDirectory
    <3> QED
      BY <2>1, <3>1 DEF FreeEntry
  <2> QED
    BY <2>2, <2>3, <2>4
<1>7. EntriesLive'
  BY <1>2, <1>3, <1>4, <1>5, <1>6 DEF EntriesLive, Live
<1>8. OneLink'
  BY <1>1, <1>2, <1>3, <1>4, <1>5, <1>6 DEF TreeOK, OneLink
<1>9. Unlinked(i)'
  BY <1>3, <1>4, <1>5 DEF Unlinked
<1> QED
  BY <1>7, <1>8, <1>9 DEF TreeOK

\* fs_delete_file: the file's only entry goes from the parent's directory.
LEMMA TreeDeleted ==
    ASSUME LinkInv, NEW p \in Inode, NEW i \in Inode,
           inode_table[i].type = "FILE", i # Root,
           p = find_inode_by_path(Parent(task.path)),
           i = find_inode_by_path(task.path),
           inode_table' = [inode_table EXCEPT ![i] = FreeInode],
           write_inode_block(inode_table[p].blocks[0],
                             DirSector(WithoutEntry(dir_entries(p), i)))
    PROVE  TreeOK'
<1>1. TypeOK /\ Owned /\ TreeOK /\ task.path \in Path
  BY TaskType DEF LinkInv, Tidy, BlockInv, TypeInv, TypeOK, ControlTypeOK
<1>2. task.path # << >>
  <2>1. << >> \in Path
    BY EmptySeq DEF Path
  <2>2. find_inode_by_path(<< >>) = Root
    BY <1>1, <2>1, PathWalk, FindWalk
  <2> QED
    BY <2>2
<1>3. PICK t \in Slot :
         p \in Directories /\ Entry(p, t).in_use /\ Entry(p, t).inode = i
  <2>1. find_inode_by_path(task.path) # NoInode
    BY ConstantTypes DEF Inode, NoInode
  <2> QED
    BY <1>1, <1>2, <2>1, FoundByEntry
<1>4. /\ inode_table'[i].type = "FREE"
      /\ \A k \in Inode \ {i} : inode_table'[k] = inode_table[k]
      /\ p # i
  BY <1>1, <1>3 DEF FreeInode, TypeOK, RamTypeOK, Directories
<1>5. Directories' = Directories
  BY <1>4 DEF Directories
<1>6. \A s \in Slot : Entry(p, s)'.in_use =>
         Entry(p, s)' = Entry(p, s) /\ Entry(p, s).inode # i
  <2> DEFINE hits == {s \in Slot : dir_entries(p)[s].in_use
                                   /\ dir_entries(p)[s].inode = i}
             left == [dir_entries(p) EXCEPT ![First(hits)] = FreeEntry]
  <2>1. hits = {t}
    <3>1. t \in hits
      BY <1>3 DEF Entry
    <3>2. \A s \in hits : s = t
      BY <1>1, <1>3 DEF Entry, TreeOK, OneLink
    <3> QED
      BY <3>1, <3>2
  <2>2. WithoutEntry(dir_entries(p), i) = left
    BY <2>1 DEF WithoutEntry
  <2>3. First(hits) = t
    <3>1. hits \in SUBSET Nat
      BY SizesAssumption DEF Slot
    <3> QED
      BY <2>1, <3>1, FirstProperty
  <2> HIDE DEF hits
  <2>4. dir_entries(p) \in [Slot -> DirEntry]
    BY <1>1, EntriesType
  <2>5. \A s \in Slot : left[s] = IF s = t THEN FreeEntry ELSE Entry(p, s)
    BY <2>3, <2>4 DEF Entry
  <2>6. \A s \in Slot : Entry(p, s).in_use /\ s # t => Entry(p, s).inode # i
    BY <1>1, <1>3 DEF TreeOK, OneLink
  <2> HIDE DEF left
  <2>7. \A s \in Slot : Entry(p, s)' = IF s \in StoredSlot THEN left[s] ELSE FreeEntry
    <3>1. PICK c \in Block : c = inode_table[p].blocks[0] /\ c # NoBlock
      BY <1>1, <1>3, FirstBlockType DEF Directories
    <3>2. write_inode_block(c, DirSector(left)) /\ inode_table'[p].blocks[0] = c
      BY <1>4, <2>2, <3>1
    <3> QED
      BY <1>1, <3>1, <3>2, DirRewritten
  <2> QED
    BY <2>5, <2>6, <2>7 DEF FreeEntry
<1>7. \A d \in Directories \ {p} : \A s \in Slot :
         Entry(d, s)' = Entry(d, s) /\ (Entry(d, s).in_use => Entry(d, s).inode # i)
  <2> SUFFICES ASSUME NEW d \in Directories \ {p}
               PROVE  \A s \in Slot :
                         /\ Entry(d, s)' = Entry(d, s)
                         /\ Entry(d, s).in_use => Entry(d, s).inode # i
    OBVIOUS
  <2>1. /\ d \in Inode /\ inode_table[d].blocks[0] \in Block
        /\ inode_table[d].blocks[0] # inode_table[p].blocks[0]
    BY <1>1, <1>3, DirBlocks
  <2>2. d_data'[inode_table[d].blocks[0]] = d_data[inode_table[d].blocks[0]]
    BY <1>1, <2>1, FirstBlockType, WriteSpares
  <2>3. d # i
    BY DEF Directories
  <2>4. \A s \in Slot : Entry(d, s)' = Entry(d, s)
    BY <1>4, <2>1, <2>2, <2>3, DirKept
  <2>5. \A s \in Slot : Entry(d, s).in_use => Entry(d, s).inode # i
    BY <1>1, <1>3 DEF TreeOK, OneLink
  <2> QED
    BY <2>4, <2>5
<1>8. \A d \in Directories : \A s \in Slot :
         Entry(d, s).in_use => Entry(d, s).inode \in Inode
  BY <1>1 DEF TreeOK, EntriesLive, Live
<1>9. \A d \in Directories' : \A s \in Slot :
         Entry(d, s)'.in_use =>
             /\ Entry(d, s)' = Entry(d, s)
             /\ inode_table'[Entry(d, s).inode].type
                    = inode_table[Entry(d, s).inode].type
  BY <1>4, <1>5, <1>6, <1>7, <1>8
<1> QED
  BY <1>1, <1>5, <1>9, EntriesKept

-----------------------------------------------------------------------------
(* The invariant is inductive                                              *)

LEMMA LinkInit == Init => LinkInv
<1> SUFFICES ASSUME Init PROVE Tidy
  BY BlockInit DEF LinkInv
<1>1. Directories = {}
  BY DEF Init, Directories, FreeInode
<1> QED
  BY <1>1 DEF Init, Tidy, TreeOK, EntriesLive, OneLink, ParentInv, HoldsParent,
     UnlinkedInv, RootInv, ZeroSuperblock

LEMMA LinkNext == LinkInv /\ [Step]_vars => LinkInv'
<1> SUFFICES ASSUME LinkInv, [Step]_vars PROVE Tidy'
  BY BlockNext DEF LinkInv
<1>0. TypeOK /\ CallInv /\ Owned /\ SavedInv /\ TreeOK
  BY DEF LinkInv, Tidy, BlockInv, TypeInv
<1>1. CASE UNCHANGED vars
  <2>1. /\ inode_table' = inode_table /\ d_data' = d_data /\ pc' = pc
        /\ frame' = frame /\ task' = task /\ d_superblock' = d_superblock
    BY <1>1 DEF vars, ram, disk, metadata, control
  <2>2. PICK i : i = frame.inode
    OBVIOUS
  <2>3. TreeOK' /\ (Unlinked(i) => Unlinked(i)')
    BY <1>0, <2>1, SameTree
  <2> QED
    BY <2>1, <2>2, <2>3 DEF LinkInv, Tidy, ParentInv, HoldsParent, UnlinkedInv,
       RootInv
<1>2. CASE BootInstalled
  <2>1. d_inode_table = inode_table
    BY <1>0, <1>2 DEF BootInstalled, SavedInv, Settled
  <2> QED
    BY <1>2, <2>1, QuietStep DEF BootInstalled, Goto, disk, HoldsParent
<1>3. CASE InstallRoot
  <2>1. /\ pc' = "install_superblock"
        /\ write_inode_block(1, DirSector(NewDirectory(Root, Root)))
    BY <1>3 DEF InstallRoot, Goto
  <2>2. /\ inode_table'[Root].type = "DIR" /\ inode_table'[Root].blocks[0] = 1
        /\ \A i \in Inode \ {Root} : inode_table'[i].type = "FREE"
    BY <1>3, ConstantTypes DEF InstallRoot, FreeInode, Root
  <2>3. Directories' = {Root}
    <3>1. Root \in Inode /\ inode_table'[Root].blocks[0] # NoBlock
      BY <2>2, ConstantTypes DEF Root, NoBlock
    <3>2. \A i \in Inode : i \in Directories' => i = Root
      BY <2>2 DEF Directories
    <3>3. Root \in Directories'
      BY <2>2, <3>1 DEF Directories
    <3> QED
      BY <3>2, <3>3 DEF Directories
  <2>4. \A s \in Slot :
           Entry(Root, s)' = IF s \in StoredSlot THEN NewDirectory(Root, Root)[s]
                             ELSE FreeEntry
    <3>1. 1 \in Block /\ 1 # NoBlock /\ Root \in Inode
      BY ConstantTypes DEF NoBlock, Root
    <3> QED
      BY <1>0, <2>1, <2>2, <3>1, DirRewritten
  <2>5. \A s \in Slot : Entry(Root, s)'.in_use =>
           Entry(Root, s)'.inode = Root /\ Entry(Root, s)'.name \in Component
    <3> SUFFICES ASSUME NEW s \in Slot, Entry(Root, s)'.in_use
                 PROVE  Entry(Root, s)'.inode = Root /\ Entry(Root, s)'.name \in Component
      OBVIOUS
    <3>1. CASE s = 0
      <4>1. NewDirectory(Root, Root)[s] = [in_use |-> TRUE, name |-> Dot, inode |-> Root]
        BY <3>1 DEF NewDirectory
      <4> QED
        BY <2>4, <4>1 DEF FreeEntry, Component
    <3>2. CASE s = 1
      <4>1. NewDirectory(Root, Root)[s] = [in_use |-> TRUE, name |-> DotDot, inode |-> Root]
        BY <3>2 DEF NewDirectory
      <4> QED
        BY <2>4, <4>1 DEF FreeEntry, Component
    <3>3. CASE s # 0 /\ s # 1
      <4>1. NewDirectory(Root, Root)[s] = FreeEntry
        BY <3>3 DEF NewDirectory
      <4> QED
        BY <2>4, <4>1 DEF FreeEntry
    <3> QED
      BY <3>1, <3>2, <3>3
  <2>6. EntriesLive'
    BY <2>2, <2>3, <2>5, ConstantTypes DEF EntriesLive, Live, Root
  <2>7. OneLink'
    BY <2>2, <2>3, <2>5 DEF OneLink
  <2> QED
    BY <2>1, <2>2, <2>6, <2>7 DEF Tidy, TreeOK, ParentInv, HoldsParent, UnlinkedInv,
       RootInv
<1>4. CASE InstallSyncSuperblock
  BY <1>4, QuietStep DEF InstallSyncSuperblock, Goto, ram, HoldsParent
<1>5. CASE InstallSyncInodes
  BY <1>5, QuietStep DEF InstallSyncInodes, Goto, ram, HoldsParent
<1>6. CASE InstallSyncBitmap
  <2>1. d_inode_table = inode_table
    BY <1>0, <1>6 DEF InstallSyncBitmap, SavedInv
  <2> QED
    BY <1>6, <2>1, QuietStep DEF InstallSyncBitmap, Goto, HoldsParent
<1>7. CASE InstallNextDir
  BY <1>7, QuietStep DEF InstallNextDir, Goto, ram, disk, HoldsParent
<1>8. CASE InstallFinish
  BY <1>8, QuietStep DEF InstallFinish, Goto, ram, HoldsParent
<1>9. CASE PowerOn
  BY <1>9, QuietStep DEF PowerOn, Goto, ram, disk, metadata, HoldsParent
<1>10. CASE SwitchOff
  BY <1>10, QuietStep DEF SwitchOff, Goto, ram, disk, HoldsParent
<1>11. ASSUME NEW request \in Request, Call(request) PROVE Tidy'
  <2>1. request.op \in {"create_dir", "create_file", "delete_file"}
    BY DEF Request
  <2>2. pc = "idle" /\ pc' = request.op /\ task' = request
        /\ inode_table' = inode_table /\ d_data' = d_data
    BY <1>11 DEF Call, Goto, ram, disk
  <2>3. ~ HoldsParent'
    BY <2>1, <2>2 DEF HoldsParent
  <2> QED
    BY <2>1, <2>2, <2>3, QuietStep
<1>12. CASE Return
  BY <1>12, QuietStep DEF Return, Goto, ram, disk, HoldsParent
<1>13. CASE CreateDirEnter
  BY <1>13, QuietStep DEF CreateDirEnter, CreateDirReturnsOk, Leave, Goto, ram, disk,
     HoldsParent
<1>14. CASE CreateDirAlloc
  <2>1. CASE Leave("error") /\ UNCHANGED <<ram, disk>>
    BY <1>14, <2>1, QuietStep DEF CreateDirAlloc, Leave, Goto, ram, disk, HoldsParent
  <2>2. CASE /\ IsDirectory(find_inode_by_path(Prefix(frame.dir, frame.depth - 1)))
             /\ allocate_inode # NoInode /\ allocate_block # NoFreeBlock
             /\ inode_table' = [inode_table EXCEPT ![allocate_inode] =
                    [FreeInode EXCEPT !.type = "DIR", !.blocks[0] = allocate_block]]
             /\ write_inode_block(allocate_block, DirSector(NewDirectory(allocate_inode,
                    find_inode_by_path(Prefix(frame.dir, frame.depth - 1)))))
             /\ frame' = [frame EXCEPT
                    !.parent = find_inode_by_path(Prefix(frame.dir, frame.depth - 1)),
                    !.inode = allocate_inode]
             /\ Goto("dir_link")
    <3>1. PICK i \in Inode, b \in Block :
             /\ i = allocate_inode /\ inode_table[i].type = "FREE"
             /\ b = allocate_block /\ b \notin block_bitmap
      BY <2>2, AllocateInode, AllocateBlock
    <3>2. PICK p \in Inode : /\ p = find_inode_by_path(Prefix(frame.dir, frame.depth - 1))
                             /\ inode_table[p].type = "DIR"
      BY <2>2, FindType DEF IsDirectory
    <3>3. /\ inode_table' = [inode_table EXCEPT ![i] =
                 [FreeInode EXCEPT !.type = "DIR", !.blocks[0] = b]]
          /\ write_inode_block(b, DirSector(NewDirectory(i, p)))
      BY <2>2, <3>1, <3>2
    <3>4. TreeOK' /\ Unlinked(i)'
      BY <3>1, <3>2, <3>3, TreeAllocated
    <3>5. frame'.inode = i /\ frame'.parent = p /\ pc' = "dir_link"
      BY <1>0, <2>2, <3>1, <3>2 DEF Goto, TypeOK, ControlTypeOK, Frame
    <3>6. /\ i # p /\ inode_table'[i].type = "DIR"
          /\ \A k \in Inode \ {i} : inode_table'[k] = inode_table[k]
      BY <1>0, <3>1, <3>2, <3>3 DEF FreeInode, TypeOK, RamTypeOK
    <3>7. inode_table'[Root].type = "DIR" /\ i # Root
      BY <1>14, <3>1, <3>6, ConstantTypes
         DEF CreateDirAlloc, LinkInv, Tidy, RootInv, Root
    <3> QED
      BY <3>2, <3>4, <3>5, <3>6, <3>7 DEF Tidy, ParentInv, UnlinkedInv, RootInv
  <2> QED
    BY <1>14, <2>1, <2>2 DEF CreateDirAlloc
<1>15. CASE CreateDirLink
  <2>1. pc = "dir_link"
    BY <1>15 DEF CreateDirLink
  <2>2. frame.dir \in Path /\ frame.depth \in 1 .. Len(frame.dir)
    BY <1>0, <2>1 DEF CallInv, DirLabel, TypeOK, ControlTypeOK, Frame
  <2>3. FileName(Prefix(frame.dir, frame.depth)) \in Component
    <3>1. frame.depth \in 0 .. Len(frame.dir)
      BY <2>2, PathParts
    <3>2. Prefix(frame.dir, frame.depth) \in Path
          /\ Len(Prefix(frame.dir, frame.depth)) = frame.depth
      BY <2>2, <3>1, PathParts
    <3>3. Prefix(frame.dir, frame.depth) # << >>
      BY <2>2, <3>2, EmptySeq
    <3> QED
      BY <3>2, <3>3, PathParts
  <2> QED
    BY <1>15, <2>1, <2>3, TreeLinked DEF CreateDirLink
<1>16. CASE CreateDirSyncInodes
  BY <1>16, QuietStep DEF CreateDirSyncInodes, Goto, ram, HoldsParent
<1>17. CASE CreateDirSyncBitmap
  BY <1>17, QuietStep DEF CreateDirSyncBitmap, CreateDirReturnsOk, Leave, Goto, ram,
     HoldsParent
<1>18. CASE CreateFileEnter
  BY <1>18, QuietStep DEF CreateFileEnter, Leave, Goto, ram, disk, HoldsParent
<1>19. CASE CreateFileParent
  <2>1. CASE Leave("error")
    BY <1>19, <2>1, QuietStep DEF CreateFileParent, Leave, Goto, ram, disk, HoldsParent
  <2>2. CASE /\ IsDirectory(find_inode_by_path(Parent(task.path)))
             /\ frame' = [frame EXCEPT !.parent = find_inode_by_path(Parent(task.path))]
             /\ pc' \in {"delete_file", "file_alloc"}
    <3>1. /\ inode_table' = inode_table /\ d_data' = d_data
          /\ d_superblock' = d_superblock /\ pc = "parent_made"
      BY <1>19 DEF CreateFileParent, ram, disk, metadata
    <3>2. TreeOK'
      BY <1>0, <3>1, SameTree
    <3>3. inode_table'[frame'.parent].type = "DIR"
      BY <1>0, <2>2, <3>1 DEF IsDirectory, TypeOK, ControlTypeOK, Frame
    <3> QED
      BY <2>2, <3>1, <3>2, <3>3 DEF LinkInv, Tidy, ParentInv, UnlinkedInv, RootInv
  <2> QED
    BY <1>19, <2>1, <2>2 DEF CreateFileParent, Goto
<1>20. CASE CreateFileAlloc
  <2>1. CASE Leave("error") /\ UNCHANGED <<ram, disk>>
    BY <1>20, <2>1, QuietStep DEF CreateFileAlloc, Leave, Goto, ram, disk, HoldsParent
  <2>2. CASE /\ allocate_inode # NoInode
             /\ inode_table' = [inode_table EXCEPT ![allocate_inode] =
                    [FreeInode EXCEPT !.type = "FILE", !.size = Len(task.content)]]
             /\ frame' = [frame EXCEPT !.inode = allocate_inode, !.i = 0]
             /\ Goto("file_data")
    <3>1. PICK i \in Inode : i = allocate_inode /\ inode_table[i].type = "FREE"
      BY <2>2, AllocateInode
    <3>2. /\ inode_table'[i].type = "FILE"
          /\ \A k \in Inode \ {i} : inode_table'[k] = inode_table[k]
      BY <1>0, <2>2, <3>1 DEF FreeInode, TypeOK, RamTypeOK
    <3>3. /\ pc = "file_alloc" /\ pc' = "file_data" /\ d_data' = d_data
          /\ frame'.inode = i /\ frame'.parent = frame.parent /\ frame.parent \in Inode
      BY <1>0, <1>20, <2>2, <3>1
         DEF CreateFileAlloc, Goto, disk, TypeOK, ControlTypeOK, Frame
    <3>4. Directories' = Directories /\ i \notin Directories
      BY <3>1, <3>2 DEF Directories
    <3>5. \A d \in Directories : \A s \in Slot : Entry(d, s)' = Entry(d, s)
      BY <3>2, <3>3, <3>4, DirKept DEF Directories
    <3>6. \A d \in Directories : \A s \in Slot :
             Entry(d, s).in_use => Entry(d, s).inode \in Inode \ {i}
      BY <1>0, <3>1 DEF TreeOK, EntriesLive, Live
    <3>7. TreeOK' /\ Unlinked(i)'
      <4>1. Unlinked(i)
        BY <3>6 DEF Unlinked
      <4> QED
        BY <1>0, <3>2, <3>4, <3>5, <3>6, <4>1, EntriesKept
    <3>8. frame.parent # i /\ inode_table[frame.parent].type = "DIR"
          /\ Root # i /\ inode_table[Root].type = "DIR"
      BY <3>1, <3>3 DEF LinkInv, Tidy, ParentInv, HoldsParent, RootInv
    <3> QED
      BY <3>2, <3>3, <3>7, <3>8, ConstantTypes
         DEF Tidy, ParentInv, UnlinkedInv, RootInv, Root
  <2> QED
    BY <1>20, <2>1, <2>2 DEF CreateFileAlloc
<1>21. CASE CreateFileData
  <2>0. pc = "file_data"
    BY <1>21 DEF CreateFileData
  <2>1. CASE GiveBack
    BY <2>0, <2>1, TreeGivenBack
  <2>2. CASE /\ allocate_block # NoFreeBlock
             /\ inode_table' = [inode_table EXCEPT
                    ![frame.inode].blocks[frame.i] = allocate_block]
             /\ write_inode_block(allocate_block,
                                  ChunkSector(task.content[frame.i + 1]))
             /\ frame' = [frame EXCEPT !.i = @ + 1]
             /\ UNCHANGED <<metadata, pc, task>>
    <3>1. PICK b \in Block : b = allocate_block /\ b \notin block_bitmap
      BY <2>2, AllocateBlock
    <3>2. PICK i \in Inode, p \in Inode :
             /\ i = frame.inode /\ p = frame.parent
             /\ Unlinked(i) /\ i # Root /\ inode_table[Root].type = "DIR"
             /\ inode_table[i].type = "FILE" /\ inode_table[p].type = "DIR"
      BY <1>0, <2>0 DEF LinkInv, Tidy, UnlinkedInv, ParentInv, HoldsParent, RootInv,
         BlockInv, LoopInv, TypeOK, ControlTypeOK, Frame
    <3>3. /\ \A k \in Inode : inode_table'[k].type = inode_table[k].type
          /\ \A k \in Inode \ {i} : inode_table'[k] = inode_table[k]
      BY <1>0, <2>2, <3>2 DEF TypeOK, RamTypeOK, InodeRecord
    <3>4. Directories' = Directories /\ i \notin Directories
      BY <3>2, <3>3 DEF Directories
    <3>5. \A d \in Directories : \A s \in Slot : Entry(d, s)' = Entry(d, s)
      <4> SUFFICES ASSUME NEW d \in Directories
                   PROVE  \A s \in Slot : Entry(d, s)' = Entry(d, s)
        OBVIOUS
      <4>1. /\ d \in Inode \ {i} /\ inode_table[d].blocks[0] \in Block
            /\ inode_table[d].blocks[0] # b
        BY <1>0, <3>1, <3>4, DirBlocks
      <4>2. d_data'[inode_table[d].blocks[0]] = d_data[inode_table[d].blocks[0]]
        BY <1>0, <2>2, <3>1, <4>1, WriteSpares
      <4> QED
        BY <3>3, <4>1, <4>2, DirKept
    <3>6. \A d \in Directories : \A s \in Slot :
             Entry(d, s).in_use => Entry(d, s).inode \in Inode
      BY <1>0 DEF TreeOK, EntriesLive, Live
    <3>7. TreeOK' /\ Unlinked(i)'
      BY <1>0, <3>2, <3>3, <3>4, <3>5, <3>6, EntriesKept
    <3>8. frame'.inode = i /\ frame'.parent = p /\ pc' = "file_data"
      BY <1>0, <2>0, <2>2, <3>2 DEF TypeOK, ControlTypeOK, Frame
    <3> QED
      BY <3>2, <3>3, <3>7, <3>8, ConstantTypes
         DEF Tidy, ParentInv, UnlinkedInv, RootInv, Root
  <2> QED
    BY <1>21, <2>1, <2>2 DEF CreateFileData
<1>22. CASE CreateFileLink
  <2>1. pc = "file_data"
    BY <1>22 DEF CreateFileLink
  <2>2. task.path \in Path /\ task.path # << >>
    BY <1>0, <2>1, TaskType DEF CallInv, FileLabel, TypeOK, ControlTypeOK
  <2>3. FileName(task.path) \in Component
    BY <2>2, PathParts
  <2> QED
    BY <1>22, <2>1, <2>3, TreeLinked DEF CreateFileLink
<1>23. CASE CreateFileSyncInodes
  BY <1>23, QuietStep DEF CreateFileSyncInodes, Goto, ram, HoldsParent
<1>24. CASE CreateFileSyncBitmap
  BY <1>24, QuietStep DEF CreateFileSyncBitmap, Goto, ram, HoldsParent
<1>25. CASE CreateFileSyncSuperblock
  BY <1>25, QuietStep DEF CreateFileSyncSuperblock, Leave, Goto, ram, HoldsParent
<1>26. CASE DeleteFileEnter
  <2> DEFINE parent == find_inode_by_path(Parent(task.path))
             file == find_inode_by_path(task.path)
  <2>1. CASE DeleteReturns("error") /\ UNCHANGED <<ram, disk>>
    BY <1>26, <2>1, QuietStep DEF DeleteFileEnter, DeleteReturns, Leave, Goto, ram,
       disk, HoldsParent
  <2>2. CASE /\ parent # NoInode /\ fs_file_exists(task.path)
             /\ free_inode(file)
             /\ write_inode_block(inode_table[parent].blocks[0],
                    DirSector(WithoutEntry(dir_entries(parent), file)))
             /\ Goto("delete_inodes")
             /\ UNCHANGED <<metadata, task, frame>>
    <3>1. PICK p \in Inode, i \in Inode :
             /\ p = parent /\ i = file /\ inode_table[i].type = "FILE"
      BY <2>2, FindType DEF fs_file_exists
    <3>2. /\ inode_table[Root].type = "DIR" /\ i # Root
          /\ pc = "delete_file" /\ pc' = "delete_inodes"
      BY <1>26, <2>2, <3>1 DEF DeleteFileEnter, Goto, LinkInv, Tidy, RootInv
    <3>3. inode_table' = [inode_table EXCEPT ![i] = FreeInode]
          /\ write_inode_block(inode_table[p].blocks[0],
                               DirSector(WithoutEntry(dir_entries(p), i)))
      BY <2>2, <3>1 DEF free_inode
    <3>4. TreeOK'
      BY <3>1, <3>2, <3>3, TreeDeleted
    <3>5. \A k \in Inode \ {i} : inode_table'[k] = inode_table[k]
      BY <1>0, <3>1, <3>3 DEF TypeOK, RamTypeOK
    <3>6. ParentInv'
      <4>1. frame.parent \in Inode
        BY <1>0 DEF TypeOK, ControlTypeOK, Frame
      <4> QED
        BY <2>2, <3>1, <3>2, <3>5, <4>1 DEF LinkInv, Tidy, ParentInv, HoldsParent
    <3> QED
      BY <3>2, <3>4, <3>5, <3>6, ConstantTypes DEF Tidy, UnlinkedInv, RootInv, Root
  <2> QED
    BY <1>26, <2>1, <2>2 DEF DeleteFileEnter
<1>27. CASE DeleteSyncInodes
  BY <1>27, QuietStep DEF DeleteSyncInodes, Goto, ram, HoldsParent
<1>28. CASE DeleteSyncBitmap
  BY <1>28, QuietStep DEF DeleteSyncBitmap, DeleteReturns, Leave, Goto, ram,
     HoldsParent
<1> QED
  BY <1>1, <1>2, <1>3, <1>4, <1>5, <1>6, <1>7, <1>8, <1>9, <1>10, <1>11, <1>12,
     <1>13, <1>14, <1>15, <1>16, <1>17, <1>18, <1>19, <1>20, <1>21, <1>22,
     <1>23, <1>24, <1>25, <1>26, <1>27, <1>28, CallsAssumption
     DEF Step, Next, Kernel, User, Boot, Install, CreateDir, CreateFile, DeleteFile

LEMMA NamedAndLinked == LinkInv => NoDanglingEntries
<1> SUFFICES ASSUME LinkInv PROVE NoDanglingEntries
  OBVIOUS
<1>1. \A d \in Directories : \A s \in UsedEntries(d) :
         dir_entries(d)[s].inode \in Live
  BY DEF LinkInv, Tidy, TreeOK, EntriesLive, UsedEntries, Entry
<1>2. ASSUME NEW i \in Inode, inode_table[i].type = "FILE",
             NEW e \in Links(i), NEW f \in Links(i)
      PROVE  e = f
  <2>1. /\ e \in Directories \X Slot /\ f \in Directories \X Slot
        /\ Entry(e[1], e[2]).in_use /\ Entry(e[1], e[2]).inode = i
        /\ Entry(f[1], f[2]).in_use /\ Entry(f[1], f[2]).inode = i
    BY DEF Links, UsedEntries, Entry
  <2>2. e[1] = f[1] /\ e[2] = f[2]
    BY <1>2, <2>1 DEF LinkInv, Tidy, TreeOK, OneLink
  <2> QED
    BY <2>1, <2>2
<1> QED
  BY <1>1, <1>2 DEF NoDanglingEntries

(***************************************************************************)
(* fs_delete_file clears one entry and no call counts links, and yet at    *)
(* every step of every call each entry in use names an inode in use and a  *)
(* file has one entry at most, whatever the sizes and however full the     *)
(* directories.                                                            *)
(***************************************************************************)
THEOREM NothingDangles == Spec => []NoDanglingEntries
BY NamedAndLinked, LinkInit, LinkNext, PTL DEF Spec, Step

\* A path made one component longer.
LEMMA AppendPath ==
    ASSUME NEW path \in Path, NEW n \in Component
    PROVE  /\ Append(path, n) \in Path /\ Append(path, n) # << >>
           /\ Parent(Append(path, n)) = path /\ FileName(Append(path, n)) = n
<1> DEFINE longer == Append(path, n)
<1>1. Len(path) \in Nat
  BY LenProperties DEF Path
<1>2. /\ longer \in Path
      /\ Len(longer) = Len(path) + 1
      /\ \A k \in 1 .. Len(path) : longer[k] = path[k]
      /\ longer[Len(path) + 1] = n
  BY AppendProperties DEF Path
<1> HIDE DEF longer
<1>3. longer # << >>
  BY <1>1, <1>2, EmptySeq
<1>4. /\ Parent(longer) \in Path /\ Len(Parent(longer)) = Len(path)
      /\ \A k \in 1 .. Len(path) : Parent(longer)[k] = path[k]
  <2>1. Len(longer) - 1 = Len(path)
    BY <1>1, <1>2
  <2>2. /\ Parent(longer) \in Path /\ Len(Parent(longer)) = Len(longer) - 1
        /\ \A k \in 1 .. Len(longer) - 1 : Parent(longer)[k] = longer[k]
    BY <1>2, <1>3, ParentPath
  <2> QED
    BY <1>2, <2>1, <2>2
<1>5. Parent(longer) = path
  BY <1>1, <1>4, SeqEqual DEF Path
<1> QED
  BY <1>2, <1>3, <1>5 DEF FileName, longer

-----------------------------------------------------------------------------
(* Which files a step leaves alone                                         *)

Spared(i) == inode_table'[i] = inode_table[i] /\ Stored(i)' = Stored(i)

SparesFiles ==
    \A i \in Inode :
        (/\ inode_table[i].type = "FILE"
         /\ inode_table'[i].type = "FILE"
         /\ ~ (pc = "file_data" /\ frame.inode = i)) => Spared(i)

LEMMA SameStored ==
    ASSUME NEW i, inode_table'[i] = inode_table[i],
           \A b \in BlocksOf(i) : d_data'[b] = d_data[b]
    PROVE  Spared(i)
<1>1. BlockIndices(i)' = BlockIndices(i)
  BY DEF BlockIndices
<1>2. \A j \in BlockIndices(i) : inode_table[i].blocks[j] \in BlocksOf(i)
  BY DEF BlocksOf
<1> QED
  BY <1>1, <1>2 DEF Spared, Stored

LEMMA QuietSpares ==
    ASSUME inode_table' = inode_table, d_data' = d_data
    PROVE  SparesFiles
BY SameStored DEF SparesFiles

\* At most one inode changes, and a file that is freed or not yet there, or
\* the one being written, is not among those that count.
LEMMA OneInodeSpares ==
    ASSUME TypeOK, NEW n \in Inode, \A k \in Inode \ {n} : inode_table'[k] = inode_table[k],
           \/ inode_table[n].type # "FILE"
           \/ inode_table'[n].type # "FILE"
           \/ pc = "file_data" /\ frame.inode = n,
           \A i \in Inode \ {n} : inode_table[i].type = "FILE" =>
               \A b \in BlocksOf(i) : d_data'[b] = d_data[b]
    PROVE  SparesFiles
BY SameStored DEF SparesFiles

\* A new block is written.
LEMMA NewBlockSpares ==
    ASSUME TypeOK, Owned, NEW b \in Block, b \notin block_bitmap,
           NEW sector, write_inode_block(b, sector)
    PROVE  \A i \in Inode : \A c \in BlocksOf(i) : d_data'[c] = d_data[c]
<1> SUFFICES ASSUME NEW i \in Inode, NEW c \in BlocksOf(i) PROVE d_data'[c] = d_data[c]
  OBVIOUS
<1>1. c \in block_bitmap
  BY DEF Owned
<1>2. c \in Block
  BY <1>1 DEF TypeOK, RamTypeOK
<1> QED
  BY <1>1, <1>2, WriteSpares

\* A directory's block is written.
LEMMA DirWriteSpares ==
    ASSUME TypeOK, Owned, NEW p \in Inode, inode_table[p].type = "DIR",
           NEW sector, write_inode_block(inode_table[p].blocks[0], sector)
    PROVE  \A i \in Inode : inode_table[i].type = "FILE" =>
               \A c \in BlocksOf(i) : d_data'[c] = d_data[c]
<1> SUFFICES ASSUME NEW i \in Inode, inode_table[i].type = "FILE", NEW c \in BlocksOf(i)
             PROVE  d_data'[c] = d_data[c]
  OBVIOUS
<1>1. PICK b \in Block : b = inode_table[p].blocks[0]
  BY FirstBlockType
<1>2. c \in block_bitmap
  BY DEF Owned
<1>3. c \in Block
  BY <1>2 DEF TypeOK, RamTypeOK
<1>4. b = NoBlock \/ b # c
  <2>1. ASSUME b # NoBlock PROVE b # c
    <3>1. p \in Directories /\ i # p
      BY <1>1, <2>1 DEF Directories
    <3> QED
      BY <1>1, <3>1, DirBlocks
  <2> QED
    BY <2>1
<1> QED
  BY <1>1, <1>3, <1>4, WriteSpares

LEMMA GiveBackSpares ==
    ASSUME TypeOK, GiveBack
    PROVE  SparesFiles
<1>1. PICK n \in Inode : n = frame.inode
  BY DEF TypeOK, ControlTypeOK, Frame
<1>2. inode_table' = [inode_table EXCEPT ![n] = FreeInode] /\ d_data' = d_data
  BY <1>1 DEF GiveBack, free_inode, disk
<1>3. inode_table'[n].type = "FREE"
      /\ \A k \in Inode \ {n} : inode_table'[k] = inode_table[k]
  BY <1>2 DEF FreeInode, TypeOK, RamTypeOK
<1> QED
  BY <1>2, <1>3, OneInodeSpares

LEMMA LinkSpares ==
    ASSUME TypeOK, Owned, NEW name, NEW next, LinkEntry(name, next),
           inode_table[frame.parent].type = "DIR"
    PROVE  SparesFiles
<1> DEFINE free == {s \in Slot : ~ dir_entries(frame.parent)[s].in_use}
           entry == [in_use |-> TRUE, name |-> name, inode |-> frame.inode]
           written == [dir_entries(frame.parent) EXCEPT ![First(free)] = entry]
<1>1. CASE GiveBack
  BY <1>1, GiveBackSpares
<1>2. CASE /\ write_inode_block(inode_table[frame.parent].blocks[0], DirSector(written))
           /\ inode_table' = inode_table
  <2> HIDE DEF written
  <2>1. frame.parent \in Inode
    BY DEF TypeOK, ControlTypeOK, Frame
  <2>2. \A i \in Inode : inode_table[i].type = "FILE" =>
           \A c \in BlocksOf(i) : d_data'[c] = d_data[c]
    BY <1>2, <2>1, DirWriteSpares
  <2> QED
    BY <1>2, <2>2, SameStored DEF SparesFiles
<1> QED
  BY <1>1, <1>2 DEF LinkEntry, ram

\* What fs_delete_file deletes is a file in a directory, and not the root.
LEMMA DeletedFrom ==
    ASSUME LinkInv, pc = "delete_file", fs_file_exists(task.path)
    PROVE  LET parent == find_inode_by_path(Parent(task.path))
               file == find_inode_by_path(task.path)
           IN  /\ parent \in Inode /\ inode_table[parent].type = "DIR"
               /\ file \in Inode /\ inode_table[file].type = "FILE"
<1> DEFINE parent == find_inode_by_path(Parent(task.path))
           file == find_inode_by_path(task.path)
<1>1. TypeOK /\ task.path \in Path /\ inode_table[Root].type = "DIR"
  BY TaskType DEF LinkInv, Tidy, RootInv, BlockInv, TypeInv, TypeOK, ControlTypeOK
<1>2. file \in Inode /\ inode_table[file].type = "FILE" /\ file # NoInode
  BY FindType DEF fs_file_exists
<1>3. task.path # << >>
  <2>1. << >> \in Path
    BY EmptySeq DEF Path
  <2>2. find_inode_by_path(<< >>) = Root
    BY <1>1, <2>1, PathWalk, FindWalk
  <2> QED
    BY <1>1, <1>2, <2>2
<1>4. parent \in Directories
  BY <1>1, <1>2, <1>3, FoundByEntry
<1> QED
  BY <1>2, <1>4 DEF Directories

LEMMA StepSpares == LinkInv /\ [Step]_vars => SparesFiles
<1> SUFFICES ASSUME LinkInv, [Step]_vars PROVE SparesFiles
  OBVIOUS
<1>0. TypeOK /\ Owned /\ SavedInv
  BY DEF LinkInv, BlockInv, TypeInv
<1>1. CASE UNCHANGED vars
  BY <1>1, QuietSpares DEF vars, ram, disk
<1>2. CASE BootInstalled
  BY <1>0, <1>2, QuietSpares DEF BootInstalled, disk, SavedInv, Settled
<1>3. CASE InstallRoot
  <2>1. inode_table = [i \in Inode |-> FreeInode]
    BY <1>3 DEF InstallRoot, LinkInv, BlockInv, InstalledInv, SavedInv, Settled
  <2> QED
    BY <2>1 DEF SparesFiles, FreeInode
<1>4. CASE InstallSyncSuperblock \/ InstallSyncInodes \/ InstallNextDir \/ InstallFinish
  BY <1>4, QuietSpares DEF InstallSyncSuperblock, InstallSyncInodes, InstallNextDir,
     InstallFinish, ram, disk
<1>5. CASE InstallSyncBitmap
  BY <1>0, <1>5, QuietSpares DEF InstallSyncBitmap, SavedInv
<1>6. CASE PowerOn \/ SwitchOff \/ Return \/ \E request \in Request : Call(request)
  BY <1>6, QuietSpares DEF PowerOn, SwitchOff, Return, Call, ram, disk
<1>7. CASE CreateDirEnter \/ CreateDirSyncInodes \/ CreateDirSyncBitmap
  BY <1>7, QuietSpares DEF CreateDirEnter, CreateDirSyncInodes, CreateDirSyncBitmap,
     ram, disk
<1>8. CASE CreateDirAlloc
  <2>1. CASE UNCHANGED <<ram, disk>>
    BY <2>1, QuietSpares DEF ram, disk
  <2>2. CASE /\ allocate_inode # NoInode /\ allocate_block # NoFreeBlock
             /\ inode_table' = [inode_table EXCEPT ![allocate_inode] =
                    [FreeInode EXCEPT !.type = "DIR", !.blocks[0] = allocate_block]]
             /\ \E sector : write_inode_block(allocate_block, sector)
    <3>1. PICK n \in Inode, b \in Block :
             /\ n = allocate_inode /\ inode_table[n].type = "FREE"
             /\ b = allocate_block /\ b \notin block_bitmap
      BY <2>2, AllocateInode, AllocateBlock
    <3>2. \A i \in Inode : \A c \in BlocksOf(i) : d_data'[c] = d_data[c]
      BY <1>0, <2>2, <3>1, NewBlockSpares
    <3>3. \A k \in Inode \ {n} : inode_table'[k] = inode_table[k]
      BY <1>0, <2>2, <3>1 DEF TypeOK, RamTypeOK
    <3> QED
      BY <1>0, <3>1, <3>2, <3>3, OneInodeSpares
  <2> QED
    BY <1>8, <2>1, <2>2 DEF CreateDirAlloc
<1>9. CASE CreateDirLink
  BY <1>0, <1>9, LinkSpares DEF CreateDirLink, LinkInv, Tidy, ParentInv, HoldsParent
<1>10. CASE CreateFileEnter \/ CreateFileParent
            \/ CreateFileSyncInodes \/ CreateFileSyncBitmap \/ CreateFileSyncSuperblock
  BY <1>10, QuietSpares DEF CreateFileEnter, CreateFileParent, CreateFileSyncInodes,
     CreateFileSyncBitmap, CreateFileSyncSuperblock, ram, disk
<1>11. CASE CreateFileAlloc
  <2>1. CASE allocate_inode = NoInode
    BY <1>11, <2>1, QuietSpares DEF CreateFileAlloc, ram, disk
  <2>2. CASE allocate_inode # NoInode
    <3>1. PICK n \in Inode : n = allocate_inode /\ inode_table[n].type = "FREE"
      BY <2>2, AllocateInode
    <3>2. d_data' = d_data /\ \A k \in Inode \ {n} : inode_table'[k] = inode_table[k]
      BY <1>0, <1>11, <2>2, <3>1 DEF CreateFileAlloc, disk, TypeOK, RamTypeOK
    <3> QED
      BY <1>0, <3>1, <3>2, OneInodeSpares
  <2> QED
    BY <2>1, <2>2
<1>12. CASE CreateFileData
  <2>1. CASE GiveBack
    BY <1>0, <2>1, GiveBackSpares
  <2>2. CASE /\ allocate_block # NoFreeBlock
             /\ inode_table' = [inode_table EXCEPT
                    ![frame.inode].blocks[frame.i] = allocate_block]
             /\ write_inode_block(allocate_block,
                                  ChunkSector(task.content[frame.i + 1]))
    <3>1. PICK b \in Block : b = allocate_block /\ b \notin block_bitmap
      BY <2>2, AllocateBlock
    <3>2. PICK n \in Inode : n = frame.inode
      BY <1>0 DEF TypeOK, ControlTypeOK, Frame
    <3>3. \A i \in Inode : \A c \in BlocksOf(i) : d_data'[c] = d_data[c]
      BY <1>0, <2>2, <3>1, NewBlockSpares
    <3>4. \A k \in Inode \ {n} : inode_table'[k] = inode_table[k]
      BY <1>0, <2>2, <3>2 DEF TypeOK, RamTypeOK
    <3>5. pc = "file_data"
      BY <1>12 DEF CreateFileData
    <3> QED
      BY <1>0, <3>2, <3>3, <3>4, <3>5, OneInodeSpares
  <2> QED
    BY <1>12, <2>1, <2>2 DEF CreateFileData
<1>13. CASE CreateFileLink
  BY <1>0, <1>13, LinkSpares DEF CreateFileLink, LinkInv, Tidy, ParentInv, HoldsParent
<1>14. CASE DeleteFileEnter
  <2> DEFINE parent == find_inode_by_path(Parent(task.path))
             file == find_inode_by_path(task.path)
  <2>1. CASE UNCHANGED <<ram, disk>>
    BY <2>1, QuietSpares DEF ram, disk
  <2>2. CASE /\ fs_file_exists(task.path)
             /\ free_inode(file)
             /\ write_inode_block(inode_table[parent].blocks[0],
                    DirSector(WithoutEntry(dir_entries(parent), file)))
    <3>1. PICK n \in Inode : n = file /\ inode_table[n].type = "FILE"
      BY <2>2, FindType DEF fs_file_exists
    <3>3. parent \in Inode /\ inode_table[parent].type = "DIR"
      BY <1>14, <2>2, DeletedFrom DEF DeleteFileEnter
    <3> HIDE DEF parent, file
    <3>4. \A i \in Inode : inode_table[i].type = "FILE" =>
             \A c \in BlocksOf(i) : d_data'[c] = d_data[c]
      BY <1>0, <2>2, <3>3, DirWriteSpares
    <3>5. inode_table'[n].type = "FREE"
          /\ \A k \in Inode \ {n} : inode_table'[k] = inode_table[k]
      BY <1>0, <2>2, <3>1 DEF free_inode, FreeInode, TypeOK, RamTypeOK
    <3> QED
      BY <1>0, <3>4, <3>5, OneInodeSpares
  <2> QED
    BY <1>14, <2>1, <2>2 DEF DeleteFileEnter
<1>15. CASE DeleteSyncInodes \/ DeleteSyncBitmap
  BY <1>15, QuietSpares DEF DeleteSyncInodes, DeleteSyncBitmap, ram
<1> QED
  BY <1>1, <1>2, <1>3, <1>4, <1>5, <1>6, <1>7, <1>8, <1>9, <1>10, <1>11, <1>12,
     <1>13, <1>14, <1>15, CallsAssumption
     DEF Step, Next, Kernel, User, Boot, Install, CreateDir, CreateFile, DeleteFile

(***************************************************************************)
(* No call touches a file but the one it creates or deletes: whatever      *)
(* blocks the calls allocate, free and write, a step that leaves a file's  *)
(* inode in use leaves its size, its blocks and the data they hold.        *)
(***************************************************************************)
THEOREM FilesSpared == Spec => FileContentStable
<1>1. LinkInv /\ [Step]_vars =>
          [\A i \in Inode :
              (/\ inode_table[i].type = "FILE"
               /\ inode_table'[i].type = "FILE"
               /\ ~ (pc = "file_data" /\ frame.inode = i))
              => inode_table'[i] = inode_table[i] /\ Stored(i)' = Stored(i)]_vars
  BY StepSpares DEF SparesFiles, Spared
<1> QED
  BY <1>1, LinkInit, LinkNext, PTL DEF Spec, Step, FileContentStable

-----------------------------------------------------------------------------
(* No call removes a directory, or an entry that names one                 *)

\* The directory that is not in its parent yet.
Awaiting == IF pc = "dir_link" THEN {frame.inode} ELSE {}

DirsStay ==
    \A d \in Inode \ Awaiting : inode_table[d].type = "DIR" =>
        /\ inode_table'[d].type = "DIR"
        /\ \A s \in Slot :
               (Entry(d, s).in_use /\ inode_table[Entry(d, s).inode].type = "DIR")
                   => Entry(d, s)' = Entry(d, s)

\* Directories whose inode and block are untouched.
LEMMA UntouchedStay ==
    ASSUME TypeOK,
           \A d \in Inode \ Awaiting : inode_table[d].type = "DIR" =>
               /\ inode_table'[d] = inode_table[d]
               /\ \A c \in BlocksOf(d) : d_data'[c] = d_data[c]
    PROVE  DirsStay
<1> SUFFICES ASSUME NEW d \in Inode \ Awaiting, inode_table[d].type = "DIR"
             PROVE  /\ inode_table'[d].type = "DIR"
                    /\ \A s \in Slot : Entry(d, s)' = Entry(d, s)
  BY DEF DirsStay
<1>1. inode_table'[d] = inode_table[d]
  OBVIOUS
<1>2. inode_table[d].blocks[0] # NoBlock => inode_table[d].blocks[0] \in BlocksOf(d)
  BY ConstantTypes DEF BlocksOf, BlockIndices
<1>3. \A s \in Slot : Entry(d, s)' = Entry(d, s)
  BY <1>1, <1>2, DirKept
<1> QED
  BY <1>1, <1>3

\* A directory's entries are written back with one slot changed.
LEMMA RewrittenStay ==
    ASSUME TypeOK, Owned, NEW p \in Inode, inode_table[p].type = "DIR",
           NEW entries,
           write_inode_block(inode_table[p].blocks[0], DirSector(entries)),
           \A d \in Inode : inode_table[d].type = "DIR" =>
               inode_table'[d] = inode_table[d],
           \A s \in Slot :
               (Entry(p, s).in_use /\ inode_table[Entry(p, s).inode].type = "DIR")
                   => entries[s] = Entry(p, s)
    PROVE  DirsStay
<1> SUFFICES ASSUME NEW d \in Inode, inode_table[d].type = "DIR", NEW s \in Slot,
                    Entry(d, s).in_use, inode_table[Entry(d, s).inode].type = "DIR"
             PROVE  Entry(d, s)' = Entry(d, s)
  BY DEF DirsStay
<1>1. PICK b \in Block : b = inode_table[p].blocks[0]
  BY FirstBlockType
<1>2. inode_table'[d] = inode_table[d]
  OBVIOUS
<1>3. CASE d = p /\ b # NoBlock
  <2>1. Entry(d, s)' = IF s \in StoredSlot THEN entries[s] ELSE FreeEntry
    <3>1. write_inode_block(b, DirSector(entries)) /\ inode_table'[p].blocks[0] = b
      BY <1>1, <1>2, <1>3
    <3> QED
      BY <1>3, <3>1, DirRewritten
  <2>2. s \in StoredSlot
    BY EntryType DEF FreeEntry
  <2> QED
    BY <1>3, <2>1, <2>2
<1>4. CASE d # p \/ b = NoBlock
  <2>1. inode_table[d].blocks[0] # NoBlock =>
           d_data'[inode_table[d].blocks[0]] = d_data[inode_table[d].blocks[0]]
    <3> SUFFICES ASSUME inode_table[d].blocks[0] # NoBlock
                 PROVE  d_data'[inode_table[d].blocks[0]] = d_data[inode_table[d].blocks[0]]
      OBVIOUS
    <3>1. d \in Directories
      BY DEF Directories
    <3>2. inode_table[d].blocks[0] \in Block
          /\ (b = NoBlock \/ b # inode_table[d].blocks[0])
      BY <1>1, <1>4, <3>1, DirBlocks
    <3> QED
      BY <1>1, <3>2, WriteSpares
  <2> QED
    BY <1>2, <2>1, DirKept
<1> QED
  BY <1>3, <1>4

LEMMA LinkStays ==
    ASSUME TypeOK, Owned, NEW name, NEW next, LinkEntry(name, next),
           inode_table[frame.parent].type = "DIR",
           inode_table[frame.inode].type = "FILE" \/ pc = "dir_link"
    PROVE  DirsStay
<1> DEFINE free == {s \in Slot : ~ dir_entries(frame.parent)[s].in_use}
           entry == [in_use |-> TRUE, name |-> name, inode |-> frame.inode]
           written == [dir_entries(frame.parent) EXCEPT ![First(free)] = entry]
<1>1. PICK p \in Inode, i \in Inode : p = frame.parent /\ i = frame.inode
  BY DEF TypeOK, ControlTypeOK, Frame
<1>2. CASE GiveBack
  <2>1. d_data' = d_data /\ \A k \in Inode \ {i} : inode_table'[k] = inode_table[k]
    BY <1>1, <1>2 DEF GiveBack, free_inode, disk, TypeOK, RamTypeOK
  <2> QED
    BY <1>1, <2>1, UntouchedStay DEF Awaiting
<1>3. CASE /\ write_inode_block(inode_table[frame.parent].blocks[0], DirSector(written))
           /\ inode_table' = inode_table /\ free # {}
  <2>1. free \in SUBSET Nat
    BY SizesAssumption DEF Slot
  <2>2. PICK f \in Slot : f = First(free) /\ ~ Entry(p, f).in_use
    BY <1>1, <1>3, <2>1, FirstProperty DEF Entry
  <2>3. dir_entries(p) \in [Slot -> DirEntry]
    BY EntriesType
  <2> HIDE DEF free
  <2>4. \A s \in Slot \ {f} : written[s] = Entry(p, s)
    BY <1>1, <2>2, <2>3 DEF Entry
  <2> HIDE DEF written
  <2>5. \A s \in Slot : Entry(p, s).in_use => written[s] = Entry(p, s)
    BY <2>2, <2>4
  <2> QED
    BY <1>1, <1>3, <2>5, RewrittenStay
<1> QED
  BY <1>2, <1>3 DEF LinkEntry, ram

LEMMA StepKeepsDirs == LinkInv /\ [Step]_vars => DirsStay
<1> SUFFICES ASSUME LinkInv, [Step]_vars PROVE DirsStay
  OBVIOUS
<1>0. TypeOK /\ Owned /\ SavedInv
  BY DEF LinkInv, BlockInv, TypeInv
<1>1. CASE UNCHANGED vars
  BY <1>0, <1>1, UntouchedStay DEF vars, ram, disk
<1>2. CASE BootInstalled
  BY <1>0, <1>2, UntouchedStay DEF BootInstalled, disk, SavedInv, Settled
<1>3. CASE InstallRoot
  <2>1. inode_table = [i \in Inode |-> FreeInode]
    BY <1>3 DEF InstallRoot, LinkInv, BlockInv, InstalledInv, SavedInv, Settled
  <2> QED
    BY <2>1 DEF DirsStay, FreeInode
<1>4. CASE InstallSyncSuperblock \/ InstallSyncInodes \/ InstallNextDir \/ InstallFinish
  BY <1>0, <1>4, UntouchedStay DEF InstallSyncSuperblock, InstallSyncInodes,
     InstallNextDir, InstallFinish, ram, disk
<1>5. CASE InstallSyncBitmap
  BY <1>0, <1>5, UntouchedStay DEF InstallSyncBitmap, SavedInv
<1>6. CASE PowerOn \/ SwitchOff \/ Return \/ \E request \in Request : Call(request)
  BY <1>0, <1>6, UntouchedStay DEF PowerOn, SwitchOff, Return, Call, ram, disk
<1>7. CASE CreateDirEnter \/ CreateDirSyncInodes \/ CreateDirSyncBitmap
  BY <1>0, <1>7, UntouchedStay DEF CreateDirEnter, CreateDirSyncInodes,
     CreateDirSyncBitmap, ram, disk
<1>8. CASE CreateDirAlloc
  <2>1. CASE UNCHANGED <<ram, disk>>
    BY <1>0, <2>1, UntouchedStay DEF ram, disk
  <2>2. CASE /\ allocate_inode # NoInode /\ allocate_block # NoFreeBlock
             /\ inode_table' = [inode_table EXCEPT ![allocate_inode] =
                    [FreeInode EXCEPT !.type = "DIR", !.blocks[0] = allocate_block]]
             /\ \E sector : write_inode_block(allocate_block, sector)
    <3>1. PICK n \in Inode, b \in Block :
             /\ n = allocate_inode /\ inode_table[n].type = "FREE"
             /\ b = allocate_block /\ b \notin block_bitmap
      BY <2>2, AllocateInode, AllocateBlock
    <3>2. \A i \in Inode : \A c \in BlocksOf(i) : d_data'[c] = d_data[c]
      BY <1>0, <2>2, <3>1, NewBlockSpares
    <3>3. \A k \in Inode \ {n} : inode_table'[k] = inode_table[k]
      BY <1>0, <2>2, <3>1 DEF TypeOK, RamTypeOK
    <3> QED
      BY <1>0, <3>1, <3>2, <3>3, UntouchedStay
  <2> QED
    BY <1>8, <2>1, <2>2 DEF CreateDirAlloc
<1>9. CASE CreateDirLink
  BY <1>0, <1>9, LinkStays DEF CreateDirLink, LinkInv, Tidy, ParentInv, HoldsParent
<1>10. CASE CreateFileEnter \/ CreateFileParent
            \/ CreateFileSyncInodes \/ CreateFileSyncBitmap \/ CreateFileSyncSuperblock
  BY <1>0, <1>10, UntouchedStay DEF CreateFileEnter, CreateFileParent,
     CreateFileSyncInodes, CreateFileSyncBitmap, CreateFileSyncSuperblock, ram, disk
<1>11. CASE CreateFileAlloc
  <2>1. CASE allocate_inode = NoInode
    BY <1>0, <1>11, <2>1, UntouchedStay DEF CreateFileAlloc, ram, disk
  <2>2. CASE allocate_inode # NoInode
    <3>1. PICK n \in Inode : n = allocate_inode /\ inode_table[n].type = "FREE"
      BY <2>2, AllocateInode
    <3>2. d_data' = d_data /\ \A k \in Inode \ {n} : inode_table'[k] = inode_table[k]
      BY <1>0, <1>11, <2>2, <3>1 DEF CreateFileAlloc, disk, TypeOK, RamTypeOK
    <3> QED
      BY <1>0, <3>1, <3>2, UntouchedStay
  <2> QED
    BY <2>1, <2>2
<1>12. CASE CreateFileData
  <2>0. PICK n \in Inode : n = frame.inode /\ inode_table[n].type = "FILE"
    BY <1>0, <1>12 DEF CreateFileData, LinkInv, BlockInv, LoopInv, TypeOK, ControlTypeOK,
       Frame
  <2>1. CASE GiveBack
    <3>1. d_data' = d_data /\ \A k \in Inode \ {n} : inode_table'[k] = inode_table[k]
      BY <1>0, <2>0, <2>1 DEF GiveBack, free_inode, disk, TypeOK, RamTypeOK
    <3> QED
      BY <1>0, <2>0, <3>1, UntouchedStay
  <2>2. CASE /\ allocate_block # NoFreeBlock
             /\ inode_table' = [inode_table EXCEPT
                    ![frame.inode].blocks[frame.i] = allocate_block]
             /\ write_inode_block(allocate_block,
                                  ChunkSector(task.content[frame.i + 1]))
    <3>1. PICK b \in Block : b = allocate_block /\ b \notin block_bitmap
      BY <2>2, AllocateBlock
    <3>2. \A i \in Inode : \A c \in BlocksOf(i) : d_data'[c] = d_data[c]
      BY <1>0, <2>2, <3>1, NewBlockSpares
    <3>3. \A k \in Inode \ {n} : inode_table'[k] = inode_table[k]
      BY <1>0, <2>0, <2>2 DEF TypeOK, RamTypeOK
    <3> QED
      BY <1>0, <2>0, <3>2, <3>3, UntouchedStay
  <2> QED
    BY <1>12, <2>1, <2>2 DEF CreateFileData
<1>13. CASE CreateFileLink
  BY <1>0, <1>13, LinkStays DEF CreateFileLink, LinkInv, Tidy, ParentInv, HoldsParent,
     BlockInv, LoopInv
<1>14. CASE DeleteFileEnter
  <2> DEFINE parent == find_inode_by_path(Parent(task.path))
             file == find_inode_by_path(task.path)
             left == WithoutEntry(dir_entries(parent), file)
  <2>1. CASE UNCHANGED <<ram, disk>>
    BY <1>0, <2>1, UntouchedStay DEF ram, disk
  <2>2. CASE /\ fs_file_exists(task.path)
             /\ free_inode(file)
             /\ write_inode_block(inode_table[parent].blocks[0], DirSector(left))
    <3>1. PICK p \in Inode, i \in Inode :
             /\ p = parent /\ inode_table[p].type = "DIR"
             /\ i = file /\ inode_table[i].type = "FILE"
      BY <1>0, <1>14, <2>2, DeletedFrom DEF DeleteFileEnter
    <3>2. \A k \in Inode \ {i} : inode_table'[k] = inode_table[k]
      BY <1>0, <2>2, <3>1 DEF free_inode, TypeOK, RamTypeOK
    <3>3. \A s \in Slot :
             (Entry(p, s).in_use /\ inode_table[Entry(p, s).inode].type = "DIR")
                 => left[s] = Entry(p, s)
      <4> DEFINE hits == {s \in Slot : dir_entries(p)[s].in_use
                                       /\ dir_entries(p)[s].inode = i}
      <4>1. left = IF hits = {} THEN dir_entries(p)
                   ELSE [dir_entries(p) EXCEPT ![First(hits)] = FreeEntry]
        BY <3>1 DEF WithoutEntry
      <4>2. dir_entries(p) \in [Slot -> DirEntry]
        BY <1>0, EntriesType
      <4>3. hits # {} => First(hits) \in Slot /\ Entry(p, First(hits)).inode = i
        <5>1. hits \in SUBSET Nat
          BY SizesAssumption DEF Slot
        <5> QED
          BY <5>1, FirstProperty DEF Entry
      <4> HIDE DEF hits, left
      <4> QED
        BY <3>1, <4>1, <4>2, <4>3 DEF Entry
    <3> HIDE DEF left
    <3> QED
      BY <1>0, <2>2, <3>1, <3>2, <3>3, RewrittenStay
  <2> QED
    BY <1>14, <2>1, <2>2 DEF DeleteFileEnter
<1>15. CASE DeleteSyncInodes \/ DeleteSyncBitmap
  BY <1>0, <1>15, UntouchedStay DEF DeleteSyncInodes, DeleteSyncBitmap, ram
<1> QED
  BY <1>1, <1>2, <1>3, <1>4, <1>5, <1>6, <1>7, <1>8, <1>9, <1>10, <1>11, <1>12,
     <1>13, <1>14, <1>15, CallsAssumption
     DEF Step, Next, Kernel, User, Boot, Install, CreateDir, CreateFile, DeleteFile

=============================================================================
