------------------------- MODULE FileSystemPathProofs -------------------------
(***************************************************************************)
(* Theorems about the paths of FileSystem: that under PlainCalls an inode  *)
(* has one path, that a call changes what is found at the paths it is      *)
(* about and nowhere else, what the shell then sees there and what an      *)
(* installation lays out; that, where there is room for the entries, no    *)
(* inode is left without one; and that the file system then implements     *)
(* FileTree.                                                               *)
(***************************************************************************)
EXTENDS FileSystemTreeProofs

-----------------------------------------------------------------------------
(* Entries with a name, and the paths they make                            *)

\* Entry s of directory d carries a name, other than "." and "..".
Named(d, s) == Entry(d, s).in_use /\ Entry(d, s).name \in Name

Edge(d, n, i) ==
    d \in Directories /\ \E s \in Slot : /\ Named(d, s)
                                         /\ Entry(d, s).name = n
                                         /\ Entry(d, s).inode = i

\* A name stands once in a directory, an inode has one name, the root none.
NamesOnce ==
    \A d \in Directories : \A s, t \in Slot :
        (Named(d, s) /\ Named(d, t) /\ Entry(d, s).name = Entry(d, t).name) => s = t
NamedOnce ==
    \A c, d \in Directories : \A s, t \in Slot :
        (Named(c, s) /\ Named(d, t) /\ Entry(c, s).inode = Entry(d, t).inode)
            => c = d /\ s = t
RootUnnamed ==
    \A d \in Directories : \A s \in Slot : Named(d, s) => Entry(d, s).inode # Root

NamesInv == NamesOnce /\ NamedOnce /\ RootUnnamed

\* A path leads to an inode over its edges and no other way.
Walked ==
    /\ path_walk[<< >>] = Root
    /\ \A p \in NamedPath : path_walk[p] \in Found
    /\ \A p \in NamedPath \ {<< >>} : \A d \in Found : \A i \in Inode :
           path_walk[Parent(p)] = d => (path_walk[p] = i <=> Edge(d, FileName(p), i))

LEMMA NamedPathParts ==
    /\ << >> \in NamedPath
    /\ NamedPath \subseteq Path
    /\ \A p \in NamedPath \ {<< >>} :
           /\ Parent(p) \in NamedPath /\ FileName(p) \in Name
           /\ Len(p) \in Nat \ {0} /\ Len(Parent(p)) = Len(p) - 1
           /\ Parent(p) # p
<1>1. << >> \in NamedPath
  BY EmptySeq DEF NamedPath
<1>2. NamedPath \subseteq Path
  <2> SUFFICES ASSUME NEW p \in NamedPath PROVE p \in Path
    OBVIOUS
  <2>1. Len(p) \in Nat /\ p \in [1 .. Len(p) -> Name]
    BY LenProperties DEF NamedPath
  <2>2. p \in [1 .. Len(p) -> Component]
    BY <2>1 DEF Component
  <2> QED
    BY <2>1, <2>2 DEF Path
<1>3. ASSUME NEW p \in NamedPath \ {<< >>}
      PROVE  /\ Parent(p) \in NamedPath /\ FileName(p) \in Name
             /\ Len(p) \in Nat \ {0} /\ Len(Parent(p)) = Len(p) - 1
             /\ Parent(p) # p
  <2>1. /\ Parent(p) \in NamedPath /\ FileName(p) \in Name
        /\ Len(p) \in Nat \ {0} /\ Len(Parent(p)) = Len(p) - 1
    BY ParentSeq DEF NamedPath
  <2> QED
    BY <2>1
<1> QED
  BY <1>1, <1>2, <1>3

\* Paths with the same parent and the same name are the same.
LEMMA SamePath ==
    ASSUME NEW p \in NamedPath \ {<< >>}, NEW q \in NamedPath \ {<< >>},
           Parent(p) = Parent(q), FileName(p) = FileName(q)
    PROVE  p = q
<1>1. /\ Len(p) \in Nat \ {0} /\ Len(Parent(p)) = Len(p) - 1
      /\ \A k \in 1 .. Len(p) - 1 : Parent(p)[k] = p[k]
      /\ Len(q) \in Nat \ {0} /\ Len(Parent(q)) = Len(q) - 1
      /\ \A k \in 1 .. Len(q) - 1 : Parent(q)[k] = q[k]
  BY ParentSeq DEF NamedPath
<1>2. Len(p) = Len(q)
  BY <1>1
<1>3. \A k \in 1 .. Len(p) : p[k] = q[k]
  <2> SUFFICES ASSUME NEW k \in 1 .. Len(p) PROVE p[k] = q[k]
    OBVIOUS
  <2>1. CASE k \in 1 .. Len(p) - 1
    BY <1>1, <1>2, <2>1
  <2>2. CASE k = Len(p)
    BY <1>2, <2>2 DEF FileName
  <2> QED
    BY <1>1, <2>1, <2>2
<1> QED
  BY <1>2, <1>3, SeqEqual DEF NamedPath

\* One step of find_inode_by_path, when names are not repeated.
LEMMA LookupEdge ==
    ASSUME TypeOK, NamesOnce, NEW d \in Found, NEW n \in Name, NEW i \in Inode
    PROVE  dir_lookup[d][n] = i <=> Edge(d, n, i)
<1> DEFINE hits == {s \in Slot : dir_entries(d)[s].in_use
                                 /\ dir_entries(d)[s].name = n}
<1>1. dir_lookup[d][n] =
        IF ~ IsDirectory(d) \/ inode_table[d].blocks[0] = NoBlock \/ hits = {}
        THEN NoInode
        ELSE dir_entries(d)[First(hits)].inode
  BY DEF dir_lookup, Found, Component
<1>2. hits = {s \in Slot : Named(d, s) /\ Entry(d, s).name = n}
  BY DEF Named, Entry
<1>3. hits \in SUBSET Nat
  BY SizesAssumption DEF Slot
<1>4. i # NoInode
  BY ConstantTypes
<1> HIDE DEF hits
<1>5. hits # {} => First(hits) \in hits
  BY <1>3, FirstProperty
<1>6. (IsDirectory(d) /\ inode_table[d].blocks[0] # NoBlock) <=> d \in Directories
  BY ConstantTypes DEF IsDirectory, Directories, Found
<1>7. ASSUME dir_lookup[d][n] = i PROVE Edge(d, n, i)
  BY <1>1, <1>2, <1>4, <1>5, <1>6, <1>7 DEF Edge, Entry
<1>8. ASSUME Edge(d, n, i) PROVE dir_lookup[d][n] = i
  <2>1. PICK s \in Slot : d \in Directories /\ Named(d, s) /\ Entry(d, s).name = n
                          /\ Entry(d, s).inode = i
    BY <1>8 DEF Edge
  <2>2. \A t \in hits : t = s
    BY <1>2, <2>1 DEF NamesOnce
  <2>3. hits # {} /\ First(hits) = s
    BY <1>2, <1>5, <2>1, <2>2
  <2> QED
    BY <1>1, <1>6, <2>1, <2>3 DEF Entry
<1> QED
  BY <1>7, <1>8

LEMMA PathsWalked == TypeOK /\ NamesOnce => Walked
<1> SUFFICES ASSUME TypeOK, NamesOnce PROVE Walked
  OBVIOUS
<1>1. path_walk[<< >>] = Root
  BY NamedPathParts, PathWalk
<1>2. \A p \in NamedPath : path_walk[p] \in Found
  BY NamedPathParts, FindWalk
<1>3. ASSUME NEW p \in NamedPath \ {<< >>}, NEW d \in Found, NEW i \in Inode,
             path_walk[Parent(p)] = d
      PROVE  path_walk[p] = i <=> Edge(d, FileName(p), i)
  <2>1. path_walk[p] = dir_lookup[d][FileName(p)]
    BY <1>3, NamedPathParts, PathWalk
  <2>2. FileName(p) \in Name
    BY NamedPathParts
  <2> QED
    BY <2>1, <2>2, LookupEdge
<1> QED
  BY <1>1, <1>2, <1>3 DEF Walked

\* Induction over the paths.
LEMMA PathInduction ==
    ASSUME NEW P, << >> \in P,
           \A p \in NamedPath \ {<< >>} : Parent(p) \in P => p \in P
    PROVE  NamedPath \subseteq P
BY SeqInduction DEF NamedPath

(***************************************************************************)
(* An inode has one path at most.                                          *)
(***************************************************************************)
LEMMA OnePath ==
    ASSUME Walked, NamedOnce, RootUnnamed
    PROVE  \A p, q \in NamedPath :
               path_walk[p] \in Inode /\ path_walk[q] = path_walk[p] => p = q
<1> DEFINE P == {p \in NamedPath : \A q \in NamedPath :
                    path_walk[p] \in Inode /\ path_walk[q] = path_walk[p] => p = q}
<1>0. Root \in Inode
  BY ConstantTypes DEF Root
<1>1. \A p \in NamedPath \ {<< >>} : path_walk[p] # Root
  BY <1>0, NamedPathParts DEF Walked, Edge, RootUnnamed
<1>2. << >> \in P
  BY <1>1, NamedPathParts DEF Walked
<1>3. ASSUME NEW p \in NamedPath \ {<< >>}, Parent(p) \in P PROVE p \in P
  <2> SUFFICES ASSUME NEW q \in NamedPath, NEW i \in Inode,
                      path_walk[p] = i, path_walk[q] = i
               PROVE  p = q
    OBVIOUS
  <2>1. q # << >>
    BY <1>1 DEF Walked
  <2>2. /\ Edge(path_walk[Parent(p)], FileName(p), i)
        /\ Edge(path_walk[Parent(q)], FileName(q), i)
    BY <2>1, NamedPathParts DEF Walked
  <2>3. path_walk[Parent(p)] = path_walk[Parent(q)] /\ FileName(p) = FileName(q)
        /\ path_walk[Parent(p)] \in Inode
    BY <2>2 DEF Edge, NamedOnce, Directories
  <2>4. Parent(p) = Parent(q)
    BY <1>3, <2>1, <2>3, NamedPathParts
  <2> QED
    BY <2>1, <2>3, <2>4, SamePath
<1> HIDE DEF P
<1>4. NamedPath \subseteq P
  BY <1>2, <1>3, PathInduction
<1> QED
  BY <1>4 DEF P

\* Where the entries stay, every path leads where it led.
LEMMA SameWalks ==
    ASSUME Walked, Walked',
           \A d \in Inode : \A n \in Name : \A i \in Inode : Edge(d, n, i)' <=> Edge(d, n, i)
    PROVE  \A p \in NamedPath : path_walk'[p] = path_walk[p]
<1> DEFINE P == {p \in NamedPath : path_walk'[p] = path_walk[p]}
<1>1. << >> \in P
  BY NamedPathParts DEF Walked
<1>2. ASSUME NEW p \in NamedPath \ {<< >>}, Parent(p) \in P PROVE p \in P
  <2>1. PICK d \in Found : d = path_walk[Parent(p)] /\ d = path_walk'[Parent(p)]
    BY <1>2, NamedPathParts DEF Walked
  <2>2. \A i \in Inode : Edge(d, FileName(p), i)' <=> Edge(d, FileName(p), i)
    BY NamedPathParts DEF Edge, Directories
  <2>3. /\ \A i \in Inode : path_walk[p] = i <=> Edge(d, FileName(p), i)
        /\ \A i \in Inode : path_walk'[p] = i <=> Edge(d, FileName(p), i)'
    BY <2>1 DEF Walked
  <2>4. path_walk[p] \in Found /\ path_walk'[p] \in Found
    BY DEF Walked
  <2> QED
    BY <2>2, <2>3, <2>4, ConstantTypes DEF Found
<1> HIDE DEF P
<1>3. NamedPath \subseteq P
  BY <1>1, <1>2, PathInduction
<1> QED
  BY <1>3 DEF P

(***************************************************************************)
(* Where only the entry for the last name of one path changes, and nothing *)
(* is below that path, every other path leads where it led.                *)
(***************************************************************************)
LEMMA OtherWalks ==
    ASSUME Walked, Walked', NamedOnce, RootUnnamed,
           NEW target \in NamedPath \ {<< >>},
           NEW c \in Inode, path_walk[Parent(target)] = c,
           \A d \in Inode : \A n \in Name : \A i \in Inode :
               ~ (d = c /\ n = FileName(target)) => (Edge(d, n, i)' <=> Edge(d, n, i)),
           \A i \in Inode : Edge(c, FileName(target), i) \/ Edge(c, FileName(target), i)' =>
               \A n \in Name : \A j \in Inode : ~ Edge(i, n, j) /\ ~ Edge(i, n, j)'
    PROVE  \A p \in NamedPath \ {target} : path_walk'[p] = path_walk[p]
<1> DEFINE P == {p \in NamedPath :
                    IF p = target THEN path_walk'[Parent(p)] = path_walk[Parent(p)]
                    ELSE path_walk'[p] = path_walk[p]}
<1>1. << >> \in P
  BY NamedPathParts DEF Walked
<1>2. ASSUME NEW p \in NamedPath \ {<< >>}, Parent(p) \in P PROVE p \in P
  <2>0. Parent(p) \in NamedPath /\ FileName(p) \in Name /\ Parent(p) # p
    BY NamedPathParts
  <2>1. CASE p = target
    BY <1>2, <2>0, <2>1
  <2>2. CASE p # target /\ Parent(p) = target
    <3>1. path_walk'[Parent(target)] = c
      BY <1>2, <2>2
    <3>2. /\ \A i \in Inode : path_walk[target] = i => Edge(c, FileName(target), i)
          /\ \A i \in Inode : path_walk'[target] = i => Edge(c, FileName(target), i)'
      BY <3>1 DEF Walked, Found
    <3>3. \A i \in Inode : path_walk[target] = i \/ path_walk'[target] = i =>
             \A j \in Inode : ~ Edge(i, FileName(p), j) /\ ~ Edge(i, FileName(p), j)'
      BY <2>0, <3>2
    <3>4. PICK d \in Found, e \in Found : d = path_walk[target] /\ e = path_walk'[target]
      BY DEF Walked
    <3>5. \A j \in Inode : ~ Edge(d, FileName(p), j) /\ ~ Edge(e, FileName(p), j)'
      BY <3>3, <3>4 DEF Edge, Directories
    <3>7. /\ \A j \in Inode : path_walk[p] # j
          /\ \A j \in Inode : path_walk'[p] # j
      BY <2>2, <3>4, <3>5 DEF Walked
    <3>6. path_walk[p] \in Found /\ path_walk'[p] \in Found
      BY DEF Walked
    <3> QED
      BY <2>2, <3>6, <3>7 DEF Found
  <2>3. CASE p # target /\ Parent(p) # target
    <3>1. PICK d \in Found : d = path_walk[Parent(p)] /\ d = path_walk'[Parent(p)]
      BY <1>2, <2>0, <2>3 DEF Walked
    <3>2. ~ (d = c /\ FileName(p) = FileName(target))
      <4>1. ASSUME d = c PROVE Parent(p) = Parent(target)
        BY <2>0, <3>1, <4>1, NamedPathParts, OnePath
      <4> QED
        BY <2>3, <4>1, SamePath
    <3>3. \A i \in Inode : Edge(d, FileName(p), i)' <=> Edge(d, FileName(p), i)
      <4>1. CASE d \in Inode
        BY <2>0, <3>2, <4>1
      <4>2. CASE d \notin Inode
        BY <4>2 DEF Edge, Directories
      <4> QED
        BY <4>1, <4>2
    <3>4. /\ \A i \in Inode : path_walk[p] = i <=> Edge(d, FileName(p), i)
          /\ \A i \in Inode : path_walk'[p] = i <=> Edge(d, FileName(p), i)'
      BY <3>1 DEF Walked
    <3>5. path_walk[p] \in Found /\ path_walk'[p] \in Found
      BY DEF Walked
    <3> QED
      BY <2>3, <3>3, <3>4, <3>5, ConstantTypes DEF Found
  <2> QED
    BY <2>1, <2>2, <2>3
<1> HIDE DEF P
<1>3. NamedPath \subseteq P
  BY <1>1, <1>2, PathInduction
<1> QED
  BY <1>3 DEF P

-----------------------------------------------------------------------------
(* What a step does to the entries that have a name                        *)

\* Directory i, or what is not a directory, has no entry with a name.
Empty(i) == i \in Directories => \A s \in Slot : ~ Named(i, s)

SameNames ==
    /\ \A d \in Directories' : \A s \in Slot :
           Named(d, s)' => d \in Directories /\ Entry(d, s)' = Entry(d, s)
    /\ \A d \in Directories : \A s \in Slot :
           Named(d, s) => d \in Directories' /\ Entry(d, s)' = Entry(d, s)

SameEdges ==
    \A d \in Inode : \A n \in Name : \A i \in Inode : Edge(d, n, i)' <=> Edge(d, n, i)

LEMMA NamesStay ==
    ASSUME NamesInv, SameNames
    PROVE  NamesInv' /\ SameEdges /\ \A i : Empty(i) => Empty(i)'
<1>1. /\ \A d \in Directories' : \A s \in Slot : Named(d, s)' =>
             d \in Directories /\ Named(d, s) /\ Entry(d, s)' = Entry(d, s)
      /\ \A d \in Directories : \A s \in Slot : Named(d, s) =>
             d \in Directories' /\ Named(d, s)' /\ Entry(d, s)' = Entry(d, s)
  BY DEF SameNames, Named
<1>2. NamesInv'
  BY <1>1 DEF NamesInv, NamesOnce, NamedOnce, RootUnnamed
<1>3. SameEdges
  BY <1>1 DEF SameEdges, Edge
<1>4. \A i : Empty(i) => Empty(i)'
  BY <1>1 DEF Empty
<1> QED
  BY <1>2, <1>3, <1>4

\* Directories keep their entries, or are new.
SameOrNew ==
    \A d \in Directories' :
        \/ d \in Directories /\ \A s \in Slot : Entry(d, s)' = Entry(d, s)
        \/ \E p \in Inode : \A s \in Slot :
               Entry(d, s)' = IF s \in StoredSlot THEN NewDirectory(d, p)[s] ELSE FreeEntry

\* One inode changes that nothing names, or its block.
LEMMA PrivateChange ==
    ASSUME NEW i \in Inode,
           \A k \in Inode \ {i} : inode_table'[k] = inode_table[k],
           \A d \in Directories \ {i} :
               d_data'[inode_table[d].blocks[0]] = d_data[inode_table[d].blocks[0]],
           Empty(i), Empty(i)'
    PROVE  /\ SameNames
           /\ \A d \in Directories' \ {i} :
                  d \in Directories /\ \A s \in Slot : Entry(d, s)' = Entry(d, s)
<1>1. \A d \in Inode \ {i} : d \in Directories' <=> d \in Directories
  BY DEF Directories
<1>2. \A d \in Directories \ {i} : \A s \in Slot : Entry(d, s)' = Entry(d, s)
  <2> SUFFICES ASSUME NEW d \in Directories \ {i}
               PROVE  \A s \in Slot : Entry(d, s)' = Entry(d, s)
    OBVIOUS
  <2>1. d \in Inode /\ inode_table'[d] = inode_table[d]
    BY DEF Directories
  <2> QED
    BY <2>1, DirKept
<1>3. Directories \subseteq Inode /\ Directories' \subseteq Inode
  BY DEF Directories
<1> QED
  BY <1>1, <1>2, <1>3 DEF SameNames, Empty

\* Nothing a lookup reads changes.
LEMMA QuietNames ==
    ASSUME inode_table' = inode_table, d_data' = d_data
    PROVE  SameNames /\ SameOrNew
<1>1. Directories' = Directories
  BY DEF Directories
<1>2. \A d \in Directories : \A s \in Slot : Entry(d, s)' = Entry(d, s)
  BY DirKept DEF Directories
<1> QED
  BY <1>1, <1>2 DEF SameNames, SameOrNew

\* The block of a new directory has no entry but "." and "..".
LEMMA NewIsEmpty ==
    ASSUME TypeOK, NEW i \in Inode, NEW p \in Inode, NEW b \in Block,
           inode_table'[i].blocks[0] = b,
           write_inode_block(b, DirSector(NewDirectory(i, p)))
    PROVE  Empty(i)'
<1> SUFFICES ASSUME i \in Directories', NEW s \in Slot PROVE ~ (Named(i, s)')
  BY DEF Empty
<1>1. b # NoBlock
  BY DEF Directories
<1>2. Entry(i, s)' = IF s \in StoredSlot THEN NewDirectory(i, p)[s] ELSE FreeEntry
  BY <1>1, DirRewritten
<1>3. Dot \notin Name /\ DotDot \notin Name
  BY NamesAssumption
<1>4. NewDirectory(i, p)[s].name \notin Name \/ NewDirectory(i, p)[s] = FreeEntry
  <2>1. CASE s = 0
    BY <1>3, <2>1 DEF NewDirectory
  <2>2. CASE s = 1
    BY <1>3, <2>2 DEF NewDirectory
  <2>3. CASE s # 0 /\ s # 1
    BY <2>3 DEF NewDirectory
  <2> QED
    BY <2>1, <2>2, <2>3
<1> QED
  BY <1>2, <1>4 DEF Named, FreeEntry

\* One entry of directory p is written.
LEMMA EntryWritten ==
    ASSUME TypeOK, Owned, NEW p \in Inode, inode_table[p].type = "DIR",
           NEW f \in Slot, NEW e,
           \A d \in Directories : inode_table'[d] = inode_table[d],
           write_inode_block(inode_table[p].blocks[0],
                             DirSector([dir_entries(p) EXCEPT ![f] = e]))
    PROVE  \A d \in Directories : \A s \in Slot :
               Entry(d, s)' = IF d = p /\ s = f /\ f \in StoredSlot THEN e ELSE Entry(d, s)
<1> SUFFICES ASSUME NEW d \in Directories
             PROVE  \A s \in Slot : Entry(d, s)' =
                        IF d = p /\ s = f /\ f \in StoredSlot THEN e ELSE Entry(d, s)
  OBVIOUS
<1>1. PICK b \in Block : b = inode_table[p].blocks[0]
  BY FirstBlockType
<1>2. d \in Inode /\ inode_table[d].blocks[0] # NoBlock /\ inode_table'[d] = inode_table[d]
  BY DEF Directories
<1>3. CASE d = p
  <2> DEFINE written == [dir_entries(p) EXCEPT ![f] = e]
  <2>1. dir_entries(p) \in [Slot -> DirEntry]
    BY EntriesType
  <2>2. \A s \in Slot : written[s] = IF s = f THEN e ELSE Entry(p, s)
    BY <2>1 DEF Entry
  <2>3. write_inode_block(b, DirSector(written))
    BY <1>1
  <2> HIDE DEF written
  <2>4. \A s \in Slot : Entry(p, s)' = IF s \in StoredSlot THEN written[s] ELSE FreeEntry
    BY <1>1, <1>2, <1>3, <2>3, DirRewritten
  <2>5. \A s \in Slot : s \notin StoredSlot => Entry(p, s) = FreeEntry
    BY EntryType
  <2> QED
    BY <1>3, <2>2, <2>4, <2>5
<1>4. CASE d # p
  <2>1. inode_table[d].blocks[0] \in Block /\ inode_table[d].blocks[0] # b
    BY <1>1, <1>4, DirBlocks
  <2>2. d_data'[inode_table[d].blocks[0]] = d_data[inode_table[d].blocks[0]]
    BY <1>1, <2>1, WriteSpares
  <2> QED
    BY <1>2, <1>4, <2>2, DirKept
<1> QED
  BY <1>3, <1>4

\* The entries that change are those called n in directory p.
OthersStay(p, n) ==
    \A d \in Inode : \A m \in Name : \A i \in Inode :
        ~ (d = p /\ m = n) => (Edge(d, m, i)' <=> Edge(d, m, i))

(***************************************************************************)
(* An inode that nothing names gets a name that is free in its directory,  *)
(* or the entry falls off the sector.                                      *)
(***************************************************************************)
LEMMA NameGiven ==
    ASSUME TypeOK, Owned, NamesInv, NEW p \in Inode, inode_table[p].type = "DIR",
           NEW i \in Inode \ {Root}, Unlinked(i), Empty(i),
           NEW n \in Name, \A j \in Inode : ~ Edge(p, n, j),
           NEW f \in Slot, ~ Entry(p, f).in_use,
           inode_table' = inode_table,
           write_inode_block(inode_table[p].blocks[0], DirSector([dir_entries(p) EXCEPT
               ![f] = [in_use |-> TRUE, name |-> n, inode |-> i]]))
    PROVE  /\ NamesInv'
           /\ OthersStay(p, n)
           /\ \A j \in Inode : Edge(p, n, j)' => j = i
           /\ \A j : j # p /\ Empty(j) => Empty(j)'
<1> DEFINE e == [in_use |-> TRUE, name |-> n, inode |-> i]
<1>1. Directories' = Directories
  BY DEF Directories
<1>2. \A d \in Directories : \A s \in Slot :
         Entry(d, s)' = IF d = p /\ s = f /\ f \in StoredSlot THEN e ELSE Entry(d, s)
  BY EntryWritten
<1>3. e.name = n /\ e.inode = i /\ e.in_use
  OBVIOUS
<1> HIDE DEF e
<1>4. \A d \in Directories : \A s \in Slot : Named(d, s) => Entry(d, s).inode # i
  BY DEF Unlinked, Empty, Named
<1>5. \A d \in Directories : \A s \in Slot :
         Named(d, s)' <=> Named(d, s) \/ (d = p /\ s = f /\ f \in StoredSlot)
  BY <1>2, <1>3 DEF Named
<1>6. \A s \in Slot : p \in Directories /\ Named(p, s) => Entry(p, s).name # n
  <2> SUFFICES ASSUME NEW s \in Slot, p \in Directories, Named(p, s),
                      Entry(p, s).name = n
               PROVE  FALSE
    OBVIOUS
  <2>1. Entry(p, s).inode \in Inode
    BY EntryType DEF DirEntry
  <2>2. Edge(p, n, Entry(p, s).inode)
    BY DEF Edge
  <2> QED
    BY <2>1, <2>2
<1>7. \A s \in Slot : p \in Directories /\ Named(p, s) => s # f
  BY DEF Named
<1>8. NamesOnce'
  BY <1>1, <1>2, <1>3, <1>5, <1>6, <1>7 DEF NamesInv, NamesOnce
<1>9. NamedOnce'
  BY <1>1, <1>2, <1>3, <1>4, <1>5, <1>7 DEF NamesInv, NamedOnce
<1>10. RootUnnamed'
  BY <1>1, <1>2, <1>3, <1>5, <1>7 DEF NamesInv, RootUnnamed
<1>11. OthersStay(p, n)
  BY <1>1, <1>2, <1>3, <1>5, <1>7 DEF OthersStay, Edge
<1>12. \A j \in Inode : Edge(p, n, j)' => j = i
  BY <1>1, <1>2, <1>3, <1>5, <1>6, <1>7 DEF Edge
<1>13. \A j : j # p /\ Empty(j) => Empty(j)'
  BY <1>1, <1>5 DEF Empty
<1> QED
  BY <1>8, <1>9, <1>10, <1>11, <1>12, <1>13 DEF NamesInv

(***************************************************************************)
(* The entry of a file is cleared, and with it the file's only name.       *)
(***************************************************************************)
LEMMA NameTaken ==
    ASSUME TypeOK, Owned, NamesInv, OneLink,
           NEW p \in Inode, inode_table[p].type = "DIR",
           NEW i \in Inode, inode_table[i].type = "FILE",
           NEW n \in Name, Edge(p, n, i),
           inode_table' = [inode_table EXCEPT ![i] = FreeInode],
           write_inode_block(inode_table[p].blocks[0],
                             DirSector(WithoutEntry(dir_entries(p), i)))
    PROVE  /\ NamesInv'
           /\ OthersStay(p, n)
           /\ \A j \in Inode : ~ (Edge(p, n, j)')
           /\ Directories' = Directories
           /\ \E t \in Slot :
                  /\ p \in Directories /\ Named(p, t)
                  /\ \A d \in Directories : \A s \in Slot :
                         Entry(d, s)' = IF d = p /\ s = t THEN FreeEntry ELSE Entry(d, s)
<1>1. PICK t \in Slot : /\ p \in Directories /\ Named(p, t)
                        /\ Entry(p, t).name = n /\ Entry(p, t).inode = i
  BY DEF Edge
<1>2. WithoutEntry(dir_entries(p), i) = [dir_entries(p) EXCEPT ![t] = FreeEntry]
  <2> DEFINE hits == {s \in Slot : dir_entries(p)[s].in_use
                                   /\ dir_entries(p)[s].inode = i}
  <2>1. hits = {t}
    <3>1. t \in hits
      BY <1>1 DEF Named, Entry
    <3>2. \A s \in hits : s = t
      BY <1>1 DEF Named, Entry, OneLink
    <3> QED
      BY <3>1, <3>2
  <2>2. First(hits) = t
    <3>1. hits \in SUBSET Nat
      BY SizesAssumption DEF Slot
    <3> QED
      BY <2>1, <3>1, FirstProperty
  <2> QED
    BY <2>1, <2>2 DEF WithoutEntry
<1>3. \A k \in Inode \ {i} : inode_table'[k] = inode_table[k]
      /\ inode_table'[i].type = "FREE"
  BY DEF TypeOK, RamTypeOK, FreeInode
<1>4. Directories' = Directories /\ \A d \in Directories : inode_table'[d] = inode_table[d]
  BY <1>3 DEF Directories, TypeOK, RamTypeOK, FreeInode
<1>5. \A d \in Directories : \A s \in Slot :
         Entry(d, s)' = IF d = p /\ s = t /\ t \in StoredSlot THEN FreeEntry ELSE Entry(d, s)
  BY <1>2, <1>4, EntryWritten
<1>6. t \in StoredSlot
  BY <1>1, EntryType DEF Named, FreeEntry
<1>7. \A d \in Directories : \A s \in Slot :
         /\ Named(d, s)' <=> Named(d, s) /\ ~ (d = p /\ s = t)
         /\ ~ (d = p /\ s = t) => Entry(d, s)' = Entry(d, s)
  BY <1>5, <1>6 DEF Named, FreeEntry
<1>8. NamesInv'
  BY <1>4, <1>7 DEF NamesInv, NamesOnce, NamedOnce, RootUnnamed
<1>9. OthersStay(p, n)
  BY <1>1, <1>4, <1>7 DEF OthersStay, Edge
<1>10. \A j \in Inode : ~ (Edge(p, n, j)')
  BY <1>1, <1>4, <1>7 DEF Edge, NamesInv, NamesOnce
<1> QED
  BY <1>1, <1>4, <1>5, <1>6, <1>8, <1>9, <1>10

-----------------------------------------------------------------------------
(* Where a call is, in terms of the paths it is about                      *)

Absent(p) == path_walk[p] = NoInode
ParentFound == path_walk[Parent(task.path)] = frame.parent

\* The task is one of the calls, and frame.dir the directory it has to make.
CalledInv ==
    /\ task.op \notin {"none", "install"} => task \in Requests
    /\ pc \in {"delete_file", "delete_inodes", "delete_bitmap"} =>
           task.op \in {"create_file", "delete_file"}
    /\ pc \in {"install_superblock", "install_inodes", "install_bitmap", "install_dirs"}
           => task.op = "install"
DirInv ==
    pc \in DirLabel \cup {"create_dir"} =>
        \/ task.op = "create_dir" /\ frame.dir = task.path
        \/ task.op = "create_file" /\ frame.dir = Parent(task.path)
        \/ task.op = "install" /\ \E k \in DOMAIN InstallDirs : frame.dir = InstallDirs[k]

\* The directory being made is not there before its entry is written, and
\* empty after it; nor is the file; and both have the parent the call holds.
PlaceInv ==
    /\ pc \in {"dir_alloc", "dir_link"} => Absent(Prefix(frame.dir, frame.depth))
    /\ pc = "dir_link" =>
           path_walk[Prefix(frame.dir, frame.depth - 1)] = frame.parent
    /\ pc \in {"dir_link", "dir_inodes", "dir_bitmap", "file_inodes"} => Empty(frame.inode)
    /\ pc \in {"dir_inodes", "dir_bitmap"} =>
           path_walk[Prefix(frame.dir, frame.depth)] \in {frame.inode, NoInode}
    /\ (HoldsParent /\ pc # "dir_link") => ParentFound
    /\ (pc = "delete_file" /\ task.op = "create_file") => ~ Absent(task.path)
    /\ pc \in {"file_alloc", "file_data", "delete_inodes", "delete_bitmap"} =>
           Absent(task.path)
    /\ pc \in {"file_inodes", "file_bitmap", "file_superblock"} =>
           path_walk[task.path] \in {frame.inode, NoInode}
    /\ \A p \in NamedPath :
           /\ pc = "dir_inodes" /\ path_walk[p] = frame.inode
                  => p = Prefix(frame.dir, frame.depth)
           /\ pc = "file_inodes" /\ path_walk[p] = frame.inode => p = task.path

\* Directories stand where no call puts a file.
KindInv ==
    \A p \in NamedPath : \A i \in Inode :
        path_walk[p] = i /\ inode_table[i].type = "DIR" => p \in DirPaths

PathInv == NamesInv /\ CalledInv /\ DirInv /\ PlaceInv /\ KindInv

LEMMA FrontParts ==
    ASSUME NEW p \in NamedPath, NEW k \in 1 .. Len(p)
    PROVE  /\ Prefix(p, k) \in NamedPath \ {<< >>}
           /\ Prefix(p, k - 1) \in NamedPath
           /\ Parent(Prefix(p, k)) = Prefix(p, k - 1)
           /\ Prefix(p, Len(p)) = p
           /\ Prefix(p, k) \in Fronts(p)
<1>1. Len(p) \in Nat /\ \A j \in 1 .. Len(p) : p[j] \in Name
  BY LenProperties DEF NamedPath
<1>2. ASSUME NEW j \in 0 .. Len(p)
      PROVE  /\ Prefix(p, j) \in NamedPath /\ Len(Prefix(p, j)) = j
             /\ \A l \in 1 .. j : Prefix(p, j)[l] = p[l]
  <2>1. 1 \in Int /\ j \in Int /\ \A l \in 1 .. j : p[l] \in Name
    BY <1>1
  <2>2. /\ SubSeq(p, 1, j) \in Seq(Name)
        /\ Len(SubSeq(p, 1, j)) = IF 1 <= j THEN j - 1 + 1 ELSE 0
        /\ \A l \in 1 .. j - 1 + 1 : SubSeq(p, 1, j)[l] = p[1 + l - 1]
    BY <1>1, <2>1, SubSeqProperties
  <2>3. \A l \in 1 .. j : l \in 1 .. j - 1 + 1 /\ 1 + l - 1 = l
    BY <2>1
  <2> QED
    BY <1>1, <2>2, <2>3 DEF Prefix, NamedPath
<1>3. k \in 0 .. Len(p) /\ k - 1 \in 0 .. Len(p) /\ Len(p) \in 0 .. Len(p)
  BY <1>1
<1>4. Prefix(p, k) # << >>
  BY <1>2, <1>3, EmptySeq
<1>5. Parent(Prefix(p, k)) = Prefix(p, k - 1)
  <2>1. /\ Parent(Prefix(p, k)) \in NamedPath
        /\ Len(Parent(Prefix(p, k))) = k - 1
        /\ \A l \in 1 .. k - 1 : Parent(Prefix(p, k))[l] = Prefix(p, k)[l]
    BY <1>2, <1>3, <1>4, ParentSeq DEF NamedPath
  <2>2. /\ Prefix(p, k - 1) \in NamedPath /\ Len(Prefix(p, k - 1)) = k - 1
        /\ \A l \in 1 .. k - 1 : Prefix(p, k - 1)[l] = p[l]
    BY <1>2, <1>3
  <2>3. \A l \in 1 .. k : Prefix(p, k)[l] = p[l]
    BY <1>2, <1>3
  <2>4. \A l \in 1 .. k - 1 : Parent(Prefix(p, k))[l] = Prefix(p, k - 1)[l]
    <3> SUFFICES ASSUME NEW l \in 1 .. k - 1
                 PROVE  Parent(Prefix(p, k))[l] = Prefix(p, k - 1)[l]
      OBVIOUS
    <3>1. l \in 1 .. k
      BY <1>1
    <3> QED
      BY <2>1, <2>2, <2>3, <3>1
  <2> HIDE DEF NamedPath
  <2> QED
    BY <2>1, <2>2, <2>4, SeqEqual DEF NamedPath
<1>6. Prefix(p, Len(p)) = p
  BY <1>2, <1>3, SeqEqual DEF NamedPath
<1> QED
  BY <1>2, <1>3, <1>4, <1>5, <1>6 DEF Fronts

\* What the hypothesis says of the paths in hand.
LEMMA PathsInHand ==
    ASSUME PlainCalls, TypeOK, CallInv, CalledInv, DirInv
    PROVE  /\ task.op \notin {"none", "install"} => task.path \in NamedPath
           /\ task.op = "create_file" /\ task.path # << >> =>
                  task.path \notin DirPaths /\ task.path \in FilePaths
           /\ pc \in DirLabel \cup {"create_dir"} =>
                  frame.dir \in NamedPath /\ Fronts(frame.dir) \subseteq DirPaths
<1>1. task.op \notin {"none", "install"} => task.path \in NamedPath
  BY DEF CalledInv, PlainCalls
<1>2. ASSUME task.op = "create_file", task.path # << >>
      PROVE  task.path \in FilePaths /\ Fronts(Parent(task.path)) \subseteq DirPaths
  <2>1. task \in Calls("create_file")
    BY <1>2 DEF CalledInv, Calls
  <2>2. Fronts(Parent(task.path)) \in
            {Fronts(Parent(request.path)) : request \in Calls("create_file")}
    BY <2>1
  <2>3. UNION {Fronts(Parent(request.path)) : request \in Calls("create_file")}
            \subseteq DirPaths
    BY DEF DirPaths
  <2>4. \A A, B : A \in B => A \subseteq UNION B
    OBVIOUS
  <2> QED
    BY <2>1, <2>2, <2>3, <2>4 DEF FilePaths
<1>3. ASSUME pc \in DirLabel \cup {"create_dir"}
      PROVE  frame.dir \in NamedPath /\ Fronts(frame.dir) \subseteq DirPaths
  <2>1. CASE task.op = "create_dir" /\ frame.dir = task.path
    <3>1. CASE task.path = << >>
      <4>1. Fronts(task.path) \subseteq {<< >>}
        <5> SUFFICES ASSUME NEW k \in 0 .. Len(<< >>) PROVE Prefix(<< >>, k) = << >>
          BY <3>1 DEF Fronts
        <5>1. k = 0
          BY EmptySeq
        <5> QED
          BY <5>1 DEF Prefix
      <4> QED
        BY <1>1, <2>1, <4>1 DEF DirPaths
    <3>2. CASE task.path # << >>
      <4>1. task \in Calls("create_dir")
        BY <2>1, <3>2 DEF CalledInv, Calls
      <4>2. Fronts(task.path) \in {Fronts(request.path) : request \in Calls("create_dir")}
        BY <4>1
      <4>3. UNION {Fronts(request.path) : request \in Calls("create_dir")}
                \subseteq DirPaths
        BY DEF DirPaths
      <4>4. \A A, B : A \in B => A \subseteq UNION B
        OBVIOUS
      <4> QED
        BY <1>1, <2>1, <4>2, <4>3, <4>4
    <3> QED
      BY <3>1, <3>2
  <2>2. CASE task.op = "create_file" /\ frame.dir = Parent(task.path)
    <3>1. task.path # << >>
      BY <1>3, <2>2 DEF CallInv, DirLabel
    <3> QED
      BY <1>1, <1>2, <2>2, <3>1, NamedPathParts
  <2>3. CASE task.op = "install" /\ \E k \in DOMAIN InstallDirs : frame.dir = InstallDirs[k]
    BY <2>3 DEF PlainCalls, DirPaths
  <2> QED
    BY <1>3, <2>1, <2>2, <2>3 DEF DirInv
<1> QED
  BY <1>1, <1>2, <1>3 DEF PlainCalls

-----------------------------------------------------------------------------
(* The steps that change what has a name                                   *)

\* What nothing names cannot be reached; what a path leads to is in use.
LEMMA NotWalked ==
    ASSUME Walked, NEW i \in Inode \ {Root}, Unlinked(i), Empty(i)
    PROVE  \A p \in NamedPath : path_walk[p] # i
<1> SUFFICES ASSUME NEW p \in NamedPath, path_walk[p] = i PROVE FALSE
  OBVIOUS
<1>1. p # << >>
  BY DEF Walked
<1>2. PICK d \in Found : d = path_walk[Parent(p)]
  BY <1>1, NamedPathParts DEF Walked
<1>3. Edge(d, FileName(p), i)
  BY <1>1, <1>2 DEF Walked
<1> QED
  BY <1>3 DEF Edge, Empty, Unlinked, Named

LEMMA LiveWalked ==
    ASSUME Walked, EntriesLive, NEW p \in NamedPath \ {<< >>}, path_walk[p] \in Inode
    PROVE  path_walk[p] \in Live
<1>1. PICK d \in Found : d = path_walk[Parent(p)]
  BY NamedPathParts DEF Walked
<1>2. Edge(d, FileName(p), path_walk[p])
  BY <1>1 DEF Walked
<1> QED
  BY <1>2 DEF Edge, Named, EntriesLive

\* The inode that has no entry yet.
Held(i) == pc \in {"dir_link", "file_data"} /\ i = frame.inode

\* Inodes in use stay as they are, but for the one that is made or given back.
SameInodes ==
    \A i \in Inode : (inode_table[i].type # "FREE" /\ ~ Held(i)) =>
        inode_table'[i] = inode_table[i]

\* fs_create_dir or fs_create_file writes the entry; fs_delete_file clears it.
Linking == pc' \in {"dir_inodes", "file_inodes"} /\ (CreateDirLink \/ CreateFileLink)
Deleting == pc' = "delete_inodes" /\ DeleteFileEnter

LEMMA QuietTypes ==
    ASSUME inode_table' = inode_table, d_data' = d_data
    PROVE  SameNames /\ SameInodes /\ SameOrNew
BY QuietNames DEF SameInodes

LEMMA GiveBackNames ==
    ASSUME TypeOK, GiveBack, pc \in {"dir_link", "file_data"},
           pc = "dir_link" => Empty(frame.inode), LoopInv
    PROVE  SameNames /\ SameInodes /\ SameOrNew
<1>1. PICK i \in Inode : i = frame.inode
  BY DEF TypeOK, ControlTypeOK, Frame
<1>2. /\ inode_table'[i].type = "FREE" /\ d_data' = d_data
      /\ \A k \in Inode \ {i} : inode_table'[k] = inode_table[k]
  BY <1>1 DEF GiveBack, free_inode, disk, FreeInode, TypeOK, RamTypeOK
<1>3. Empty(i) /\ Empty(i)' /\ i \notin Directories'
  BY <1>1, <1>2 DEF Empty, Directories, LoopInv
<1> QED
  BY <1>1, <1>2, <1>3, PrivateChange DEF SameInodes, Held, SameOrNew

LEMMA StepNames ==
    LinkInv /\ (pc = "dir_link" => Empty(frame.inode)) /\ [Step]_vars =>
        (SameNames /\ SameInodes /\ SameOrNew) \/ Linking \/ Deleting
<1> SUFFICES ASSUME LinkInv, pc = "dir_link" => Empty(frame.inode), [Step]_vars,
                    ~ Linking, ~ Deleting
             PROVE  SameNames /\ SameInodes /\ SameOrNew
  OBVIOUS
<1>0. TypeOK /\ Owned /\ SavedInv /\ LoopInv
  BY DEF LinkInv, BlockInv, TypeInv
<1>1. CASE UNCHANGED vars
  BY <1>1, QuietTypes DEF vars, ram, disk
<1>2. CASE BootInstalled
  BY <1>0, <1>2, QuietTypes DEF BootInstalled, disk, SavedInv, Settled
<1>3. CASE InstallRoot
  <2>1. inode_table = [i \in Inode |-> FreeInode]
    BY <1>3 DEF InstallRoot, LinkInv, BlockInv, InstalledInv, SavedInv, Settled
  <2>2. \A k \in Inode : inode_table[k].type = "FREE" /\ inode_table[k] = FreeInode
    BY <2>1 DEF FreeInode
  <2>3. Directories = {}
    BY <2>2 DEF Directories
  <2>4. PICK i \in Inode, b \in Block : i = Root /\ b = 1
    BY ConstantTypes DEF Root
  <2>5. /\ inode_table'[i].blocks[0] = b
        /\ write_inode_block(b, DirSector(NewDirectory(i, i)))
        /\ \A k \in Inode \ {i} : inode_table'[k] = inode_table[k]
    BY <1>3, <2>2, <2>4, ConstantTypes DEF InstallRoot, FreeInode
  <2>6. Empty(i) /\ Empty(i)'
    BY <1>0, <2>3, <2>5, NewIsEmpty DEF Empty
  <2> QED
    <3>1. b # NoBlock
      BY <2>4 DEF NoBlock
    <3>2. \A s \in Slot :
             Entry(i, s)' = IF s \in StoredSlot THEN NewDirectory(i, i)[s] ELSE FreeEntry
      BY <1>0, <2>5, <3>1, DirRewritten
    <3> QED
      BY <2>2, <2>3, <2>5, <2>6, <3>2, PrivateChange DEF SameInodes, SameOrNew
<1>4. CASE InstallSyncSuperblock \/ InstallSyncInodes \/ InstallNextDir \/ InstallFinish
  BY <1>4, QuietTypes DEF InstallSyncSuperblock, InstallSyncInodes, InstallNextDir,
     InstallFinish, ram, disk
<1>5. CASE InstallSyncBitmap
  BY <1>0, <1>5, QuietTypes DEF InstallSyncBitmap, SavedInv
<1>6. CASE PowerOn \/ SwitchOff \/ Return \/ \E request \in Request : Call(request)
  BY <1>6, QuietTypes DEF PowerOn, SwitchOff, Return, Call, ram, disk
<1>7. CASE CreateDirEnter \/ CreateDirSyncInodes \/ CreateDirSyncBitmap
  BY <1>7, QuietTypes DEF CreateDirEnter, CreateDirSyncInodes, CreateDirSyncBitmap,
     ram, disk
<1>8. CASE CreateDirAlloc
  <2> DEFINE parent == find_inode_by_path(Prefix(frame.dir, frame.depth - 1))
  <2>1. CASE UNCHANGED <<ram, disk>>
    BY <2>1, QuietTypes DEF ram, disk
  <2>2. CASE /\ IsDirectory(parent)
             /\ allocate_inode # NoInode /\ allocate_block # NoFreeBlock
             /\ inode_table' = [inode_table EXCEPT ![allocate_inode] =
                    [FreeInode EXCEPT !.type = "DIR", !.blocks[0] = allocate_block]]
             /\ write_inode_block(allocate_block,
                                  DirSector(NewDirectory(allocate_inode, parent)))
    <3>1. PICK i \in Inode, b \in Block :
             /\ i = allocate_inode /\ inode_table[i].type = "FREE"
             /\ b = allocate_block /\ b \notin block_bitmap
      BY <2>2, AllocateInode, AllocateBlock
    <3>2. PICK p \in Inode : p = parent
      BY <2>2, FindType DEF IsDirectory
    <3>3. /\ inode_table'[i].blocks[0] = b
          /\ write_inode_block(b, DirSector(NewDirectory(i, p)))
          /\ \A k \in Inode \ {i} : inode_table'[k] = inode_table[k]
      BY <1>0, <2>2, <3>1, <3>2, ConstantTypes DEF FreeInode, TypeOK, RamTypeOK
    <3>4. Empty(i) /\ Empty(i)'
      BY <1>0, <3>1, <3>3, NewIsEmpty DEF Empty, Directories
    <3>5. \A d \in Directories :
             d_data'[inode_table[d].blocks[0]] = d_data[inode_table[d].blocks[0]]
      <4>1. \A k \in Inode : \A c \in BlocksOf(k) : d_data'[c] = d_data[c]
        BY <1>0, <3>1, <3>3, NewBlockSpares
      <4> QED
        BY <4>1, ConstantTypes DEF Directories, BlocksOf, BlockIndices
    <3> QED
      <4>1. i \in Directories' => \A s \in Slot :
               Entry(i, s)' = IF s \in StoredSlot THEN NewDirectory(i, p)[s] ELSE FreeEntry
        BY <1>0, <3>3, DirRewritten DEF Directories
      <4> QED
        BY <3>1, <3>3, <3>4, <3>5, <4>1, PrivateChange DEF SameInodes, SameOrNew
  <2> QED
    BY <1>8, <2>1, <2>2 DEF CreateDirAlloc
<1>9. CASE CreateDirLink
  <2>1. GiveBack /\ pc = "dir_link"
    BY <1>9 DEF Linking, CreateDirLink, LinkEntry, Goto
  <2> QED
    BY <1>0, <2>1, GiveBackNames
<1>10. CASE CreateFileEnter \/ CreateFileParent
            \/ CreateFileSyncInodes \/ CreateFileSyncBitmap \/ CreateFileSyncSuperblock
  BY <1>10, QuietTypes DEF CreateFileEnter, CreateFileParent, CreateFileSyncInodes,
     CreateFileSyncBitmap, CreateFileSyncSuperblock, ram, disk
<1>11. CASE CreateFileAlloc
  <2>1. CASE allocate_inode = NoInode
    BY <1>11, <2>1, QuietTypes DEF CreateFileAlloc, ram, disk
  <2>2. CASE allocate_inode # NoInode
    <3>1. PICK n \in Inode : n = allocate_inode /\ inode_table[n].type = "FREE"
      BY <2>2, AllocateInode
    <3>2. /\ d_data' = d_data /\ inode_table'[n].type = "FILE"
          /\ \A k \in Inode \ {n} : inode_table'[k] = inode_table[k]
      BY <1>0, <1>11, <2>2, <3>1 DEF CreateFileAlloc, disk, FreeInode, TypeOK, RamTypeOK
    <3>3. Empty(n) /\ Empty(n)' /\ n \notin Directories'
      BY <3>1, <3>2 DEF Empty, Directories
    <3> QED
      BY <3>1, <3>2, <3>3, PrivateChange DEF SameInodes, SameOrNew
  <2> QED
    BY <2>1, <2>2
<1>12. CASE CreateFileData
  <2>0. pc = "file_data"
    BY <1>12 DEF CreateFileData
  <2>1. CASE GiveBack
    BY <1>0, <2>0, <2>1, GiveBackNames
  <2>2. CASE /\ allocate_block # NoFreeBlock
             /\ inode_table' = [inode_table EXCEPT
                    ![frame.inode].blocks[frame.i] = allocate_block]
             /\ write_inode_block(allocate_block,
                                  ChunkSector(task.content[frame.i + 1]))
    <3>1. PICK b \in Block : b = allocate_block /\ b \notin block_bitmap
      BY <2>2, AllocateBlock
    <3>2. PICK n \in Inode : n = frame.inode /\ inode_table[n].type = "FILE"
      BY <1>0, <2>0 DEF LoopInv, TypeOK, ControlTypeOK, Frame
    <3>3. /\ inode_table'[n].type = inode_table[n].type
          /\ \A k \in Inode \ {n} : inode_table'[k] = inode_table[k]
      BY <1>0, <2>2, <3>2 DEF TypeOK, RamTypeOK, InodeRecord
    <3>4. Empty(n) /\ Empty(n)' /\ n \notin Directories'
      BY <3>2, <3>3 DEF Empty, Directories
    <3>5. \A d \in Directories :
             d_data'[inode_table[d].blocks[0]] = d_data[inode_table[d].blocks[0]]
      <4>1. \A k \in Inode : \A c \in BlocksOf(k) : d_data'[c] = d_data[c]
        BY <1>0, <2>2, <3>1, NewBlockSpares
      <4> QED
        BY <4>1, ConstantTypes DEF Directories, BlocksOf, BlockIndices
    <3> QED
      BY <2>0, <3>2, <3>3, <3>4, <3>5, PrivateChange DEF SameInodes, SameOrNew, Held
  <2> QED
    BY <1>12, <2>1, <2>2 DEF CreateFileData
<1>13. CASE CreateFileLink
  <2>1. GiveBack /\ pc = "file_data"
    BY <1>13 DEF Linking, CreateFileLink, LinkEntry, Goto
  <2> QED
    BY <1>0, <2>1, GiveBackNames
<1>14. CASE DeleteFileEnter
  <2>1. UNCHANGED <<ram, disk>>
    BY <1>14 DEF Deleting, DeleteFileEnter, Goto
  <2> QED
    BY <2>1, QuietTypes DEF ram, disk
<1>15. CASE DeleteSyncInodes \/ DeleteSyncBitmap
  BY <1>15, QuietTypes DEF DeleteSyncInodes, DeleteSyncBitmap, ram
<1> QED
  BY <1>1, <1>2, <1>3, <1>4, <1>5, <1>6, <1>7, <1>8, <1>9, <1>10, <1>11, <1>12,
     <1>13, <1>14, <1>15, CallsAssumption
     DEF Step, Next, Kernel, User, Boot, Install, CreateDir, CreateFile, DeleteFile

LEMMA PathsWalkedNext == TypeOK' /\ NamesOnce' => Walked'
BY PathsWalked, PTL

\* The path whose last name the next entry gives.
Target == IF pc = "dir_link" THEN Prefix(frame.dir, frame.depth) ELSE task.path

\* An entry is written: one path appears, or none when it falls off its sector.
LEMMA LinkSight ==
    ASSUME PlainCalls, LinkInv, PathInv, TypeOK', Linking
    PROVE  /\ NamesInv'
           /\ Target \in NamedPath \ {<< >>} /\ Absent(Target)
           /\ path_walk'[Target] \in {frame.inode, NoInode}
           /\ \A p \in NamedPath \ {Target} :
                  path_walk'[p] = path_walk[p] /\ path_walk[p] # frame.inode
           /\ Empty(frame.inode)'
           /\ inode_table' = inode_table /\ UNCHANGED <<task, frame>>
           /\ pc' = IF pc = "dir_link" THEN "dir_inodes" ELSE "file_inodes"
<1>0. /\ TypeOK /\ CallInv /\ Owned /\ TreeOK /\ LoopInv /\ NamesInv /\ Walked
  BY PathsWalked DEF LinkInv, Tidy, BlockInv, TypeInv, PathInv, NamesInv
<1>1. pc \in {"dir_link", "file_data"}
  BY DEF Linking, CreateDirLink, CreateFileLink
<1>2. /\ Target \in NamedPath \ {<< >>} /\ Absent(Target)
      /\ path_walk[Parent(Target)] = frame.parent
  <2>1. CASE pc = "dir_link"
    <3>1. frame.dir \in NamedPath /\ frame.depth \in 1 .. Len(frame.dir)
      BY <1>0, <2>1, PathsInHand DEF PathInv, CallInv, DirLabel
    <3> QED
      BY <2>1, <3>1, FrontParts DEF Target, PathInv, PlaceInv
  <2>2. CASE pc = "file_data"
    <3>1. task.op = "create_file" /\ task.path # << >>
      BY <1>0, <2>2 DEF CallInv, FileLabel
    <3>2. task.path \in NamedPath
      BY <1>0, <3>1, PathsInHand DEF PathInv
    <3> QED
      BY <2>2, <3>1, <3>2 DEF Target, PathInv, PlaceInv, HoldsParent, ParentFound
  <2> QED
    BY <1>1, <2>1, <2>2
<1>3. PICK t \in NamedPath \ {<< >>} : t = Target
  BY <1>2
<1>4. PICK c \in Inode, i \in Inode : c = frame.parent /\ i = frame.inode
  BY <1>0 DEF TypeOK, ControlTypeOK, Frame
<1>5. /\ inode_table[c].type = "DIR" /\ i # Root /\ Unlinked(i) /\ Empty(i)
  BY <1>0, <1>1, <1>4 DEF LinkInv, Tidy, ParentInv, HoldsParent, RootInv, UnlinkedInv,
     PathInv, PlaceInv, LoopInv, Empty, Directories
<1>6. FileName(t) \in Name /\ Parent(t) \in NamedPath
  BY NamedPathParts
<1>7. \A j \in Inode : ~ Edge(c, FileName(t), j)
  BY <1>0, <1>2, <1>3, <1>4, ConstantTypes DEF Walked, Absent, Found
<1>8. i # c
  BY <1>0, <1>2, <1>3, <1>4, <1>5, <1>6, NotWalked
<1>9. /\ LinkEntry(FileName(t), pc')
      /\ pc' = IF pc = "dir_link" THEN "dir_inodes" ELSE "file_inodes"
  BY <1>1, <1>3 DEF Linking, CreateDirLink, CreateFileLink, LinkEntry, GiveBack, Leave,
     Goto, Target
<1> DEFINE free == {s \in Slot : ~ dir_entries(frame.parent)[s].in_use}
           entry == [in_use |-> TRUE, name |-> FileName(t), inode |-> frame.inode]
<1>10. /\ free # {}
       /\ write_inode_block(inode_table[frame.parent].blocks[0],
              DirSector([dir_entries(frame.parent) EXCEPT ![First(free)] = entry]))
       /\ inode_table' = inode_table /\ UNCHANGED <<task, frame>>
  BY <1>9 DEF LinkEntry, GiveBack, Leave, Goto, ram
<1>11. PICK f \in Slot : f = First(free) /\ ~ Entry(c, f).in_use
  <2>1. free \in SUBSET Nat
    BY SizesAssumption DEF Slot
  <2> QED
    BY <1>4, <1>10, <2>1, FirstProperty DEF Entry
<1> HIDE DEF free
<1>12. write_inode_block(inode_table[c].blocks[0], DirSector([dir_entries(c) EXCEPT
           ![f] = [in_use |-> TRUE, name |-> FileName(t), inode |-> i]]))
  BY <1>4, <1>10, <1>11
<1>13. /\ NamesInv'
       /\ OthersStay(c, FileName(t))
       /\ \A j \in Inode : Edge(c, FileName(t), j)' => j = i
       /\ \A j : j # c /\ Empty(j) => Empty(j)'
  BY <1>0, <1>4, <1>5, <1>6, <1>7, <1>10, <1>11, <1>12, NameGiven
<1>14. Empty(i)'
  BY <1>5, <1>8, <1>13
<1>15. Walked'
  BY <1>13, PathsWalkedNext DEF NamesInv
<1>16. \A p \in NamedPath \ {t} : path_walk'[p] = path_walk[p]
  <2>1. path_walk[Parent(t)] = c
    BY <1>2, <1>3, <1>4
  <2>2. \A j \in Inode : Edge(c, FileName(t), j) \/ Edge(c, FileName(t), j)' =>
           \A n \in Name : \A k \in Inode : ~ Edge(j, n, k) /\ ~ Edge(j, n, k)'
    BY <1>5, <1>7, <1>13, <1>14 DEF Edge, Empty
  <2>3. \A d \in Inode : \A n \in Name : \A j \in Inode :
           ~ (d = c /\ n = FileName(t)) => (Edge(d, n, j)' <=> Edge(d, n, j))
    BY <1>13 DEF OthersStay
  <2> QED
    BY <1>0, <1>15, <2>1, <2>2, <2>3, OtherWalks DEF NamesInv
<1>17. path_walk'[t] \in {i, NoInode}
  <2>1. path_walk'[Parent(t)] = c /\ c \in Found
    BY <1>2, <1>3, <1>4, <1>6, <1>16, NamedPathParts DEF Found
  <2>2. path_walk'[t] \in Found
    BY <1>15 DEF Walked
  <2>3. \A j \in Inode : path_walk'[t] = j => Edge(c, FileName(t), j)'
    BY <1>15, <2>1 DEF Walked
  <2> QED
    BY <1>13, <2>2, <2>3 DEF Found
<1>18. \A p \in NamedPath : path_walk[p] # i
  BY <1>0, <1>5, NotWalked
<1> QED
  BY <1>2, <1>3, <1>4, <1>9, <1>10, <1>13, <1>14, <1>16, <1>17, <1>18

\* The entry of a file is cleared: its path is gone.
LEMMA DeleteSight ==
    ASSUME PlainCalls, LinkInv, PathInv, TypeOK', Deleting
    PROVE  /\ NamesInv'
           /\ task.path \in NamedPath \ {<< >>}
           /\ \A p \in NamedPath \ {task.path} : path_walk'[p] = path_walk[p]
           /\ Absent(task.path)'
           /\ \E i \in Inode :
                  /\ path_walk[task.path] = i /\ inode_table[i].type = "FILE"
                  /\ inode_table' = [inode_table EXCEPT ![i] = FreeInode]
           /\ Directories' = Directories
           /\ \E c \in Directories : \E t \in Slot :
                  /\ Named(c, t)
                  /\ \A d \in Directories : \A s \in Slot :
                         Entry(d, s)' = IF d = c /\ s = t THEN FreeEntry ELSE Entry(d, s)
           /\ UNCHANGED <<task, frame>>
<1>0. /\ TypeOK /\ CallInv /\ Owned /\ OneLink /\ NamesInv /\ Walked /\ pc = "delete_file"
      /\ inode_table[Root].type = "DIR"
  BY PathsWalked DEF LinkInv, Tidy, TreeOK, RootInv, BlockInv, TypeInv, PathInv, NamesInv,
     Deleting, DeleteFileEnter
<1>1. /\ fs_file_exists(task.path)
      /\ free_inode(find_inode_by_path(task.path))
      /\ write_inode_block(inode_table[find_inode_by_path(Parent(task.path))].blocks[0],
             DirSector(WithoutEntry(dir_entries(find_inode_by_path(Parent(task.path))),
                                    find_inode_by_path(task.path))))
      /\ UNCHANGED <<task, frame>>
  BY Returns DEF Deleting, DeleteFileEnter
<1>2. PICK t \in NamedPath : t = task.path
  BY <1>0, PathsInHand DEF PathInv, CalledInv
<1>3. Parent(t) \in Path /\ t \in Path
  BY <1>2, NamedPathParts, PathParts
<1>4. PICK c \in Inode, i \in Inode :
         /\ c = path_walk[Parent(t)] /\ inode_table[c].type = "DIR"
         /\ i = path_walk[t] /\ inode_table[i].type = "FILE"
         /\ c = find_inode_by_path(Parent(t)) /\ i = find_inode_by_path(t)
  BY <1>0, <1>1, <1>2, <1>3, DeletedFrom, FindWalk
<1>5. t # << >>
  BY <1>0, <1>4 DEF Walked
<1>6. FileName(t) \in Name /\ Parent(t) \in NamedPath /\ Parent(t) # t
  BY <1>5, NamedPathParts
<1>7. Edge(c, FileName(t), i)
  BY <1>0, <1>4, <1>5 DEF Walked, Found
<1>8. /\ inode_table' = [inode_table EXCEPT ![i] = FreeInode]
      /\ write_inode_block(inode_table[c].blocks[0],
                           DirSector(WithoutEntry(dir_entries(c), i)))
  BY <1>1, <1>2, <1>4 DEF free_inode
<1>9. /\ NamesInv'
      /\ OthersStay(c, FileName(t))
      /\ \A j \in Inode : ~ (Edge(c, FileName(t), j)')
      /\ Directories' = Directories
      /\ \E r \in Slot :
             /\ c \in Directories /\ Named(c, r)
             /\ \A d \in Directories : \A s \in Slot :
                    Entry(d, s)' = IF d = c /\ s = r THEN FreeEntry ELSE Entry(d, s)
  BY <1>0, <1>4, <1>6, <1>7, <1>8, NameTaken
<1>10. Walked'
  BY <1>9, PathsWalkedNext DEF NamesInv
<1>11. \A p \in NamedPath \ {t} : path_walk'[p] = path_walk[p]
  <2>1. \A j \in Inode : Edge(c, FileName(t), j) => j = i
    BY <1>0, <1>7 DEF Edge, NamesInv, NamesOnce
  <2>2. i \notin Directories /\ i \notin Directories'
    BY <1>0, <1>4, <1>8 DEF Directories, FreeInode, TypeOK, RamTypeOK
  <2>3. \A j \in Inode : Edge(c, FileName(t), j) \/ Edge(c, FileName(t), j)' =>
           \A n \in Name : \A k \in Inode : ~ Edge(j, n, k) /\ ~ Edge(j, n, k)'
    BY <1>9, <2>1, <2>2 DEF Edge
  <2>4. \A d \in Inode : \A n \in Name : \A j \in Inode :
           ~ (d = c /\ n = FileName(t)) => (Edge(d, n, j)' <=> Edge(d, n, j))
    BY <1>9 DEF OthersStay
  <2> QED
    BY <1>0, <1>4, <1>5, <1>10, <2>3, <2>4, OtherWalks DEF NamesInv
<1>12. path_walk'[t] = NoInode
  <2>1. path_walk'[Parent(t)] = c /\ c \in Found /\ path_walk'[t] \in Found
    BY <1>4, <1>6, <1>10, <1>11 DEF Found, Walked
  <2> QED
    BY <1>5, <1>9, <1>10, <2>1 DEF Walked, Found
<1> QED
  BY <1>1, <1>2, <1>4, <1>5, <1>8, <1>9, <1>11, <1>12 DEF Absent

\* What a path leads to is in use and is not the inode without an entry.
LEMMA WalkedInUse ==
    ASSUME LinkInv, PathInv, NEW p \in NamedPath, NEW i \in Inode, path_walk[p] = i
    PROVE  /\ ~ Held(i)
           /\ p # << >> => i \in Live
           /\ pc \notin {"boot", "off"} \/ d_superblock.installed = 1 => i \in Live
<1>0. TypeOK /\ EntriesLive /\ LoopInv /\ Walked
  BY PathsWalked DEF LinkInv, Tidy, TreeOK, BlockInv, TypeInv, PathInv, NamesInv
<1>1. ~ Held(i)
  <2> SUFFICES ASSUME Held(i) PROVE FALSE
    OBVIOUS
  <2>1. i # Root /\ Unlinked(i) /\ Empty(i)
    BY <1>0 DEF Held, LinkInv, Tidy, RootInv, UnlinkedInv, PathInv, PlaceInv, LoopInv,
       Empty, Directories
  <2> QED
    BY <1>0, <2>1, NotWalked
<1>2. p # << >> => i \in Live
  BY <1>0, LiveWalked
<1>3. p = << >> => i = Root
  BY <1>0 DEF Walked
<1> QED
  BY <1>1, <1>2, <1>3 DEF LinkInv, Tidy, RootInv, Live

-----------------------------------------------------------------------------
(* PathInv is inductive                                                    *)

LEMMA CallsNext ==
    CalledInv /\ DirInv /\ TypeInv /\ [Next]_vars => CalledInv' /\ DirInv'
<1> SUFFICES ASSUME CalledInv, DirInv, TypeInv, [Next]_vars PROVE CalledInv' /\ DirInv'
  OBVIOUS
<1>0. frame \in Frame /\ CallInv
  BY DEF TypeInv, TypeOK, ControlTypeOK
<1>1. CASE UNCHANGED vars
  BY <1>1 DEF vars, control, CalledInv, DirInv
<1>2. ASSUME NEW request \in Requests, Call(request) PROVE CalledInv' /\ DirInv'
  <2>1. request.op \in {"create_dir", "create_file", "delete_file"}
    BY CallsAssumption DEF Request
  <2>2. /\ task' = request /\ pc' = request.op
        /\ request.op = "create_dir" => frame'.dir = request.path
    BY <1>2, EmptySeq DEF Call, Goto, NoFrame
  <2> QED
    BY <2>1, <2>2 DEF CalledInv, DirInv, DirLabel
<1>3. CASE PowerOn \/ SwitchOff \/ Return
  BY <1>3 DEF PowerOn, SwitchOff, Return, Goto, CalledInv, DirInv, NoTask, DirLabel
<1>4. CASE Boot
  BY <1>0, <1>4 DEF Boot, BootInstalled, InstallRoot, Goto, CalledInv, DirInv, NoTask,
     DirLabel, CallInv
<1>5. CASE Install
  <2>1. CASE InstallNextDir
    <3>1. /\ pc' = "create_dir" /\ task' = task /\ task.op = "install"
          /\ frame'.dir = InstallDirs[frame.i + 1] /\ frame.i < Len(InstallDirs)
      BY <1>0, <2>1 DEF InstallNextDir, Goto, CalledInv, Frame
    <3>2. frame.i + 1 \in DOMAIN InstallDirs
      <4>1. Len(InstallDirs) \in Nat /\ DOMAIN InstallDirs = 1 .. Len(InstallDirs)
        BY CallsAssumption, LenProperties
      <4> QED
        BY <1>0, <3>1, <4>1 DEF Frame
    <3> QED
      BY <3>1, <3>2 DEF CalledInv, DirInv
  <2>2. CASE InstallSyncBitmap
    BY <2>2 DEF InstallSyncBitmap, Goto, CalledInv, DirInv, DirLabel
  <2>3. CASE InstallSyncSuperblock \/ InstallSyncInodes \/ InstallFinish
    BY <2>3 DEF InstallSyncSuperblock, InstallSyncInodes, InstallFinish, Goto,
       CalledInv, DirInv, DirLabel, NoTask
  <2> QED
    BY <1>5, <2>1, <2>2, <2>3 DEF Install
<1>6. CASE CreateDir
  BY <1>0, <1>6 DEF CreateDir, CreateDirEnter, CreateDirAlloc, CreateDirLink,
     CreateDirSyncInodes, CreateDirSyncBitmap, CreateDirReturnsOk, Leave, LinkEntry,
     GiveBack, Goto, CalledInv, DirInv, DirLabel, Frame
<1>7. CASE CreateFile
  BY <1>0, <1>7 DEF CreateFile, CreateFileEnter, CreateFileParent, CreateFileAlloc,
     CreateFileData, CreateFileLink, CreateFileSyncInodes, CreateFileSyncBitmap,
     CreateFileSyncSuperblock, Leave, LinkEntry, GiveBack, Goto, CalledInv, DirInv,
     DirLabel, FileLabel, CallInv, Frame
<1>8. CASE DeleteFile
  BY <1>8 DEF DeleteFile, DeleteFileEnter, DeleteSyncInodes, DeleteSyncBitmap,
     DeleteReturns, Leave, Goto, CalledInv, DirInv, DirLabel
<1> QED
  BY <1>1, <1>2, <1>3, <1>4, <1>5, <1>6, <1>7, <1>8 DEF Next, Kernel, User

\* Where PlaceInv says something.
Placed == DirLabel \cup {"file_alloc", "file_data", "file_inodes", "file_bitmap",
                         "file_superblock", "delete_inodes", "delete_bitmap"}

LEMMA NotPlacedNext ==
    pc' \notin Placed /\ ~ (pc' = "delete_file" /\ task'.op = "create_file") => PlaceInv'
BY DEF Placed, DirLabel, PlaceInv, HoldsParent

\* A step after which every path leads where it led, and what was empty is.
LEMMA PlaceSame ==
    ASSUME PlainCalls, LinkInv, PathInv, [Next]_vars, ~ Linking, ~ Deleting,
           \A p \in NamedPath : path_walk'[p] = path_walk[p],
           \A i : Empty(i) => Empty(i)'
    PROVE  PlaceInv'
<1>0. /\ TypeOK /\ CallInv /\ Walked /\ frame \in Frame /\ LoopInv
  BY PathsWalked DEF LinkInv, BlockInv, TypeInv, TypeOK, ControlTypeOK, PathInv, NamesInv
<1>1. /\ task.op \notin {"none", "install"} => task.path \in NamedPath
      /\ pc \in DirLabel \cup {"create_dir"} => frame.dir \in NamedPath
  BY <1>0, PathsInHand DEF PathInv
<1>2. pc \in DirLabel => /\ frame.depth \in 1 .. Len(frame.dir)
                         /\ Prefix(frame.dir, frame.depth) \in NamedPath \ {<< >>}
                         /\ Prefix(frame.dir, frame.depth - 1) \in NamedPath
                         /\ Parent(Prefix(frame.dir, frame.depth))
                                = Prefix(frame.dir, frame.depth - 1)
  BY <1>0, <1>1, FrontParts DEF CallInv
<1>3. pc \in FileLabel \cup {"create_file"} => task.op = "create_file"
  BY <1>0 DEF CallInv
<1>4. (task.op = "create_file" /\ pc \notin {"create_file", "return"}) =>
         /\ task.path \in NamedPath \ {<< >>}
         /\ Parent(task.path) \in NamedPath
  BY <1>0, <1>1, NamedPathParts DEF CallInv
<1>5. pc \in {"delete_inodes", "delete_bitmap"} => task.path \in NamedPath
  BY <1>1 DEF PathInv, CalledInv
\* Steps that keep the label, or go on to a label of which the same is said.
<1>6. ASSUME frame' = frame, task' = task, pc' = pc PROVE PlaceInv'
  BY <1>2, <1>3, <1>4, <1>5, <1>6 DEF PathInv, PlaceInv, Absent, ParentFound, HoldsParent,
     DirLabel, FileLabel
<1>7. CASE UNCHANGED vars
  BY <1>6, <1>7 DEF vars, control
<1>8. ASSUME NEW request \in Requests, Call(request) PROVE PlaceInv'
  BY <1>8, CallsAssumption, NotPlacedNext DEF Call, Goto, Request, Placed, DirLabel
<1>9. CASE PowerOn \/ SwitchOff \/ Return \/ Boot \/ Install
  BY <1>9, NotPlacedNext DEF PowerOn, SwitchOff, Return, Boot, BootInstalled, InstallRoot,
     Install, InstallSyncSuperblock, InstallSyncInodes, InstallSyncBitmap,
     InstallNextDir, InstallFinish, Goto, Placed, DirLabel
<1>10. CASE CreateDirEnter
  <2>1. CASE pc' # "dir_alloc"
    BY <1>10, <2>1, Returns, NotPlacedNext DEF CreateDirEnter, Goto, Placed, DirLabel
  <2>2. CASE pc' = "dir_alloc"
    <3> DEFINE missing == {k \in 1 .. Len(frame.dir) : ~ Exists(Prefix(frame.dir, k))}
    <3>1. /\ pc = "create_dir" /\ frame.dir # << >> /\ ~ Exists(frame.dir)
          /\ frame' = [frame EXCEPT !.depth = First(missing)]
      BY <1>10, <2>2, Returns DEF CreateDirEnter
    <3>2. frame.dir \in NamedPath /\ Len(frame.dir) \in Nat \ {0}
      BY <1>1, <3>1, NamedPathParts
    <3>3. Len(frame.dir) \in missing /\ missing \in SUBSET Nat
      <4>1. Len(frame.dir) \in 1 .. Len(frame.dir)
        BY <3>2
      <4> QED
        BY <3>1, <3>2, <4>1, FrontParts
    <3>4. First(missing) \in missing
      BY <3>3, FirstProperty
    <3>5. PICK k \in 1 .. Len(frame.dir) : k = First(missing) /\ ~ Exists(Prefix(frame.dir, k))
      BY <3>4
    <3> HIDE DEF missing
    <3>6. Prefix(frame.dir, k) \in NamedPath /\ Prefix(frame.dir, k) \in Path
      BY <3>2, FrontParts, NamedPathParts
    <3>7. path_walk[Prefix(frame.dir, k)] = NoInode
      BY <1>0, <3>5, <3>6, FindWalk DEF Exists
    <3>8. frame'.dir = frame.dir /\ frame'.depth = k
      BY <1>0, <3>1, <3>5 DEF Frame
    <3> QED
      BY <2>2, <3>6, <3>7, <3>8 DEF PlaceInv, Absent, HoldsParent
  <2> QED
    BY <2>1, <2>2
<1>11. CASE CreateDirAlloc
  <2> DEFINE parent == find_inode_by_path(Prefix(frame.dir, frame.depth - 1))
  <2>1. CASE Leave("error")
    BY <2>1, Returns, NotPlacedNext DEF Placed, DirLabel
  <2>2. CASE /\ IsDirectory(parent)
             /\ allocate_inode # NoInode /\ allocate_block # NoFreeBlock
             /\ inode_table' = [inode_table EXCEPT ![allocate_inode] =
                    [FreeInode EXCEPT !.type = "DIR", !.blocks[0] = allocate_block]]
             /\ write_inode_block(allocate_block,
                                  DirSector(NewDirectory(allocate_inode, parent)))
             /\ frame' = [frame EXCEPT !.parent = parent, !.inode = allocate_inode]
             /\ Goto("dir_link")
    <3>1. pc = "dir_alloc"
      BY <1>11 DEF CreateDirAlloc
    <3>2. PICK i \in Inode, b \in Block : i = allocate_inode /\ b = allocate_block
      BY <2>2, AllocateInode, AllocateBlock
    <3>3. PICK p \in Inode : p = parent
      BY <2>2, FindType DEF IsDirectory
    <3>4. /\ inode_table'[i].blocks[0] = b
          /\ write_inode_block(b, DirSector(NewDirectory(i, p)))
      BY <1>0, <2>2, <3>2, <3>3, ConstantTypes DEF FreeInode, TypeOK, RamTypeOK
    <3>5. Empty(i)'
      BY <1>0, <3>4, NewIsEmpty
    <3>6. /\ frame'.dir = frame.dir /\ frame'.depth = frame.depth
          /\ frame'.parent = p /\ frame'.inode = i /\ pc' = "dir_link"
      BY <1>0, <2>2, <3>2, <3>3 DEF Frame, Goto
    <3>7. path_walk[Prefix(frame.dir, frame.depth - 1)] = p
      BY <1>0, <1>2, <3>1, <3>3, NamedPathParts, FindWalk DEF DirLabel
    <3> QED
      BY <1>2, <3>1, <3>5, <3>6, <3>7
         DEF PathInv, PlaceInv, Absent, HoldsParent, DirLabel
  <2> QED
    BY <1>11, <2>1, <2>2 DEF CreateDirAlloc
<1>12. CASE CreateDirLink
  <2>1. pc' \notin {"dir_inodes", "file_inodes"}
    BY <1>12 DEF Linking
  <2> QED
    BY <1>12, <2>1, Returns, NotPlacedNext DEF CreateDirLink, LinkEntry, GiveBack, Goto,
       Placed, DirLabel
<1>13. CASE CreateDirSyncInodes
  BY <1>2, <1>13 DEF CreateDirSyncInodes, Goto, PathInv, PlaceInv, HoldsParent, DirLabel
<1>14. CASE CreateDirSyncBitmap
  <2>1. CASE CreateDirReturnsOk
    BY <2>1, Returns, NotPlacedNext DEF Placed, DirLabel
  <2>2. CASE /\ frame.depth < Len(frame.dir)
             /\ frame' = [frame EXCEPT !.depth = @ + 1]
             /\ Goto("dir_alloc")
    <3>1. pc = "dir_bitmap"
      BY <1>14 DEF CreateDirSyncBitmap
    <3>2. /\ frame.dir \in NamedPath /\ frame.depth \in Nat
          /\ frame.depth + 1 \in 1 .. Len(frame.dir)
          /\ (frame.depth + 1) - 1 = frame.depth
      <4>1. frame.dir \in NamedPath /\ Len(frame.dir) \in Nat /\ frame.depth \in Nat
        BY <1>0, <1>1, <3>1, LenProperties DEF DirLabel, Frame, NamedPath
      <4> QED
        BY <2>2, <4>1
    <3>3. PICK q \in NamedPath \ {<< >>} :
             /\ q = Prefix(frame.dir, frame.depth + 1)
             /\ Parent(q) = Prefix(frame.dir, frame.depth)
      BY <3>2, FrontParts
    <3>4. path_walk[Parent(q)] \in {frame.inode, NoInode} /\ Empty(frame.inode)
      BY <3>1, <3>3 DEF PathInv, PlaceInv
    <3>5. \A j \in Inode : ~ Edge(path_walk[Parent(q)], FileName(q), j)
      BY <3>3, <3>4, ConstantTypes DEF Edge, Empty, Directories
    <3>6. path_walk[q] \in Found /\ path_walk[Parent(q)] \in Found
      BY <1>0, NamedPathParts DEF Walked
    <3>7. path_walk[q] = NoInode
      BY <1>0, <3>5, <3>6 DEF Walked, Found
    <3>8. frame'.dir = frame.dir /\ frame'.depth = frame.depth + 1 /\ pc' = "dir_alloc"
      BY <1>0, <2>2 DEF Frame, Goto
    <3> QED
      BY <3>3, <3>7, <3>8 DEF PlaceInv, Absent, HoldsParent
  <2> QED
    BY <1>14, <2>1, <2>2 DEF CreateDirSyncBitmap
<1>15. CASE CreateFileEnter
  BY <1>15, Returns, NotPlacedNext DEF CreateFileEnter, Goto, Placed, DirLabel
<1>16. CASE CreateFileParent
  <2>1. CASE Leave("error")
    BY <2>1, Returns, NotPlacedNext DEF Placed, DirLabel
  <2>2. CASE /\ IsDirectory(find_inode_by_path(Parent(task.path)))
             /\ frame' = [frame EXCEPT !.parent = find_inode_by_path(Parent(task.path))]
             /\ Goto(IF Exists(task.path) THEN "delete_file" ELSE "file_alloc")
             /\ UNCHANGED task
    <3>1. task.path \in NamedPath \ {<< >>} /\ Parent(task.path) \in NamedPath
      BY <1>3, <1>4, <1>16 DEF CreateFileParent, FileLabel
    <3>2. /\ path_walk[Parent(task.path)] = find_inode_by_path(Parent(task.path))
          /\ path_walk[task.path] = find_inode_by_path(task.path)
      BY <1>0, <3>1, NamedPathParts, FindWalk
    <3>3. frame'.parent = path_walk[Parent(task.path)]
      BY <1>0, <2>2, <3>2 DEF Frame
    <3> QED
      BY <2>2, <3>1, <3>2, <3>3 DEF PlaceInv, Absent, ParentFound, Exists, Goto
  <2> QED
    BY <1>16, <2>1, <2>2 DEF CreateFileParent
<1>17. CASE CreateFileAlloc
  <2>1. CASE Leave("error")
    BY <2>1, Returns, NotPlacedNext DEF Placed, DirLabel
  <2>2. CASE frame' = [frame EXCEPT !.inode = allocate_inode, !.i = 0]
             /\ Goto("file_data") /\ UNCHANGED task
    <3>1. pc = "file_alloc" /\ frame'.parent = frame.parent /\ pc' = "file_data"
          /\ task.path \in NamedPath /\ Parent(task.path) \in NamedPath
      BY <1>0, <1>3, <1>4, <1>17, <2>2 DEF CreateFileAlloc, Frame, Goto, FileLabel
    <3> QED
      BY <2>2, <3>1 DEF PathInv, PlaceInv, HoldsParent, Absent, ParentFound
  <2> QED
    BY <1>17, <2>1, <2>2 DEF CreateFileAlloc
<1>18. CASE CreateFileData
  <2>1. CASE GiveBack
    BY <2>1, Returns, NotPlacedNext DEF GiveBack, Placed, DirLabel
  <2>2. CASE frame' = [frame EXCEPT !.i = @ + 1] /\ UNCHANGED <<pc, task>>
    <3>1. /\ pc = "file_data" /\ frame'.parent = frame.parent
          /\ task.path \in NamedPath /\ Parent(task.path) \in NamedPath
      BY <1>0, <1>3, <1>4, <1>18, <2>2 DEF CreateFileData, Frame, FileLabel
    <3> QED
      BY <2>2, <3>1 DEF PathInv, PlaceInv, HoldsParent, Absent, ParentFound
  <2> QED
    BY <1>18, <2>1, <2>2 DEF CreateFileData
<1>19. CASE CreateFileLink
  <2>1. pc' \notin {"dir_inodes", "file_inodes"}
    BY <1>19 DEF Linking
  <2> QED
    BY <1>19, <2>1, Returns, NotPlacedNext DEF CreateFileLink, LinkEntry, GiveBack, Goto,
       Placed, DirLabel
<1>20. CASE CreateFileSyncInodes \/ CreateFileSyncBitmap
  BY <1>3, <1>4, <1>20 DEF CreateFileSyncInodes, CreateFileSyncBitmap, Goto, PathInv,
     PlaceInv, HoldsParent, FileLabel
<1>21. CASE CreateFileSyncSuperblock
  BY <1>21, Returns, NotPlacedNext DEF CreateFileSyncSuperblock, Placed, DirLabel
<1>22. CASE DeleteFileEnter
  <2>1. /\ pc = "delete_file" /\ DeleteReturns("error") /\ UNCHANGED <<ram, disk>>
        /\ \/ find_inode_by_path(Parent(task.path)) = NoInode
           \/ ~ fs_file_exists(task.path)
    BY <1>22 DEF Deleting, DeleteFileEnter, Goto
  <2>2. CASE task.op # "create_file"
    BY <2>1, <2>2, NotPlacedNext DEF DeleteReturns, Leave, Goto, Placed, DirLabel
  <2>3. CASE task.op = "create_file"
    <3>1. task.path \in NamedPath \ {<< >>} /\ Parent(task.path) \in NamedPath
      BY <1>4, <2>1, <2>3
    <3>2. /\ path_walk[Parent(task.path)] = find_inode_by_path(Parent(task.path))
          /\ path_walk[task.path] = find_inode_by_path(task.path)
          /\ path_walk[task.path] \in Found
      BY <1>0, <3>1, NamedPathParts, FindWalk
    <3>3. path_walk[Parent(task.path)] = frame.parent /\ path_walk[task.path] # NoInode
      BY <2>1, <2>3 DEF PathInv, PlaceInv, HoldsParent, ParentFound, Absent
    <3>4. PICK i \in Inode : i = path_walk[task.path] /\ inode_table[i].type # "FREE"
      BY <3>1, <3>2, <3>3, WalkedInUse DEF Found, Live
    <3>5. inode_table[i].type # "DIR"
      <4>1. task.path \notin DirPaths
        BY <1>0, <2>3, <3>1, PathsInHand DEF PathInv
      <4> QED
        BY <3>1, <3>4, <4>1 DEF PathInv, KindInv
    <3>6. fs_file_exists(task.path)
      BY <1>0, <3>2, <3>3, <3>4, <3>5 DEF fs_file_exists, TypeOK, RamTypeOK, InodeRecord
    <3> QED
      BY <1>0, <2>1, <3>2, <3>3, <3>6, ConstantTypes DEF Frame
  <2> QED
    BY <2>2, <2>3
<1>23. CASE DeleteSyncInodes
  BY <1>4, <1>5, <1>23 DEF DeleteSyncInodes, Goto, PathInv, PlaceInv, HoldsParent, Absent,
     ParentFound
<1>24. CASE DeleteSyncBitmap
  BY <1>4, <1>5, <1>24 DEF DeleteSyncBitmap, DeleteReturns, Leave, Goto, PathInv, PlaceInv,
     HoldsParent, Absent, ParentFound
<1> QED
  BY <1>7, <1>8, <1>9, <1>10, <1>11, <1>12, <1>13, <1>14, <1>15, <1>16, <1>17, <1>18,
     <1>19, <1>20, <1>21, <1>22, <1>23, <1>24
     DEF Next, Kernel, User, CreateDir, CreateFile, DeleteFile

LEMMA PathInit == Init => PathInv
<1> SUFFICES ASSUME Init PROVE PathInv
  OBVIOUS
<1>1. LinkInv
  BY LinkInit
<1>2. Directories = {} /\ \A i \in Inode : inode_table[i].type = "FREE"
  BY DEF Init, Directories, FreeInode
<1>3. NamesInv
  BY <1>2 DEF NamesInv, NamesOnce, NamedOnce, RootUnnamed
<1> QED
  BY <1>2, <1>3 DEF Init, NoTask, PathInv, CalledInv, DirInv, DirLabel, PlaceInv,
     HoldsParent, KindInv

\* What a step does to the paths: nothing but at the path a call is about.
LEMMA StepSight ==
    ASSUME PlainCalls, LinkInv, PathInv, [Next]_vars
    PROVE  \/ /\ NamesInv' /\ SameInodes /\ SameOrNew /\ ~ Linking /\ ~ Deleting
              /\ \A p \in NamedPath : path_walk'[p] = path_walk[p]
              /\ \A i : Empty(i) => Empty(i)'
           \/ Linking
           \/ Deleting
<1> SUFFICES ASSUME ~ Linking, ~ Deleting
             PROVE  /\ NamesInv' /\ SameInodes /\ SameOrNew
                    /\ \A p \in NamedPath : path_walk'[p] = path_walk[p]
                    /\ \A i : Empty(i) => Empty(i)'
  OBVIOUS
<1>1. [Step]_vars
  BY DEF Step
<1>2. SameNames /\ SameInodes /\ SameOrNew
  BY <1>1, StepNames DEF PathInv, PlaceInv
<1>3. NamesInv' /\ SameEdges /\ \A i : Empty(i) => Empty(i)'
  BY <1>2, NamesStay DEF PathInv
<1>4. TypeOK'
  BY <1>1, LinkNext DEF LinkInv, BlockInv, TypeInv
<1>5. Walked /\ Walked'
  BY <1>3, <1>4, PathsWalked, PathsWalkedNext
     DEF LinkInv, BlockInv, TypeInv, PathInv, NamesInv
<1>6. \A p \in NamedPath : path_walk'[p] = path_walk[p]
  BY <1>3, <1>5, SameWalks DEF SameEdges
<1> QED
  BY <1>2, <1>3, <1>6

LEMMA PathNext == PlainCalls /\ LinkInv /\ PathInv /\ [Next]_vars => PathInv'
<1> SUFFICES ASSUME PlainCalls, LinkInv, PathInv, [Next]_vars PROVE PathInv'
  OBVIOUS
<1>0. TypeInv /\ TypeOK /\ CallInv /\ LoopInv /\ TypeOK'
  <2>1. [Step]_vars
    BY DEF Step
  <2> QED
    BY <2>1, LinkNext DEF LinkInv, BlockInv, TypeInv
<1>1. CalledInv' /\ DirInv'
  BY <1>0, CallsNext DEF PathInv
<1>2. CASE Linking
  <2> DEFINE t == Target
  <2>1. /\ NamesInv'
        /\ t \in NamedPath \ {<< >>} /\ Absent(t)
        /\ path_walk'[t] \in {frame.inode, NoInode}
        /\ \A p \in NamedPath \ {t} :
               path_walk'[p] = path_walk[p] /\ path_walk[p] # frame.inode
        /\ Empty(frame.inode)'
        /\ inode_table' = inode_table /\ task' = task /\ frame' = frame
        /\ pc' = IF pc = "dir_link" THEN "dir_inodes" ELSE "file_inodes"
    BY <1>0, <1>2, LinkSight
  <2>2. pc \in {"dir_link", "file_data"}
    BY <1>2 DEF Linking, CreateDirLink, CreateFileLink
  <2>3. PlaceInv'
    BY <2>1, <2>2 DEF PlaceInv, Target, HoldsParent
  <2>4. pc = "dir_link" => t \in DirPaths
    <3> SUFFICES ASSUME pc = "dir_link" PROVE t \in DirPaths
      OBVIOUS
    <3>1. /\ frame.dir \in NamedPath /\ Fronts(frame.dir) \subseteq DirPaths
          /\ frame.depth \in 1 .. Len(frame.dir)
      BY <1>0, PathsInHand DEF PathInv, CallInv, DirLabel
    <3> QED
      BY <3>1, FrontParts DEF Target
  <2>5. KindInv'
    <3> SUFFICES ASSUME NEW p \in NamedPath, NEW i \in Inode,
                        path_walk'[p] = i, inode_table'[i].type = "DIR"
                 PROVE  p \in DirPaths
      BY DEF KindInv
    <3>1. CASE p # t
      BY <2>1, <3>1 DEF PathInv, KindInv
    <3>2. CASE p = t
      BY <1>0, <2>1, <2>2, <2>4, <3>2, ConstantTypes DEF LoopInv
    <3> QED
      BY <3>1, <3>2
  <2> QED
    BY <1>1, <2>1, <2>3, <2>5 DEF PathInv
<1>3. CASE Deleting
  <2>1. /\ NamesInv'
        /\ task.path \in NamedPath \ {<< >>}
        /\ \A p \in NamedPath \ {task.path} : path_walk'[p] = path_walk[p]
        /\ Absent(task.path)'
        /\ task' = task /\ frame' = frame
    BY <1>0, <1>3, DeleteSight
  <2>2. PICK i \in Inode : inode_table' = [inode_table EXCEPT ![i] = FreeInode]
    BY <1>0, <1>3, DeleteSight
  <2>3. pc = "delete_file" /\ pc' = "delete_inodes"
    BY <1>3 DEF Deleting, DeleteFileEnter
  <2>4. HoldsParent' => ParentFound'
    <3>1. HoldsParent' => ParentFound
      BY <2>1, <2>3 DEF HoldsParent, PathInv, PlaceInv
    <3>2. Parent(task.path) \in NamedPath /\ Parent(task.path) # task.path
      BY <2>1, NamedPathParts
    <3> QED
      BY <2>1, <3>1, <3>2 DEF ParentFound
  <2>5. PlaceInv'
    BY <2>1, <2>3, <2>4 DEF PlaceInv
  <2>6. KindInv'
    <3> SUFFICES ASSUME NEW p \in NamedPath, NEW j \in Inode,
                        path_walk'[p] = j, inode_table'[j].type = "DIR"
                 PROVE  p \in DirPaths
      BY DEF KindInv
    <3>1. p # task.path
      BY <2>1, ConstantTypes DEF Absent
    <3>2. inode_table[j].type = "DIR"
      BY <1>0, <2>2 DEF TypeOK, RamTypeOK, FreeInode
    <3> QED
      BY <2>1, <3>1, <3>2 DEF PathInv, KindInv
  <2> QED
    BY <1>1, <2>1, <2>5, <2>6 DEF PathInv
<1>4. CASE ~ Linking /\ ~ Deleting
  <2>1. /\ NamesInv' /\ SameInodes
        /\ \A p \in NamedPath : path_walk'[p] = path_walk[p]
        /\ \A i : Empty(i) => Empty(i)'
    BY <1>4, StepSight
  <2>2. PlaceInv'
    BY <1>4, <2>1, PlaceSame
  <2>3. KindInv'
    <3> SUFFICES ASSUME NEW p \in NamedPath, NEW i \in Inode,
                        path_walk'[p] = i, inode_table'[i].type = "DIR"
                 PROVE  p \in DirPaths
      BY DEF KindInv
    <3>1. CASE p = << >>
      BY <3>1 DEF DirPaths
    <3>2. CASE p # << >>
      <4>1. path_walk[p] = i
        BY <2>1
      <4>2. ~ Held(i) /\ inode_table[i].type # "FREE"
        BY <3>2, <4>1, WalkedInUse DEF Live
      <4>3. inode_table[i].type = "DIR"
        BY <2>1, <4>2 DEF SameInodes
      <4> QED
        BY <4>1, <4>3 DEF PathInv, KindInv
    <3> QED
      BY <3>1, <3>2
  <2> QED
    BY <1>1, <2>1, <2>2, <2>3 DEF PathInv
<1> QED
  BY <1>2, <1>3, <1>4

-----------------------------------------------------------------------------
(* What the shell sees                                                     *)

Visible(p) == fs_dir_exists(p) \/ fs_file_exists(p)
SameAt(p) == (Visible(p)' <=> Visible(p)) /\ (Visible(p) => NodeAt(p)' = NodeAt(p))

\* Something is seen at p when p leads to an inode in use.
Sight ==
    \A p \in NamedPath :
        /\ Visible(p) <=> path_walk[p] \in Live
        /\ fs_dir_exists(p) <=>
               \E i \in Inode : path_walk[p] = i /\ inode_table[i].type = "DIR"
        /\ fs_file_exists(p) <=>
               \E i \in Inode : path_walk[p] = i /\ inode_table[i].type = "FILE"
        /\ find_inode_by_path(p) = path_walk[p] /\ path_walk[p] \in Found

LEMMA SightOf == TypeOK => Sight
<1> SUFFICES ASSUME TypeOK, NEW p \in NamedPath
             PROVE  /\ Visible(p) <=> path_walk[p] \in Live
                    /\ fs_dir_exists(p) <=>
                           \E i \in Inode : path_walk[p] = i /\ inode_table[i].type = "DIR"
                    /\ fs_file_exists(p) <=>
                           \E i \in Inode : path_walk[p] = i /\ inode_table[i].type = "FILE"
                    /\ find_inode_by_path(p) = path_walk[p] /\ path_walk[p] \in Found
  BY DEF Sight
<1>1. find_inode_by_path(p) = path_walk[p] /\ path_walk[p] \in Found
  BY FindWalk, NamedPathParts
<1>2. NoInode \notin Inode
  BY ConstantTypes
<1>3. \A i \in Inode : inode_table[i].type \in {"FREE", "FILE", "DIR"}
  BY DEF TypeOK, RamTypeOK, InodeRecord
<1>4. fs_dir_exists(p) <=> \E i \in Inode : path_walk[p] = i /\ inode_table[i].type = "DIR"
  BY <1>1, <1>2 DEF fs_dir_exists, IsDirectory, Found
<1>5. fs_file_exists(p) <=> \E i \in Inode : path_walk[p] = i /\ inode_table[i].type = "FILE"
  BY <1>1, <1>2 DEF fs_file_exists, Found
<1> QED
  BY <1>1, <1>2, <1>3, <1>4, <1>5 DEF Visible, Live, Found

LEMMA SightOfNext == TypeOK' => Sight'
  BY SightOf, PTL

\* The content of a file: its size and what its blocks hold.
LEMMA FileKept ==
    ASSUME TypeOK, NEW i \in Inode, Spared(i), NEW p,
           find_inode_by_path(p) = i, find_inode_by_path(p)' = i
    PROVE  fs_read_file(p)' = fs_read_file(p)
<1> DEFINE node == inode_table[i]
<1>1. inode_table'[i] = node /\ Stored(i)' = Stored(i)
  BY DEF Spared
<1>2. BlockIndices(i)' = BlockIndices(i)
  BY <1>1 DEF BlockIndices
<1>3. \A j \in BlockIndices(i) : d_data'[node.blocks[j]].chunk = d_data[node.blocks[j]].chunk
  BY <1>1, <1>2 DEF Stored
<1>4. node.size \in Nat /\ FS_INODE_DIRECT_BLOCKS \in Nat
  BY SizesAssumption DEF TypeOK, RamTypeOK, InodeRecord
<1>5. \A k \in 1 .. node.size : k <= FS_INODE_DIRECT_BLOCKS =>
          read_inode_block(node.blocks[k - 1])'.chunk = read_inode_block(node.blocks[k - 1]).chunk
  <2> SUFFICES ASSUME NEW k \in 1 .. node.size, k <= FS_INODE_DIRECT_BLOCKS
               PROVE  read_inode_block(node.blocks[k - 1])'.chunk
                          = read_inode_block(node.blocks[k - 1]).chunk
    OBVIOUS
  <2>1. k - 1 \in DirectBlock
    BY <1>4 DEF DirectBlock
  <2>2. node.blocks[k - 1] # NoBlock => k - 1 \in BlockIndices(i)
    BY <2>1 DEF BlockIndices
  <2> QED
    BY <1>1, <1>3, <2>2 DEF read_inode_block
<1> QED
  BY <1>1, <1>4, <1>5 DEF fs_read_file

\* A path that leads where it led, to an inode that is what it was.
LEMMA NodeKept ==
    ASSUME TypeOK, TypeOK', NEW p \in NamedPath, path_walk'[p] = path_walk[p],
           \A i \in Inode : path_walk[p] = i =>
               /\ inode_table'[i].type = inode_table[i].type
               /\ inode_table[i].type = "FILE" => Spared(i)
    PROVE  SameAt(p)
<1>1. CASE path_walk[p] \notin Inode
  BY <1>1, SightOf, SightOfNext DEF Sight, SameAt, Live
<1>2. ASSUME NEW i \in Inode, path_walk[p] = i PROVE SameAt(p)
  <2>1. inode_table'[i].type = inode_table[i].type
    BY <1>2
  <2>2. /\ Visible(p)' <=> Visible(p)
        /\ fs_dir_exists(p)' <=> fs_dir_exists(p)
        /\ fs_file_exists(p)' <=> fs_file_exists(p)
    BY <1>2, <2>1, SightOf, SightOfNext DEF Sight, Live
  <2>3. CASE fs_dir_exists(p)
    BY <2>2, <2>3 DEF SameAt, NodeAt
  <2>4. CASE fs_file_exists(p) /\ ~ fs_dir_exists(p)
    <3>1. find_inode_by_path(p) = i /\ find_inode_by_path(p)' = i
      BY <1>2, SightOf, SightOfNext DEF Sight
    <3>2. Spared(i)
      BY <1>2, <2>4, SightOf DEF Sight
    <3>3. fs_read_file(p)' = fs_read_file(p)
      BY <3>1, <3>2, FileKept
    <3> QED
      BY <2>2, <2>4, <3>3 DEF SameAt, NodeAt
  <2> QED
    BY <2>2, <2>3, <2>4 DEF SameAt, Visible
<1> QED
  BY <1>1, <1>2

(***************************************************************************)
(* A step of a call changes what the shell sees at one path at most: where *)
(* it writes an entry, or where it clears one.                             *)
(***************************************************************************)
LEMMA StepTree ==
    ASSUME PlainCalls, LinkInv, PathInv, [Next]_vars, pc \notin {"boot", "off"},
           NEW p \in NamedPath, Linking => p # Target, Deleting => p # task.path
    PROVE  SameAt(p)
<1>0. TypeOK /\ TypeOK' /\ SparesFiles /\ Walked /\ NamesInv
  <2>1. [Step]_vars
    BY DEF Step
  <2>2. TypeOK /\ TypeOK' /\ NamesInv
    BY <2>1, LinkNext DEF LinkInv, BlockInv, TypeInv, PathInv
  <2> QED
    BY <2>1, <2>2, StepSpares, PathsWalked DEF NamesInv
<1>1. ASSUME NEW i \in Inode, path_walk[p] = i
      PROVE  /\ ~ Held(i) /\ inode_table[i].type # "FREE"
             /\ pc = "file_data" => i # frame.inode
  BY <1>1, WalkedInUse DEF Held, Live
<1>2. CASE ~ Linking /\ ~ Deleting
  <2>1. SameInodes /\ path_walk'[p] = path_walk[p]
    BY <1>2, StepSight
  <2> QED
    BY <1>0, <1>1, <2>1, NodeKept DEF SameInodes, SparesFiles
<1>3. CASE Linking
  <2>1. path_walk'[p] = path_walk[p] /\ inode_table' = inode_table
    BY <1>0, <1>3, LinkSight
  <2> QED
    BY <1>0, <1>1, <2>1, NodeKept DEF SparesFiles
<1>4. CASE Deleting
  <2>1. task.path \in NamedPath /\ path_walk'[p] = path_walk[p]
    BY <1>0, <1>4, DeleteSight
  <2>2. PICK i \in Inode : /\ path_walk[task.path] = i
                           /\ inode_table' = [inode_table EXCEPT ![i] = FreeInode]
    BY <1>0, <1>4, DeleteSight
  <2>3. path_walk[p] # i
    BY <1>0, <1>4, <2>1, <2>2, OnePath DEF NamesInv
  <2>4. \A k \in Inode : path_walk[p] = k => inode_table'[k] = inode_table[k]
    BY <1>0, <2>2, <2>3 DEF TypeOK, RamTypeOK
  <2> QED
    BY <1>0, <1>1, <2>1, <2>4, NodeKept DEF SparesFiles
<1> QED
  BY <1>2, <1>3, <1>4

-----------------------------------------------------------------------------
(* What a file's blocks hold                                               *)

\* Nothing is installed but an empty root.
Bare ==
    /\ block_bitmap = {1}
    /\ \A i \in Inode \ {Root} : inode_table[i].type = "FREE"
    /\ Empty(Root)

\* fs_install, before it allocates the first block.
Blank ==
    /\ Bare
    /\ \/ pc \in {"install_superblock", "install_inodes", "install_bitmap"}
       \/ pc = "install_dirs" /\ frame.i = 0
       \/ pc = "create_dir" /\ frame.i = 1
       \/ pc = "dir_alloc" /\ frame.i = 1 /\ frame.depth = 1

ThreeOps == {"create_dir", "create_file", "delete_file"}

\* Block 0 is marked from then on, in RAM and on the disk, and never allocated.
ZeroInv ==
    /\ pc \in {"boot", "off", "idle", "install_superblock", "install_inodes",
               "install_bitmap"} => frame.i = 0
    /\ pc = "return" => task.op # "install"
    /\ (pc \notin {"boot", "off"} /\ task.op = "install") => NoBlock \in block_bitmap \/ Blank
    /\ (pc \notin {"boot", "off"} /\ task.op # "install") =>
           NoBlock \in block_bitmap /\ NoBlock \in d_block_bitmap
    /\ (pc \in {"boot", "off"} /\ d_superblock.installed = 1) => NoBlock \in d_block_bitmap

\* The loop of fs_create_file has written the content below frame.i.
WrittenInv ==
    pc = "file_data" =>
        /\ inode_table[frame.inode].size = Len(task.content)
        /\ \A j \in DirectBlock : j < frame.i =>
               /\ inode_table[frame.inode].blocks[j] # NoBlock
               /\ d_data[inode_table[frame.inode].blocks[j]].chunk = task.content[j + 1]

StoreInv == ZeroInv /\ WrittenInv

LEMMA StoreInit == Init => StoreInv
  BY DEF Init, StoreInv, ZeroInv, WrittenInv, ZeroSuperblock, NoFrame

\* In an empty root nothing is found.
LEMMA BareAbsent ==
    ASSUME TypeOK, Bare, NEW p \in NamedPath \ {<< >>}
    PROVE  ~ Exists(p)
<1> SUFFICES ASSUME find_inode_by_path(p) # NoInode PROVE FALSE
  BY DEF Exists
<1>1. p \in Path /\ FileName(p) \in Name
  BY NamedPathParts
<1>2. PICK d \in Directories, s \in Slot : Entry(d, s).in_use /\ Entry(d, s).name = FileName(p)
  BY <1>1, FoundByEntry
<1>3. d = Root
  BY <1>2 DEF Bare, Directories
<1> QED
  BY <1>1, <1>2, <1>3 DEF Bare, Empty, Named

\* No call gives block 0 back, or takes its mark off the disk.
LEMMA ZeroStays ==
    ASSUME Next, pc \notin {"boot", "off"}, NoBlock \in block_bitmap
    PROVE  /\ NoBlock \in block_bitmap'
           /\ d_block_bitmap' \in {d_block_bitmap, block_bitmap}
<1>1. \A i : NoBlock \notin BlocksOf(i)
  BY DEF BlocksOf, BlockIndices
<1>2. CASE User \/ Boot \/ Install \/ Return
  BY <1>2 DEF User, Boot, Install, Call, BootInstalled, InstallRoot, InstallSyncSuperblock,
     InstallSyncInodes, InstallSyncBitmap, InstallNextDir, InstallFinish, PowerOn, SwitchOff,
     Return, sync_block_bitmap, ram, disk, metadata
<1>3. CASE CreateDir
  BY <1>1, <1>3 DEF CreateDir, CreateDirEnter, CreateDirAlloc, CreateDirLink,
     CreateDirSyncInodes, CreateDirSyncBitmap, LinkEntry, GiveBack, free_inode,
     sync_block_bitmap, ram, disk, metadata
<1>4. CASE CreateFile
  BY <1>1, <1>4 DEF CreateFile, CreateFileEnter, CreateFileParent, CreateFileAlloc,
     CreateFileData, CreateFileLink, CreateFileSyncInodes, CreateFileSyncBitmap,
     CreateFileSyncSuperblock, LinkEntry, GiveBack, free_inode,
     sync_block_bitmap, ram, disk, metadata
<1>5. CASE DeleteFile
  BY <1>1, <1>5 DEF DeleteFile, DeleteFileEnter, DeleteSyncInodes, DeleteSyncBitmap,
     free_inode, sync_block_bitmap, ram, disk, metadata
<1> QED
  BY <1>2, <1>3, <1>4, <1>5 DEF Next, Kernel

LEMMA FirstIs ==
    ASSUME NEW S \in SUBSET Nat, NEW m \in S, \A n \in S : m <= n
    PROVE  First(S) = m
<1>1. First(S) \in S /\ First(S) <= m
  BY FirstProperty
<1>2. First(S) \in Nat /\ m \in Nat /\ m <= First(S)
  BY <1>1
<1> DEFINE f == First(S)
<1> HIDE DEF f
<1>3. f \in Nat /\ m \in Nat /\ m <= f /\ f <= m
  BY <1>1, <1>2 DEF f
<1>4. f = m
  BY <1>3
<1> QED
  BY <1>4 DEF f

LEMMA BareStays ==
    ASSUME Bare, NamesInv, UNCHANGED <<inode_table, block_bitmap, d_data>>
    PROVE  Bare'
<1>1. Empty(Root)'
  BY QuietNames, NamesStay DEF Bare
<1> QED
  BY <1>1 DEF Bare

\* fs_create_dir for the first directory of the list takes block 0.
LEMMA BlankNext ==
    ASSUME PlainCalls, ZeroGoesFirst, LinkInv, PathInv, ZeroInv, Next,
           pc \notin {"boot", "off"}, task.op = "install", Blank
    PROVE  task' = task /\ pc' \notin {"boot", "off"} /\ (NoBlock \in block_bitmap' \/ Blank')
<1>0. /\ TypeOK /\ NamesInv /\ CallInv /\ CalledInv /\ DirInv /\ SavedInv /\ Bare
      /\ InstallDirs[1] \in NamedPath \ {<< >>} /\ Len(InstallDirs) >= 1
  <2>1. TypeOK /\ NamesInv /\ CallInv /\ CalledInv /\ DirInv /\ SavedInv /\ Bare
    BY DEF LinkInv, BlockInv, TypeInv, PathInv, Blank
  <2>2. 1 \in 1 .. Len(InstallDirs) /\ Len(InstallDirs) >= 1
    BY CallsAssumption, EmptySeq DEF ZeroGoesFirst
  <2> QED
    BY <2>1, <2>2, CallsAssumption DEF PlainCalls
<1>1. InstallSyncSuperblock \/ InstallSyncInodes \/ InstallSyncBitmap \/ InstallNextDir
      \/ InstallFinish \/ CreateDirEnter \/ CreateDirAlloc
  BY DEF Blank, Next, Kernel, User, Boot, Install, CreateDir, CreateFile, DeleteFile,
     Call, BootInstalled, InstallRoot, PowerOn, SwitchOff, Return,
     CreateDirLink, CreateDirSyncInodes,
     CreateDirSyncBitmap, CreateFileEnter, CreateFileParent, CreateFileAlloc,
     CreateFileData, CreateFileLink, CreateFileSyncInodes, CreateFileSyncBitmap,
     CreateFileSyncSuperblock, DeleteFileEnter, DeleteSyncInodes, DeleteSyncBitmap
<1>2. CASE InstallSyncSuperblock
  BY <1>0, <1>2, BareStays DEF InstallSyncSuperblock, Goto, ram, Blank
<1>3. CASE InstallSyncInodes
  BY <1>0, <1>3, BareStays DEF InstallSyncInodes, Goto, ram, Blank
<1>4. CASE InstallSyncBitmap
  <2>1. UNCHANGED <<inode_table, block_bitmap, d_data>>
    BY <1>0, <1>4 DEF InstallSyncBitmap, sync_block_bitmap, SavedInv
  <2> QED
    BY <1>0, <1>4, <2>1, BareStays DEF InstallSyncBitmap, Goto, Blank, ZeroInv
<1>5. CASE InstallNextDir
  <2>1. frame.i = 0 /\ frame'.i = frame.i + 1
    BY <1>0, <1>5 DEF InstallNextDir, Blank, TypeOK, ControlTypeOK, Frame
  <2> QED
    BY <1>0, <1>5, <2>1, BareStays DEF InstallNextDir, Goto, ram, disk, Blank
<1>6. CASE InstallFinish
  BY <1>0, <1>6 DEF InstallFinish, Blank
<1>7. CASE CreateDirEnter
  <2>1. frame.dir \in NamedPath \ {<< >>}
    <3>1. PICK k \in DOMAIN InstallDirs : frame.dir = InstallDirs[k]
      BY <1>0, <1>7 DEF CreateDirEnter, DirInv
    <3>2. k \in 1 .. Len(InstallDirs)
      BY <3>1, CallsAssumption
    <3> QED
      BY <3>1, <3>2, CallsAssumption DEF PlainCalls
  <2>2. ~ Exists(frame.dir)
    BY <1>0, <2>1, BareAbsent
  <2> DEFINE missing == {k \in 1 .. Len(frame.dir) : ~ Exists(Prefix(frame.dir, k))}
  <2>3. First(missing) = 1
    <3>1. Len(frame.dir) \in Nat \ {0}
      BY <2>1, NamedPathParts
    <3>2. Prefix(frame.dir, 1) \in NamedPath \ {<< >>}
      BY <2>1, <3>1, FrontParts
    <3>3. 1 \in missing
      BY <1>0, <3>1, <3>2, BareAbsent
    <3>4. missing \in SUBSET Nat
      OBVIOUS
    <3> HIDE DEF missing
    <3>5. \A k \in missing : 1 <= k
      BY <3>1 DEF missing
    <3> QED
      BY <3>3, <3>4, <3>5, FirstIs
  <2>4. /\ frame' = [frame EXCEPT !.depth = First(missing)] /\ pc' = "dir_alloc" /\ task' = task
        /\ UNCHANGED <<inode_table, block_bitmap, d_data>>
    BY <1>7, <2>1, <2>2 DEF CreateDirEnter, Goto, ram, disk
  <2>5. frame'.i = frame.i /\ frame'.depth = 1
    BY <1>0, <2>3, <2>4 DEF TypeOK, ControlTypeOK, Frame
  <2> QED
    BY <1>0, <1>7, <2>4, <2>5, BareStays DEF CreateDirEnter, Blank
<1>8. CASE CreateDirAlloc
  <2>1. find_inode_by_path(Prefix(frame.dir, frame.depth - 1)) = Root
    <3>1. frame.depth = 1 /\ frame.dir \in Path
      BY <1>0, <1>8 DEF CreateDirAlloc, Blank, TypeOK, ControlTypeOK, Frame
    <3>2. Prefix(frame.dir, frame.depth - 1) = << >>
      BY <3>1, EmptySeq DEF Prefix, Path
    <3> QED
      BY <1>0, <3>2, FindWalk, PathWalk, NamedPathParts
  <2>2. IsDirectory(Root)
    BY <1>8, ConstantTypes DEF IsDirectory, LinkInv, Tidy, RootInv, CreateDirAlloc, Root
  <2>3. allocate_inode # NoInode
    <3>1. 1 \in FreeInodes /\ FreeInodes \in SUBSET Nat
      BY <1>0, SizesAssumption DEF ZeroGoesFirst, FreeInodes, Bare, Inode, Root
    <3> QED
      BY <3>1, FirstProperty, ConstantTypes DEF allocate_inode, FreeInodes
  <2>4. allocate_block = 0
    <3>1. FreeBlocks \in SUBSET Nat /\ 0 \in FreeBlocks /\ \A b \in FreeBlocks : 0 <= b
      BY <1>0, ConstantTypes DEF FreeBlocks, Bare, Block
    <3>2. First(FreeBlocks) = 0
      BY <3>1, FirstIs
    <3> QED
      BY <3>1, <3>2 DEF allocate_block
  <2>5. NoFreeBlock # 0
    BY SizesAssumption DEF NoFreeBlock
  <2> QED
    BY <1>8, <2>1, <2>2, <2>3, <2>4, <2>5 DEF CreateDirAlloc, Goto, NoBlock
<1> QED
  BY <1>1, <1>2, <1>3, <1>4, <1>5, <1>6, <1>7, <1>8

LEMMA ZeroNext ==
    ASSUME PlainCalls, ZeroGoesFirst, LinkInv, PathInv, ZeroInv, [Next]_vars
    PROVE  ZeroInv'
<1>0. TypeOK /\ CallInv /\ CalledInv
  BY DEF LinkInv, BlockInv, TypeInv, PathInv
<1>1. CASE UNCHANGED vars
  <2>1. UNCHANGED <<pc, task, frame, block_bitmap, d_block_bitmap, d_superblock, inode_table, d_data>>
    BY <1>1 DEF vars, ram, disk, metadata, control
  <2>2. Blank => Blank'
    BY <2>1, BareStays DEF Blank, PathInv
  <2> QED
    BY <2>1, <2>2 DEF ZeroInv
<1>2. \A request \in Requests : Call(request) =>
         pc = "idle" /\ pc' \in ThreeOps /\ task'.op \in ThreeOps
  BY CallsAssumption DEF Call, Goto, Request, ThreeOps
<1>3. ASSUME Next
      PROVE  /\ pc' \in {"boot", "off", "idle", "install_superblock", "install_inodes",
                         "install_bitmap"} => frame'.i = 0
             /\ pc' = "return" => task'.op # "install"
  <2>1. CASE Boot \/ Install \/ User \/ Return
    BY <1>2, <1>3, <2>1 DEF User, Boot, Install, BootInstalled, InstallRoot,
       InstallSyncSuperblock, InstallSyncInodes, InstallSyncBitmap, InstallNextDir,
       InstallFinish, PowerOn, SwitchOff, Return, Goto, NoFrame, ZeroInv, ThreeOps
  <2>2. CASE CreateDir
    BY <2>2 DEF CreateDir, CreateDirEnter, CreateDirAlloc, CreateDirLink,
       CreateDirSyncInodes, CreateDirSyncBitmap, Goto, Leave, CreateDirReturnsOk,
       LinkEntry, GiveBack
  <2>3. CASE CreateFile
    BY <2>3 DEF CreateFile, CreateFileEnter, CreateFileParent, CreateFileAlloc,
       CreateFileData, CreateFileLink, CreateFileSyncInodes, CreateFileSyncBitmap,
       CreateFileSyncSuperblock, Goto, Leave, LinkEntry, GiveBack
  <2>4. CASE DeleteFile
    BY <2>4 DEF DeleteFile, DeleteFileEnter, DeleteSyncInodes, DeleteSyncBitmap, Goto, Leave,
       DeleteReturns
  <2> QED
    BY <1>3, <2>1, <2>2, <2>3, <2>4 DEF Next, Kernel
<1>4. CASE Next /\ pc \in {"boot", "off"}
  <2>1. PowerOn \/ BootInstalled \/ InstallRoot
    BY <1>2, <1>4 DEF Next, Kernel, User, Boot, Install, CreateDir, CreateFile, DeleteFile,
       SwitchOff, InstallSyncSuperblock, InstallSyncInodes,
       InstallSyncBitmap, InstallNextDir, InstallFinish, Return,
       CreateDirEnter, CreateDirAlloc, CreateDirLink, CreateDirSyncInodes,
       CreateDirSyncBitmap, CreateFileEnter, CreateFileParent, CreateFileAlloc,
       CreateFileData, CreateFileLink, CreateFileSyncInodes, CreateFileSyncBitmap,
       CreateFileSyncSuperblock, DeleteFileEnter, DeleteSyncInodes, DeleteSyncBitmap
  <2>2. CASE PowerOn \/ BootInstalled
    BY <1>0, <1>3, <1>4, <2>2 DEF PowerOn, BootInstalled, Goto, disk, metadata, ZeroInv,
       CallInv, NoTask
  <2>3. CASE InstallRoot
    <3>1. /\ pc' = "install_superblock" /\ block_bitmap' = {1} /\ frame' = frame
          /\ task'.op = "install"
          /\ inode_table' = [i \in Inode |->
                 IF i = Root THEN [FreeInode EXCEPT !.type = "DIR", !.blocks[0] = 1]
                 ELSE FreeInode]
          /\ write_inode_block(1, DirSector(NewDirectory(Root, Root)))
      BY <2>3 DEF InstallRoot, Goto, NoTask
    <3>2. inode_table'[Root].blocks[0] = 1
      BY <3>1, ConstantTypes DEF Root, FreeInode, InodeRecord
    <3>3. Empty(Root)'
      BY <1>0, <3>1, <3>2, NewIsEmpty, ConstantTypes DEF Root
    <3>4. \A i \in Inode \ {Root} : inode_table'[i].type = "FREE"
      BY <3>1 DEF FreeInode
    <3>5. Blank'
      BY <3>1, <3>3, <3>4 DEF Blank, Bare
    <3> QED
      BY <1>3, <1>4, <3>1, <3>5 DEF ZeroInv
  <2> QED
    BY <2>1, <2>2, <2>3
<1>5. CASE Next /\ pc \notin {"boot", "off"} /\ ~ (task.op = "install" /\ Blank)
  <2>1. NoBlock \in block_bitmap
    BY <1>5 DEF ZeroInv
  <2>2. NoBlock \in block_bitmap' /\ d_block_bitmap' \in {d_block_bitmap, block_bitmap}
    BY <1>5, <2>1, ZeroStays
  <2>3. /\ pc' \in {"boot", "off"} \/ task'.op # "install" =>
               NoBlock \in d_block_bitmap'
    <3>1. CASE task.op # "install"
      BY <1>5, <2>1, <2>2, <3>1 DEF ZeroInv
    <3>2. CASE task.op = "install"
      <4>1. CASE InstallFinish
        BY <2>1, <4>1 DEF InstallFinish, sync_block_bitmap
      <4>2. CASE ~ InstallFinish
        <5>1. /\ pc \notin {"idle", "return"}
              /\ pc \notin FileLabel \cup {"create_file"}
              /\ pc \notin {"delete_file", "delete_inodes", "delete_bitmap"}
          BY <1>0, <3>2 DEF CallInv, CalledInv, NoTask, ZeroInv
        <5>2. task' = task /\ pc' \notin {"boot", "off"}
          BY <1>5, <3>2, <4>2, <5>1 DEF Next, Kernel, User, Boot, Install, CreateDir,
             CreateFile, DeleteFile, Call, BootInstalled, InstallRoot,
             InstallSyncSuperblock, InstallSyncInodes, InstallSyncBitmap, InstallNextDir,
             PowerOn, SwitchOff, Return, CreateDirEnter, CreateDirAlloc, CreateDirLink,
             CreateDirSyncInodes, CreateDirSyncBitmap, CreateFileEnter, CreateFileParent,
             CreateFileAlloc, CreateFileData, CreateFileLink, CreateFileSyncInodes,
             CreateFileSyncBitmap, CreateFileSyncSuperblock, DeleteFileEnter,
             DeleteSyncInodes, DeleteSyncBitmap, FileLabel,
             Goto, Leave, CreateDirReturnsOk, LinkEntry, GiveBack
        <5> QED
          BY <3>2, <5>2
      <4> QED
        BY <4>1, <4>2
    <3> QED
      BY <3>1, <3>2
  <2> QED
    BY <1>3, <1>5, <2>2, <2>3 DEF ZeroInv
<1>6. CASE Next /\ pc \notin {"boot", "off"} /\ task.op = "install" /\ Blank
  <2>1. task' = task /\ pc' \notin {"boot", "off"} /\ (NoBlock \in block_bitmap' \/ Blank')
    BY <1>6, BlankNext
  <2> QED
    BY <1>3, <1>6, <2>1 DEF ZeroInv
<1> QED
  BY <1>1, <1>4, <1>5, <1>6

\* The loop of fs_create_file, turn by turn.
LEMMA WrittenNext ==
    ASSUME LinkInv, ZeroInv, WrittenInv, [Next]_vars
    PROVE  WrittenInv'
<1>0. TypeOK /\ CallInv /\ Owned /\ LoopInv /\ frame.inode \in Inode /\ frame.i \in Nat
  <2>1. TypeOK /\ CallInv /\ Owned /\ LoopInv
    BY DEF LinkInv, BlockInv, TypeInv
  <2> QED
    BY <2>1 DEF TypeOK, ControlTypeOK, Frame
<1> SUFFICES ASSUME pc' = "file_data" PROVE WrittenInv'
  BY DEF WrittenInv
<1>1. CASE UNCHANGED vars
  BY <1>1 DEF vars, ram, disk, metadata, control, WrittenInv
<1>2. \A request \in Requests : Call(request) => pc' # "file_data"
  BY CallsAssumption DEF Call, Goto, Request
<1>3. CASE CreateFileAlloc
  <2>1. /\ allocate_inode # NoInode
        /\ inode_table' = [inode_table EXCEPT ![allocate_inode] =
               [FreeInode EXCEPT !.type = "FILE", !.size = Len(task.content)]]
        /\ frame' = [frame EXCEPT !.inode = allocate_inode, !.i = 0]
        /\ task' = task
    BY <1>3 DEF CreateFileAlloc, Leave, Goto
  <2>2. /\ frame'.inode = allocate_inode /\ frame'.i = 0 /\ allocate_inode \in Inode
    BY <1>0, <2>1, AllocateInode DEF TypeOK, ControlTypeOK, Frame
  <2>3. inode_table'[frame'.inode].size = Len(task'.content)
    BY <1>0, <2>1, <2>2 DEF TypeOK, RamTypeOK, FreeInode
  <2>4. \A j \in DirectBlock : ~ (j < frame'.i)
    BY <2>2, SizesAssumption DEF DirectBlock
  <2> QED
    BY <2>3, <2>4 DEF WrittenInv
<1>4. CASE CreateFileData
  <2> DEFINE n == frame.inode
             b == allocate_block
             node == inode_table[n]
  <2>1. /\ pc = "file_data" /\ frame.i < BlocksNeeded
        /\ b # NoFreeBlock
        /\ inode_table' = [inode_table EXCEPT ![n].blocks[frame.i] = b]
        /\ write_inode_block(b, ChunkSector(task.content[frame.i + 1]))
        /\ frame' = [frame EXCEPT !.i = @ + 1] /\ task' = task
    BY <1>4 DEF CreateFileData, GiveBack, Leave, Goto
  <2>2. b \in Block /\ b \notin block_bitmap /\ b # NoBlock
    <3>1. task.op # "install"
      BY <1>0, <2>1 DEF CallInv, FileLabel
    <3>2. NoBlock \in block_bitmap
      BY <2>1, <3>1 DEF ZeroInv
    <3> QED
      BY <2>1, <3>2, AllocateBlock
  <2>3. frame.i \in DirectBlock
    <3>1. BlocksNeeded <= FS_INODE_DIRECT_BLOCKS /\ FS_INODE_DIRECT_BLOCKS \in Nat
          /\ BlocksNeeded \in Nat
      <4>1. Len(task.content) \in Nat
        BY <1>0, TaskType DEF TypeOK, ControlTypeOK
      <4> QED
        BY <4>1, SizesAssumption DEF BlocksNeeded, Lesser
    <3> QED
      BY <1>0, <2>1, <3>1 DEF DirectBlock
  <2>4. frame'.inode = n /\ frame'.i = frame.i + 1
    BY <1>0, <2>1 DEF TypeOK, ControlTypeOK, Frame
  <2>5. /\ inode_table'[n].size = node.size
        /\ inode_table'[n].blocks = [node.blocks EXCEPT ![frame.i] = b]
        /\ node.blocks \in [DirectBlock -> Block]
    BY <1>0, <2>1 DEF TypeOK, RamTypeOK, InodeRecord
  <2>6. d_data'[b].chunk = task.content[frame.i + 1]
    BY <1>0, <2>1, <2>2 DEF write_inode_block, ChunkSector, ZeroSector, TypeOK, DiskTypeOK
  <2>7. \A j \in DirectBlock : j < frame.i =>
           /\ node.blocks[j] # NoBlock
           /\ d_data'[node.blocks[j]] = d_data[node.blocks[j]]
           /\ d_data[node.blocks[j]].chunk = task.content[j + 1]
    <3> SUFFICES ASSUME NEW j \in DirectBlock, j < frame.i
                 PROVE  /\ node.blocks[j] # NoBlock
                        /\ d_data'[node.blocks[j]] = d_data[node.blocks[j]]
                        /\ d_data[node.blocks[j]].chunk = task.content[j + 1]
      OBVIOUS
    <3>1. /\ node.blocks[j] # NoBlock /\ node.blocks[j] \in Block
          /\ d_data[node.blocks[j]].chunk = task.content[j + 1]
      BY <2>1, <2>5 DEF WrittenInv
    <3>2. node.blocks[j] # b
      BY <1>0, <2>2, <3>1 DEF Owned, BlocksOf, BlockIndices
    <3> QED
      BY <1>0, <2>1, <2>2, <3>1, <3>2, WriteSpares
  <2>8. ASSUME NEW j \in DirectBlock, j < frame'.i
        PROVE  /\ inode_table'[n].blocks[j] # NoBlock
               /\ d_data'[inode_table'[n].blocks[j]].chunk = task.content[j + 1]
    <3>1. CASE j = frame.i
      BY <2>2, <2>3, <2>5, <2>6, <3>1
    <3>2. CASE j # frame.i
      <4>1. j < frame.i
        BY <1>0, <2>4, <2>8, <3>2, SizesAssumption DEF DirectBlock
      <4>2. inode_table'[n].blocks[j] = node.blocks[j]
        BY <2>3, <2>5, <3>2
      <4> QED
        BY <2>7, <4>1, <4>2
    <3> QED
      BY <3>1, <3>2
  <2> QED
    BY <2>1, <2>4, <2>5, <2>8 DEF WrittenInv
<1>5. ASSUME Next PROVE CreateFileAlloc \/ CreateFileData
  BY <1>2, <1>5 DEF Next, Kernel, User, Boot, Install, CreateDir, CreateFile, DeleteFile,
     BootInstalled, InstallRoot, InstallSyncSuperblock, InstallSyncInodes,
     InstallSyncBitmap, InstallNextDir, InstallFinish, PowerOn, SwitchOff, Return,
     CreateDirEnter, CreateDirAlloc, CreateDirLink, CreateDirSyncInodes,
     CreateDirSyncBitmap, CreateFileEnter, CreateFileParent, CreateFileLink,
     CreateFileSyncInodes, CreateFileSyncBitmap, CreateFileSyncSuperblock,
     DeleteFileEnter, DeleteSyncInodes, DeleteSyncBitmap,
     Goto, Leave, CreateDirReturnsOk, DeleteReturns, LinkEntry, GiveBack
<1> QED
  BY <1>1, <1>3, <1>4, <1>5

LEMMA StoreNext ==
    PlainCalls /\ ZeroGoesFirst /\ LinkInv /\ PathInv /\ StoreInv /\ [Next]_vars => StoreInv'
  BY ZeroNext, WrittenNext DEF StoreInv

(***************************************************************************)
(* What the shell sees where an entry was written: the directory, or the   *)
(* file with all of its content.                                           *)
(***************************************************************************)
LEMMA NewNode ==
    ASSUME PlainCalls, ShortFiles, LinkInv, PathInv, StoreInv, TypeOK', Linking,
           NEW t, t = Target, Visible(t)'
    PROVE  NodeAt(t)' = IF pc = "dir_link" THEN [type |-> "DIR", content |-> << >>]
                             ELSE [type |-> "FILE", content |-> task.content]
<1>0. /\ TypeOK /\ CallInv /\ CalledInv /\ Owned /\ LoopInv /\ Tidy /\ WrittenInv
      /\ frame.inode \in Inode /\ frame.i \in Nat /\ task.content \in Seq(Data)
  <2>1. TypeOK /\ CallInv /\ CalledInv /\ Owned /\ LoopInv /\ Tidy /\ WrittenInv
    BY DEF LinkInv, BlockInv, TypeInv, PathInv, StoreInv
  <2> QED
    BY <2>1, TaskType DEF TypeOK, ControlTypeOK, Frame
<1>1. /\ t \in NamedPath /\ path_walk'[t] \in {frame.inode, NoInode}
      /\ inode_table' = inode_table /\ frame' = frame
  BY <1>0, LinkSight
<1>2. path_walk'[t] = frame.inode /\ find_inode_by_path(t)' = frame.inode
  BY <1>1, SightOfNext, ConstantTypes DEF Sight, Live
<1>3. CASE pc = "dir_link"
  <2>1. inode_table'[frame.inode].type = "DIR"
    BY <1>0, <1>1, <1>3 DEF Tidy, UnlinkedInv
  <2>2. fs_dir_exists(t)'
    BY <1>0, <1>1, <1>2, <2>1, SightOfNext DEF Sight
  <2> QED
    BY <1>3, <2>2 DEF NodeAt
<1>4. CASE pc = "file_data" /\ CreateFileLink
  <2> DEFINE node == inode_table[frame.inode]
             n == Len(task.content)
  <2>1. /\ frame.i >= BlocksNeeded /\ node.type = "FILE" /\ node.size = n /\ n \in Nat
        /\ n <= FS_INODE_DIRECT_BLOCKS /\ FS_INODE_DIRECT_BLOCKS \in Nat
    <3>1. task \in Requests
      BY <1>0, <1>4 DEF CallInv, CalledInv, FileLabel
    <3> QED
      BY <1>0, <1>4, <3>1, SizesAssumption
         DEF CreateFileLink, LoopInv, WrittenInv, ShortFiles
  <2>2. \A j \in DirectBlock : j < n =>
           node.blocks[j] # NoBlock /\ d_data[node.blocks[j]].chunk = task.content[j + 1]
    <3>1. BlocksNeeded = n
      BY <2>1 DEF BlocksNeeded, Lesser
    <3> QED
      BY <1>0, <1>4, <2>1, <3>1, SizesAssumption DEF WrittenInv, DirectBlock
  <2>3. \A c \in BlocksOf(frame.inode) : d_data'[c] = d_data[c]
    <3>1. PICK entries :
             write_inode_block(inode_table[frame.parent].blocks[0], DirSector(entries))
      BY <1>4 DEF Linking, CreateFileLink, LinkEntry, GiveBack, Leave, Goto
    <3>2. inode_table[frame.parent].type = "DIR" /\ frame.parent \in Inode
      BY <1>0, <1>4 DEF Tidy, ParentInv, HoldsParent, TypeOK, ControlTypeOK, Frame
    <3> QED
      BY <1>0, <2>1, <3>1, <3>2, DirWriteSpares
  <2>4. ~ fs_dir_exists(t)'
    BY <1>0, <1>1, <1>2, <2>1, SightOfNext DEF Sight
  <2>5. ASSUME NEW k \in 1 .. n
        PROVE  /\ k <= FS_INODE_DIRECT_BLOCKS
               /\ read_inode_block(node.blocks[k - 1])'.chunk = task.content[k]
    <3>1. k - 1 \in DirectBlock /\ k - 1 < n /\ k - 1 + 1 = k
      BY <2>1 DEF DirectBlock
    <3>2. node.blocks[k - 1] # NoBlock /\ d_data[node.blocks[k - 1]].chunk = task.content[k]
      BY <2>2, <3>1
    <3>3. d_data'[node.blocks[k - 1]] = d_data[node.blocks[k - 1]]
      BY <2>3, <3>1, <3>2 DEF BlocksOf, BlockIndices
    <3>4. k <= FS_INODE_DIRECT_BLOCKS
      BY <2>1
    <3> QED
      BY <1>1, <3>2, <3>3, <3>4 DEF read_inode_block
  <2>6. fs_read_file(t)' = [k \in 1 .. n |-> task.content[k]]
    BY <1>1, <1>2, <2>1, <2>5 DEF fs_read_file
  <2>7. [k \in 1 .. n |-> task.content[k]] = task.content
    BY <1>0
  <2> QED
    BY <1>4, <2>4, <2>6, <2>7 DEF NodeAt
<1> QED
  BY <1>3, <1>4 DEF Linking, CreateDirLink, CreateFileLink

-----------------------------------------------------------------------------
(* What an installation lays out                                           *)

\* The inode table and the bitmap after the first n directories of the list.
FirstBlock(i) == IF i = Root THEN 1 ELSE IF i = 1 THEN NoBlock ELSE i
TableOf(n) ==
    [i \in Inode |->
        IF i <= n THEN [FreeInode EXCEPT !.type = "DIR", !.blocks[0] = FirstBlock(i)]
        ELSE FreeInode]
MarksOf(n) == IF n = 0 THEN {1} ELSE 0 .. n

\* The first n are found, as inodes 1 .. n, and nothing else.
Made(n) == {<< >>} \cup {InstallDirs[j] : j \in 1 .. n}
WalksOf(n) ==
    /\ \A j \in 1 .. n : path_walk[InstallDirs[j]] = j
    /\ \A p \in NamedPath \ Made(n) : Absent(p)

\* No directory has more entries than the n, "." and "..".
EntriesOf(n) == \A d \in Directories : \A s \in Slot : Entry(d, s).in_use => s <= n + 1

Laid(n, linked) ==
    /\ inode_table = TableOf(n) /\ block_bitmap = MarksOf(n)
    /\ WalksOf(linked) /\ EntriesOf(linked)

\* fs_create_dir for the directory that frame.i counts.
Laying ==
    /\ frame.i \in 1 .. Len(InstallDirs) /\ frame.dir = InstallDirs[frame.i]
    /\ pc # "create_dir" => frame.depth = Len(frame.dir)
    /\ pc \notin {"create_dir", "dir_alloc"} => frame.inode = frame.i

LayInv ==
    /\ pc \in {"install_superblock", "install_inodes", "install_bitmap"} => Laid(0, 0)
    /\ pc = "install_dirs" => frame.i <= Len(InstallDirs) /\ Laid(frame.i, frame.i)
    /\ (task.op = "install" /\ pc \in DirLabel \cup {"create_dir"}) =>
           /\ Laying
           /\ CASE pc \in {"create_dir", "dir_alloc"} -> Laid(frame.i - 1, frame.i - 1)
                [] pc = "dir_link" -> Laid(frame.i, frame.i - 1)
                [] OTHER -> Laid(frame.i, frame.i)

LEMMA ListParts ==
    ASSUME PlainCalls, PlainInstall
    PROVE  /\ Len(InstallDirs) \in Nat \ {0} /\ Len(InstallDirs) < FS_MAX_INODES
           /\ Len(InstallDirs) < FS_MAX_BLOCKS
           /\ Len(InstallDirs) + 2 <= SECTOR_DIR_ENTRIES
           /\ DOMAIN InstallDirs = 1 .. Len(InstallDirs)
           /\ \A k \in 1 .. Len(InstallDirs) :
                  /\ InstallDirs[k] \in NamedPath \ {<< >>} /\ InstallDirs[k] \in Paths
                  /\ Fronts(InstallDirs[k]) \subseteq Made(k)
                  /\ Parent(InstallDirs[k]) # InstallDirs[1]
                  /\ \A j \in 1 .. Len(InstallDirs) : InstallDirs[j] = InstallDirs[k] => j = k
<1>1. DOMAIN InstallDirs = 1 .. Len(InstallDirs) /\ Len(InstallDirs) \in Nat \ {0}
  BY CallsAssumption, EmptySeq DEF PlainInstall
<1> QED
  BY <1>1, CallsAssumption DEF PlainInstall, PlainCalls, Made

LEMMA LaidStays ==
    ASSUME PlainCalls, PlainInstall, NamesInv, TypeOK, TypeOK',
           NEW n, NEW linked \in 0 .. Len(InstallDirs), Laid(n, linked),
           UNCHANGED <<inode_table, block_bitmap, d_data>>
    PROVE  Laid(n, linked)'
<1>1. NamesInv' /\ SameEdges
  BY QuietNames, NamesStay
<1>2. Walked /\ Walked'
  BY <1>1, PathsWalked, PathsWalkedNext DEF NamesInv
<1>3. \A p \in NamedPath : path_walk'[p] = path_walk[p]
  BY <1>1, <1>2, SameWalks DEF SameEdges
<1>4. \A d \in Directories : \A s \in Slot : Entry(d, s)' = Entry(d, s)
  BY DirKept DEF Directories
<1>5. Directories' = Directories
  BY DEF Directories
<1>6. EntriesOf(linked)'
  BY <1>4, <1>5 DEF Laid, EntriesOf
<1>7. \A j \in 1 .. linked : InstallDirs[j] \in NamedPath
  BY ListParts
<1> QED
  BY <1>3, <1>6, <1>7 DEF Laid, WalksOf, Absent

\* Under a root without entries nothing is found.
LEMMA EmptyWalks ==
    Walked /\ (\A i \in Inode : Empty(i)) => \A p \in NamedPath \ {<< >>} : Absent(p)
<1> SUFFICES ASSUME Walked, \A i \in Inode : Empty(i), NEW p \in NamedPath \ {<< >>}
             PROVE  path_walk[p] = NoInode
  BY DEF Absent
<1>1. Parent(p) \in NamedPath /\ FileName(p) \in Name
  BY NamedPathParts
<1>2. PICK d \in Found : d = path_walk[Parent(p)]
  BY <1>1 DEF Walked
<1>3. \A i \in Inode : ~ Edge(d, FileName(p), i)
  BY DEF Edge, Empty, Directories
<1>4. \A i \in Inode : path_walk[p] # i
  BY <1>2, <1>3 DEF Walked
<1>5. p \in NamedPath
  OBVIOUS
<1>6. path_walk[p] \in Inode \cup {NoInode}
  BY <1>5 DEF Walked, Found
<1> QED
  BY <1>4, <1>6

LEMMA EmptyWalksNext ==
    Walked' /\ (\A i \in Inode : Empty(i))' => (\A p \in NamedPath \ {<< >>} : Absent(p))'
BY EmptyWalks, PTL

\* The root directory, as fs_install writes it.
LEMMA RootLaid ==
    ASSUME PlainCalls, PlainInstall, LinkInv, PathInv, PathInv', TypeOK', InstallRoot
    PROVE  Laid(0, 0)'
<1>0. TypeOK
  BY DEF LinkInv, BlockInv, TypeInv
<1>1. /\ block_bitmap' = {1}
      /\ inode_table' = [i \in Inode |->
             IF i = Root THEN [FreeInode EXCEPT !.type = "DIR", !.blocks[0] = 1]
             ELSE FreeInode]
      /\ write_inode_block(1, DirSector(NewDirectory(Root, Root)))
  BY DEF InstallRoot
<1>2. inode_table' = TableOf(0)
  <2>1. \A i \in Inode : i <= 0 <=> i = Root
    BY SizesAssumption DEF Inode, Root
  <2>2. TableOf(0) = [i \in Inode |->
             IF i = Root THEN [FreeInode EXCEPT !.type = "DIR", !.blocks[0] = 1]
             ELSE FreeInode]
    BY <2>1 DEF TableOf, FirstBlock
  <2> QED
    BY <1>1, <2>2
<1>3. inode_table'[Root].blocks[0] = 1 /\ Root \in Inode /\ 1 \in Block
  BY <1>1, ConstantTypes DEF Root, FreeInode, InodeRecord
<1>4. Directories' \subseteq {Root}
  BY <1>1 DEF Directories, FreeInode
<1>5. \A i \in Inode : Empty(i)'
  <2>1. Empty(Root)'
    BY <1>0, <1>1, <1>3, NewIsEmpty
  <2> QED
    BY <1>4, <2>1 DEF Empty
<1>6. Walked'
  BY PathsWalkedNext DEF PathInv, NamesInv
<1>7. WalksOf(0)'
  BY <1>5, <1>6, EmptyWalksNext DEF WalksOf, Made
<1>8. EntriesOf(0)'
  <2>1. \A s \in Slot :
           Entry(Root, s)' = IF s \in StoredSlot THEN NewDirectory(Root, Root)[s] ELSE FreeEntry
    <3>1. PICK i \in Inode, b \in Block : i = Root /\ b = 1 /\ b # NoBlock
      BY <1>3 DEF NoBlock
    <3>2. /\ write_inode_block(b, DirSector(NewDirectory(i, i)))
          /\ inode_table'[i].blocks[0] = b
      BY <1>1, <1>3, <3>1
    <3>3. \A s \in Slot :
             Entry(i, s)' = IF s \in StoredSlot THEN NewDirectory(i, i)[s] ELSE FreeEntry
      BY <1>0, <3>1, <3>2, DirRewritten
    <3> QED
      BY <3>1, <3>3
  <2>2. \A s \in Slot : s > 1 => NewDirectory(Root, Root)[s] = FreeEntry
    BY SizesAssumption DEF NewDirectory, Slot
  <2> QED
    BY <1>4, <2>1, <2>2, SizesAssumption DEF EntriesOf, FreeEntry, Slot
<1> QED
  BY <1>1, <1>2, <1>7, <1>8 DEF Laid, MarksOf

\* What the allocators then find.
LEMMA NextFree ==
    ASSUME PlainCalls, PlainInstall, NEW n \in 0 .. Len(InstallDirs) - 1, Laid(n, n)
    PROVE  /\ allocate_inode = n + 1 /\ n + 1 \in Inode \ {Root}
           /\ allocate_block = FirstBlock(n + 1) /\ FirstBlock(n + 1) \in Block
<1>1. /\ Len(InstallDirs) \in Nat /\ Len(InstallDirs) < FS_MAX_INODES
      /\ Len(InstallDirs) < FS_MAX_BLOCKS /\ n \in Nat
      /\ FS_MAX_INODES \in Nat /\ FS_MAX_BLOCKS \in Nat
  BY ListParts, SizesAssumption
<1>2. n + 1 \in Inode \ {Root} /\ NoInode \notin Inode
  BY <1>1, ConstantTypes DEF Inode, Root
<1>3. FreeInodes = {i \in Inode : i > n}
  <2>1. \A i \in Inode : inode_table[i].type = IF i <= n THEN "DIR" ELSE "FREE"
    BY DEF Laid, TableOf, FreeInode
  <2> QED
    BY <1>1, <2>1 DEF FreeInodes, Inode
<1>4. First(FreeInodes) = n + 1
  <2>1. FreeInodes \in SUBSET Nat /\ n + 1 \in FreeInodes /\ \A i \in FreeInodes : n + 1 <= i
    BY <1>1, <1>2, <1>3 DEF Inode
  <2> QED
    BY <2>1, FirstIs
<1>5. FirstBlock(n + 1) \in FreeBlocks /\ \A b \in FreeBlocks : FirstBlock(n + 1) <= b
  BY <1>1, SizesAssumption DEF FreeBlocks, Laid, MarksOf, FirstBlock, Block, Root, NoBlock
<1>6. First(FreeBlocks) = FirstBlock(n + 1)
  <2>1. FreeBlocks \in SUBSET Nat
    BY <1>1 DEF FreeBlocks, Block
  <2> QED
    BY <1>5, <2>1, FirstIs
<1> QED
  BY <1>2, <1>3, <1>4, <1>5, <1>6, <1>1 DEF allocate_inode, allocate_block, FreeBlocks

\* The way to the next directory of the list is there.
LEMMA WayMade ==
    ASSUME PlainCalls, PlainInstall, NEW n \in 1 .. Len(InstallDirs)
    PROVE  /\ \A k \in 0 .. Len(InstallDirs[n]) - 1 : Prefix(InstallDirs[n], k) \in Made(n - 1)
           /\ Parent(InstallDirs[n]) \in Made(n - 1)
           /\ InstallDirs[n] \notin Made(n - 1)
<1> DEFINE dir == InstallDirs[n]
<1>1. /\ dir \in NamedPath \ {<< >>} /\ dir \in Path /\ Fronts(dir) \subseteq Made(n)
      /\ Len(dir) \in Nat \ {0} /\ Parent(dir) = Prefix(dir, Len(dir) - 1) /\ n \in Nat
  BY ListParts, NamedPathParts DEF Parent, Prefix
<1>2. \A p \in Made(n) : p # dir => p \in Made(n - 1)
  BY <1>1 DEF Made
<1>3. ASSUME NEW k \in 0 .. Len(dir) - 1 PROVE Prefix(dir, k) \in Made(n - 1)
  <2>1. k \in 0 .. Len(dir) /\ k # Len(dir)
    BY <1>1
  <2>2. Prefix(dir, k) \in Fronts(dir) /\ Len(Prefix(dir, k)) = k
    BY <1>1, <2>1, PathParts DEF Fronts
  <2> QED
    BY <1>1, <1>2, <2>1, <2>2
<1>4. dir \notin Made(n - 1)
  <2>1. \A j \in 1 .. n - 1 : j \in 1 .. Len(InstallDirs) /\ j # n
    BY ListParts
  <2> QED
    BY <1>1, <2>1, ListParts DEF Made
<1>5. Len(dir) - 1 \in 0 .. Len(dir) - 1
  BY <1>1
<1> QED
  BY <1>1, <1>3, <1>4, <1>5

LEMMA MadeWalks ==
    ASSUME PlainCalls, PlainInstall, Walked, NEW n \in 0 .. Len(InstallDirs), NEW t \in Nat, n <= t,
           WalksOf(n), inode_table = TableOf(t), NEW p \in Made(n)
    PROVE  /\ path_walk[p] \in Inode /\ path_walk[p] \in 0 .. n
           /\ inode_table[path_walk[p]].type = "DIR"
           /\ p # InstallDirs[1] => inode_table[path_walk[p]].blocks[0] # NoBlock
<1>1. /\ Len(InstallDirs) \in Nat /\ Len(InstallDirs) < FS_MAX_INODES /\ n \in Nat
      /\ FS_MAX_INODES \in Nat
  BY ListParts, SizesAssumption
<1>2. path_walk[p] \in 0 .. n /\ (p # InstallDirs[1] => path_walk[p] # 1)
  <2>1. CASE p = << >>
    BY <1>1, <2>1 DEF Walked, Root
  <2>2. CASE p # << >>
    <3>1. PICK j \in 1 .. n : p = InstallDirs[j]
      BY <2>2 DEF Made
    <3> QED
      BY <1>1, <3>1 DEF WalksOf
  <2> QED
    BY <2>1, <2>2
<1>3. PICK i \in Inode : i = path_walk[p]
  BY <1>1, <1>2 DEF Inode
<1>4. i <= t
  BY <1>1, <1>2, <1>3
<1>5. inode_table[i].type = "DIR" /\ inode_table[i].blocks[0] = FirstBlock(i)
  BY <1>4, ConstantTypes DEF TableOf, FreeInode
<1> QED
  BY <1>1, <1>2, <1>3, <1>5 DEF FirstBlock, NoBlock, Root

\* fs_create_dir allocates for the n-th directory of the list.
LEMMA AllocLaid ==
    ASSUME PlainCalls, PlainInstall, LinkInv, PathInv, LayInv, TypeOK', [Next]_vars,
           CreateDirAlloc, task.op = "install",
           NEW n, n = frame.i
    PROVE  /\ pc' = "dir_link" /\ frame' = [frame EXCEPT !.parent = frame'.parent, !.inode = n]
           /\ task' = task /\ Laid(n, n - 1)'
<1>0. /\ TypeOK /\ Owned /\ pc = "dir_alloc" /\ Laying /\ Laid(n - 1, n - 1) /\ Walked
      /\ n \in 1 .. Len(InstallDirs) /\ n \in Nat /\ n - 1 \in 0 .. Len(InstallDirs) - 1
      /\ n - 1 \in 0 .. Len(InstallDirs) /\ n - 1 \in Nat
  <2>1. pc = "dir_alloc" /\ Laying /\ Laid(n - 1, n - 1)
    BY DEF CreateDirAlloc, LayInv, DirLabel
  <2>2. TypeOK /\ Owned /\ Walked
    BY PathsWalked DEF LinkInv, BlockInv, TypeInv, PathInv, NamesInv
  <2>3. n \in 1 .. Len(InstallDirs)
    BY <2>1 DEF Laying
  <2> QED
    BY <2>1, <2>2, <2>3, ListParts
<1> DEFINE dir == InstallDirs[n]
           above == Prefix(frame.dir, frame.depth - 1)
<1>1. frame.dir = dir /\ above = Parent(dir) /\ above \in Made(n - 1) /\ above \in Path
  <2>1. frame.dir = dir /\ frame.depth = Len(dir)
    BY <1>0 DEF Laying
  <2> QED
    BY <1>0, <2>1, WayMade, ListParts, NamedPathParts DEF Parent, Prefix
<1> HIDE DEF dir
<1>2. PICK c \in Inode : c = find_inode_by_path(above) /\ inode_table[c].type = "DIR"
  BY <1>0, <1>1, MadeWalks, FindWalk DEF Laid
<1>3. IsDirectory(c)
  BY <1>2, ConstantTypes DEF IsDirectory
<1>4. PICK i \in Inode, b \in Block :
         /\ i = n /\ i = allocate_inode /\ b = FirstBlock(n) /\ b = allocate_block
         /\ i # Root
  <2>1. n - 1 + 1 = n
    BY <1>0
  <2> QED
    BY <1>0, <2>1, NextFree
<1>5. i # NoInode /\ b # NoFreeBlock /\ b \notin block_bitmap
  <2>1. b # NoFreeBlock
    BY SizesAssumption DEF Block, NoFreeBlock
  <2> QED
    BY <1>4, <2>1, ConstantTypes, AllocateBlock
<1>6. /\ inode_table' = [inode_table EXCEPT ![i] =
             [FreeInode EXCEPT !.type = "DIR", !.blocks[0] = b]]
      /\ block_bitmap' = block_bitmap \cup {b}
      /\ write_inode_block(b, DirSector(NewDirectory(i, c)))
      /\ frame' = [frame EXCEPT !.parent = c, !.inode = i]
      /\ pc' = "dir_link" /\ task' = task
  BY <1>2, <1>3, <1>4, <1>5 DEF CreateDirAlloc, Goto
<1>7. inode_table' = TableOf(n)
  <2>1. \A k \in Inode : k <= n <=> k <= n - 1 \/ k = i
    BY <1>0, <1>4, SizesAssumption DEF Inode
  <2> QED
    BY <1>0, <1>4, <1>6, <2>1 DEF Laid, TableOf
<1>8. block_bitmap' = MarksOf(n)
  <2>1. block_bitmap = MarksOf(n - 1)
    BY <1>0 DEF Laid
  <2>2. CASE n = 1
    BY <1>4, <1>6, <2>1, <2>2 DEF MarksOf, FirstBlock, Root, NoBlock
  <2>3. CASE n # 1
    <3>0. n # 0 /\ n - 1 # 0
      BY <1>0, <2>3
    <3>1. block_bitmap = 0 .. n - 1 /\ b = n
      BY <1>4, <2>1, <2>3, <3>0 DEF MarksOf, FirstBlock, Root
    <3> QED
      BY <1>0, <1>6, <2>3, <3>1 DEF MarksOf
  <2> QED
    BY <2>2, <2>3
<1>9. WalksOf(n - 1)'
  <2>1. ~ Linking /\ ~ Deleting
    BY <1>6 DEF Linking, Deleting
  <2>2. \A p \in NamedPath : path_walk'[p] = path_walk[p]
    BY <2>1, StepSight
  <2>3. \A j \in 1 .. n - 1 : InstallDirs[j] \in NamedPath
    BY <1>0, ListParts
  <2> QED
    BY <1>0, <2>2, <2>3 DEF Laid, WalksOf, Absent
<1>10. EntriesOf(n - 1)'
  <2> SUFFICES ASSUME NEW d \in Directories', NEW s \in Slot, Entry(d, s)'.in_use
               PROVE  s <= n - 1 + 1
    BY DEF EntriesOf
  <2>0. d \in Inode /\ s \in Nat
    BY SizesAssumption DEF Directories, Slot
  <2>1. CASE d = i
    <3>1. b # NoBlock /\ inode_table'[i].blocks[0] = b
      BY <1>6, <2>1, ConstantTypes DEF Directories, TypeOK, RamTypeOK, FreeInode
    <3>2. Entry(i, s)' = IF s \in StoredSlot THEN NewDirectory(i, c)[s] ELSE FreeEntry
      BY <1>0, <1>6, <3>1, DirRewritten
    <3>3. s > 1 => NewDirectory(i, c)[s] = FreeEntry
      BY <2>0 DEF NewDirectory
    <3>4. s <= 1
      BY <2>0, <2>1, <3>2, <3>3 DEF FreeEntry
    <3> QED
      BY <1>0, <2>0, <3>4
  <2>2. CASE d # i
    <3>1. inode_table'[d] = inode_table[d] /\ d \in Directories
      BY <1>6, <2>0, <2>2 DEF Directories
    <3>2. d_data'[inode_table[d].blocks[0]] = d_data[inode_table[d].blocks[0]]
      BY <1>0, <1>5, <1>6, <3>1, DirBlocks, WriteSpares
    <3>3. Entry(d, s)' = Entry(d, s)
      BY <2>0, <3>1, <3>2, DirKept
    <3> QED
      BY <1>0, <3>1, <3>3 DEF Laid, EntriesOf
  <2> QED
    BY <2>1, <2>2
<1> QED
  BY <1>0, <1>4, <1>6, <1>7, <1>8, <1>9, <1>10 DEF Laid, TypeOK, ControlTypeOK, Frame

\* The entry goes to the first free slot of the parent, if its sector has that.
LEMMA LinkWrites ==
    ASSUME PlainCalls, LinkInv, PathInv, TypeOK', Linking,
           NEW c, c = frame.parent, NEW t, t = Target
    PROVE  /\ c \in Inode /\ inode_table[c].type = "DIR" /\ path_walk[Parent(t)] = c
           /\ frame.inode \in Inode \ {Root} /\ Unlinked(frame.inode) /\ Parent(t) # t
           /\ \E f \in Slot :
                  /\ ~ Entry(c, f).in_use
                  /\ \A s \in Slot : s < f => Entry(c, s).in_use
                  /\ \A d \in Directories : \A s \in Slot :
                         Entry(d, s)' = IF d = c /\ s = f /\ f \in StoredSlot
                                        THEN [in_use |-> TRUE, name |-> FileName(t),
                                              inode |-> frame.inode]
                                        ELSE Entry(d, s)
<1>0. /\ TypeOK /\ CallInv /\ Owned /\ TreeOK /\ Tidy /\ NamesInv /\ Walked
      /\ c \in Inode /\ frame.inode \in Inode
  BY PathsWalked DEF LinkInv, Tidy, BlockInv, TypeInv, TypeOK, ControlTypeOK, Frame,
     PathInv, NamesInv
<1>1. pc \in {"dir_link", "file_data"}
  BY DEF Linking, CreateDirLink, CreateFileLink
<1>2. /\ inode_table[c].type = "DIR" /\ frame.inode # Root /\ Unlinked(frame.inode)
  BY <1>0, <1>1 DEF Tidy, ParentInv, HoldsParent, RootInv, UnlinkedInv
<1>3. path_walk[Parent(t)] = c /\ Parent(t) # t
  <2>1. CASE pc = "dir_link"
    <3>1. frame.dir \in NamedPath /\ frame.depth \in 1 .. Len(frame.dir)
      BY <1>0, <2>1, PathsInHand DEF PathInv, CallInv, DirLabel
    <3> QED
      BY <2>1, <3>1, FrontParts, NamedPathParts DEF Target, PathInv, PlaceInv
  <2>2. CASE pc = "file_data"
    <3>1. task.op = "create_file" /\ task.path # << >>
      BY <1>0, <2>2 DEF CallInv, FileLabel
    <3>2. task.path \in NamedPath
      BY <1>0, <3>1, PathsInHand DEF PathInv
    <3> QED
      BY <2>2, <3>1, <3>2, NamedPathParts
         DEF Target, PathInv, PlaceInv, HoldsParent, ParentFound
  <2> QED
    BY <1>1, <2>1, <2>2
<1>4. LinkEntry(FileName(t), pc')
  BY <1>1 DEF Linking, CreateDirLink, CreateFileLink, LinkEntry, GiveBack, Leave,
     Goto, Target
<1> DEFINE free == {s \in Slot : ~ dir_entries(frame.parent)[s].in_use}
           entry == [in_use |-> TRUE, name |-> FileName(t), inode |-> frame.inode]
<1>5. /\ free # {}
      /\ write_inode_block(inode_table[frame.parent].blocks[0],
             DirSector([dir_entries(frame.parent) EXCEPT ![First(free)] = entry]))
      /\ inode_table' = inode_table
  BY <1>4 DEF Linking, LinkEntry, GiveBack, Leave, Goto, ram
<1>6. PICK f \in Slot : f = First(free) /\ f \in free /\ \A s \in free : f <= s
  <2>1. free \in SUBSET Nat
    BY SizesAssumption DEF Slot
  <2> QED
    BY <1>5, <2>1, FirstProperty
<1>7. ~ Entry(c, f).in_use /\ \A s \in Slot : s < f => Entry(c, s).in_use
  <2>1. \A s \in Slot : s < f => s \notin free
    BY <1>6, SizesAssumption DEF Slot
  <2> QED
    BY <1>6, <2>1 DEF Entry
<1> HIDE DEF free
<1>8. write_inode_block(inode_table[c].blocks[0], DirSector([dir_entries(c) EXCEPT
           ![f] = [in_use |-> TRUE, name |-> FileName(t), inode |-> frame.inode]]))
  BY <1>5, <1>6
<1>9. \A d \in Directories : \A s \in Slot :
         Entry(d, s)' = IF d = c /\ s = f /\ f \in StoredSlot
                        THEN [in_use |-> TRUE, name |-> FileName(t), inode |-> frame.inode]
                        ELSE Entry(d, s)
  BY <1>0, <1>2, <1>5, <1>8, EntryWritten
<1> QED
  BY <1>0, <1>2, <1>3, <1>7, <1>9

\* With a block and room in it, the path leads to the new inode.
LEMMA LinkLands ==
    ASSUME PlainCalls, LinkInv, PathInv, TypeOK', Linking,
           NEW c, c = frame.parent, NEW t, t = Target,
           inode_table[c].blocks[0] # NoBlock,
           \E s \in StoredSlot : ~ Entry(c, s).in_use
    PROVE  /\ path_walk'[t] = frame.inode
           /\ \E f \in StoredSlot :
                  /\ ~ Entry(c, f).in_use
                  /\ \A s \in Slot : s < f => Entry(c, s).in_use
                  /\ \A d \in Directories : \A s \in Slot :
                         Entry(d, s)' = IF d = c /\ s = f
                                        THEN [in_use |-> TRUE, name |-> FileName(t),
                                              inode |-> frame.inode]
                                        ELSE Entry(d, s)
<1>1. /\ c \in Inode /\ inode_table[c].type = "DIR" /\ path_walk[Parent(t)] = c
      /\ frame.inode \in Inode /\ Parent(t) # t
  BY LinkWrites
<1>2. PICK f \in Slot :
         /\ ~ Entry(c, f).in_use
         /\ \A s \in Slot : s < f => Entry(c, s).in_use
         /\ \A d \in Directories : \A s \in Slot :
                Entry(d, s)' = IF d = c /\ s = f /\ f \in StoredSlot
                               THEN [in_use |-> TRUE, name |-> FileName(t),
                                     inode |-> frame.inode]
                               ELSE Entry(d, s)
  BY LinkWrites
<1>3. f \in StoredSlot
  <2>1. PICK s \in StoredSlot : ~ Entry(c, s).in_use
    OBVIOUS
  <2>2. s \in Slot /\ ~ s < f
    BY <1>2, <2>1, ConstantTypes
  <2> QED
    BY <2>2, SizesAssumption DEF Slot, StoredSlot
<1>4. /\ NamesInv' /\ t \in NamedPath \ {<< >>} /\ inode_table' = inode_table
      /\ \A p \in NamedPath \ {t} : path_walk'[p] = path_walk[p]
  BY LinkSight
<1>5. Walked' /\ Parent(t) \in NamedPath /\ FileName(t) \in Name
  BY <1>4, PathsWalkedNext, NamedPathParts DEF NamesInv
<1>6. Edge(c, FileName(t), frame.inode)'
  <2>1. c \in Directories /\ c \in Directories'
    BY <1>1, <1>4 DEF Directories
  <2>2. Entry(c, f)' = [in_use |-> TRUE, name |-> FileName(t), inode |-> frame.inode]
    BY <1>2, <1>3, <2>1
  <2>3. Named(c, f)' /\ Entry(c, f)'.name = FileName(t) /\ Entry(c, f)'.inode = frame.inode
    BY <1>5, <2>2 DEF Named
  <2> QED
    BY <2>1, <2>3, LinkSight DEF Edge
<1>7. path_walk'[Parent(t)] = c /\ c \in Found
  BY <1>1, <1>4, <1>5 DEF Found
<1>8. path_walk'[t] = frame.inode
  BY <1>1, <1>4, <1>5, <1>6, <1>7, LinkSight DEF Walked
<1> QED
  BY <1>2, <1>3, <1>8

\* ... and writes the entry of the n-th directory, for which there is room.
LEMMA LinkLaid ==
    ASSUME PlainCalls, PlainInstall, LinkInv, PathInv, LayInv, TypeOK',
           CreateDirLink, task.op = "install",
           NEW n, n = frame.i
    PROVE  pc' = "dir_inodes" /\ UNCHANGED <<frame, task>> /\ Laid(n, n)'
<1>0. /\ TypeOK /\ Owned /\ pc = "dir_link" /\ Laying /\ Laid(n, n - 1) /\ Walked
      /\ n \in 1 .. Len(InstallDirs) /\ n \in Nat /\ n - 1 \in 0 .. Len(InstallDirs)
      /\ Len(InstallDirs) + 2 <= SECTOR_DIR_ENTRIES
  <2>1. pc = "dir_link" /\ Laying /\ Laid(n, n - 1)
    BY DEF CreateDirLink, LayInv, DirLabel
  <2>2. TypeOK /\ Owned /\ Walked
    BY PathsWalked DEF LinkInv, BlockInv, TypeInv, PathInv, NamesInv
  <2>3. n \in 1 .. Len(InstallDirs)
    BY <2>1 DEF Laying
  <2> QED
    BY <2>1, <2>2, <2>3, ListParts
<1> DEFINE dir == InstallDirs[n]
<1>1. /\ frame.dir = dir /\ frame.depth = Len(dir) /\ dir \in NamedPath \ {<< >>}
      /\ Prefix(frame.dir, frame.depth) = dir
      /\ Prefix(frame.dir, frame.depth - 1) = Parent(dir)
  <2>1. frame.dir = dir /\ frame.depth = Len(dir) /\ dir \in NamedPath \ {<< >>}
    BY <1>0, ListParts DEF Laying
  <2>2. Len(dir) \in 1 .. Len(dir)
    BY <2>1, NamedPathParts
  <2> QED
    BY <2>1, <2>2, FrontParts DEF Parent, Prefix
<1>2. Target = dir
  BY <1>0, <1>1 DEF Target
<1>3. PICK c \in Inode : c = frame.parent
  BY <1>0 DEF TypeOK, ControlTypeOK, Frame
<1>4. path_walk[Parent(dir)] = c
  BY <1>0, <1>1, <1>3 DEF PathInv, PlaceInv
<1>5. inode_table[c].blocks[0] # NoBlock /\ inode_table[c].type = "DIR" /\ c \in Directories
  <2>1. Parent(dir) \in Made(n - 1) /\ Parent(dir) # InstallDirs[1]
    BY <1>0, WayMade, ListParts
  <2> QED
    BY <1>0, <1>4, <2>1, MadeWalks DEF Laid, Directories
<1>6. PICK s0 \in StoredSlot : s0 = n + 1
  BY <1>0, SizesAssumption DEF StoredSlot
<1>7. ~ Entry(c, s0).in_use
  <2>1. n - 1 + 1 = n /\ ~ n + 1 <= n /\ s0 \in Slot
    BY <1>0, ConstantTypes
  <2> QED
    BY <1>0, <1>5, <1>6, <2>1 DEF Laid, EntriesOf
<1>8. Linking /\ pc' = "dir_inodes" /\ UNCHANGED <<frame, task, ram>>
  <2>1. s0 \in {s \in Slot : ~ dir_entries(frame.parent)[s].in_use}
    BY <1>3, <1>7, ConstantTypes DEF Entry
  <2>2. LinkEntry(FileName(Prefix(frame.dir, frame.depth)), "dir_inodes")
    BY DEF CreateDirLink
  <2>3. pc' = "dir_inodes" /\ UNCHANGED <<frame, task, ram>>
    BY <2>1, <2>2 DEF LinkEntry, Goto
  <2> QED
    BY <2>3 DEF Linking
<1>9. /\ path_walk'[dir] = frame.inode
      /\ \E f \in StoredSlot :
             /\ ~ Entry(c, f).in_use
             /\ \A s \in Slot : s < f => Entry(c, s).in_use
             /\ \A d \in Directories : \A s \in Slot :
                    Entry(d, s)' = IF d = c /\ s = f
                                   THEN [in_use |-> TRUE, name |-> FileName(dir),
                                         inode |-> frame.inode]
                                   ELSE Entry(d, s)
  BY <1>2, <1>3, <1>5, <1>7, <1>8, LinkLands
<1>10. /\ frame.inode = n
       /\ \A p \in NamedPath \ {dir} : path_walk'[p] = path_walk[p]
  BY <1>0, <1>2, <1>8, LinkSight DEF Laying
<1>11. WalksOf(n)'
  <2>1. ASSUME NEW j \in 1 .. n PROVE path_walk'[InstallDirs[j]] = j
    <3>1. CASE j = n
      BY <1>9, <1>10, <3>1
    <3>2. CASE j # n
      <4>1. /\ j \in 1 .. n - 1 /\ j \in 1 .. Len(InstallDirs)
            /\ InstallDirs[j] \in NamedPath \ {dir}
        BY <1>0, <3>2, ListParts
      <4> QED
        BY <1>0, <1>10, <4>1 DEF Laid, WalksOf
    <3> QED
      BY <3>1, <3>2
  <2>2. ASSUME NEW p \in NamedPath \ Made(n) PROVE path_walk'[p] = NoInode
    <3>1. p # dir /\ p \notin Made(n - 1)
      BY <1>0 DEF Made
    <3> QED
      BY <1>0, <1>10, <3>1 DEF Laid, WalksOf, Absent
  <2> QED
    BY <2>1, <2>2 DEF WalksOf, Absent
<1>12. EntriesOf(n)'
  <2>1. PICK f \in StoredSlot :
           /\ \A s \in Slot : s < f => Entry(c, s).in_use
           /\ \A d \in Directories : \A s \in Slot :
                  d # c \/ s # f => Entry(d, s)' = Entry(d, s)
    BY <1>9
  <2>2. f <= n + 1
    <3>1. s0 \in Slot /\ ~ s0 < f
      BY <1>7, <2>1, ConstantTypes
    <3> QED
      BY <1>0, <1>6, <3>1, SizesAssumption DEF StoredSlot, Slot
  <2> SUFFICES ASSUME NEW d \in Directories', NEW s \in Slot, Entry(d, s)'.in_use
               PROVE  s <= n + 1
    BY DEF EntriesOf
  <2>3. d \in Directories /\ s \in Nat
    BY <1>8, SizesAssumption DEF ram, Directories, Slot
  <2>4. CASE d = c /\ s = f
    BY <2>2, <2>4
  <2>5. CASE d # c \/ s # f
    <3>1. Entry(d, s).in_use
      BY <2>1, <2>3, <2>5
    <3>2. s <= n - 1 + 1
      BY <1>0, <2>3, <3>1 DEF Laid, EntriesOf
    <3> QED
      BY <1>0, <2>3, <3>2
  <2> QED
    BY <2>4, <2>5
<1>13. inode_table' = TableOf(n) /\ block_bitmap' = MarksOf(n)
  BY <1>0, <1>8 DEF Laid, ram
<1> QED
  BY <1>8, <1>11, <1>12, <1>13 DEF Laid

\* The same at the next state, where frame.i may have moved.
LEMMA LaidAt ==
    ASSUME NEW n, NEW m, Laid(n, m)'
    PROVE  /\ (frame'.i = n /\ m = n) => Laid(frame.i, frame.i)'
           /\ (frame'.i - 1 = n /\ m = n) => Laid(frame.i - 1, frame.i - 1)'
           /\ (frame'.i = n /\ frame'.i - 1 = m) => Laid(frame.i, frame.i - 1)'
BY DEF Laid, WalksOf, EntriesOf

\* Steps of other calls than the installation's.
LEMMA LayElsewhere ==
    ASSUME TypeOK, CallInv, CalledInv, Next, task.op # "install", ~ InstallRoot
    PROVE  LayInv'
<1>0. \A request \in Requests : Call(request) =>
         pc' \in ThreeOps /\ task'.op \in ThreeOps
  BY CallsAssumption DEF Call, Goto, Request, ThreeOps
<1>1. CASE Boot \/ Install \/ User \/ Return
  BY <1>0, <1>1 DEF User, Boot, Install, BootInstalled, InstallSyncSuperblock,
     InstallSyncInodes, InstallSyncBitmap, InstallNextDir, InstallFinish, PowerOn,
     SwitchOff, Return, Goto, CalledInv, LayInv, ThreeOps, DirLabel, NoTask
<1>2. CASE CreateDir
  BY <1>2 DEF CreateDir, CreateDirEnter, CreateDirAlloc, CreateDirLink,
     CreateDirSyncInodes, CreateDirSyncBitmap, Goto, Leave, CreateDirReturnsOk,
     LinkEntry, GiveBack, LayInv, DirLabel
<1>3. CASE CreateFile
  BY <1>3 DEF CreateFile, CreateFileEnter, CreateFileParent, CreateFileAlloc,
     CreateFileData, CreateFileLink, CreateFileSyncInodes, CreateFileSyncBitmap,
     CreateFileSyncSuperblock, Goto, Leave, LinkEntry, GiveBack, LayInv, DirLabel
<1>4. CASE DeleteFile
  BY <1>4 DEF DeleteFile, DeleteFileEnter, DeleteSyncInodes, DeleteSyncBitmap, Goto, Leave,
     DeleteReturns, LayInv, DirLabel
<1> QED
  BY <1>1, <1>2, <1>3, <1>4 DEF Next, Kernel

\* fs_create_dir finds the way there and the directory not.
LEMMA EnterLaid ==
    ASSUME PlainCalls, PlainInstall, LinkInv, PathInv, LayInv, CreateDirEnter,
           task.op = "install"
    PROVE  /\ pc' = "dir_alloc" /\ task' = task
           /\ frame' = [frame EXCEPT !.depth = Len(frame.dir)]
<1>0. /\ TypeOK /\ Walked /\ Laying /\ Laid(frame.i - 1, frame.i - 1)
      /\ frame.i \in 1 .. Len(InstallDirs) /\ Len(InstallDirs) \in Nat
  <2>1. Laying /\ Laid(frame.i - 1, frame.i - 1)
    BY DEF CreateDirEnter, LayInv
  <2>2. TypeOK /\ Walked
    BY PathsWalked DEF LinkInv, BlockInv, TypeInv, PathInv, NamesInv
  <2> QED
    BY <2>1, <2>2, ListParts DEF Laying
<1>1. PICK n \in 1 .. Len(InstallDirs) : n = frame.i
  BY <1>0
<1> DEFINE dir == InstallDirs[n]
           missing == {k \in 1 .. Len(frame.dir) : ~ Exists(Prefix(frame.dir, k))}
<1>2. /\ frame.dir = dir /\ dir \in NamedPath \ {<< >>} /\ dir \in Path
      /\ Len(dir) \in Nat \ {0} /\ Prefix(dir, Len(dir)) = dir
      /\ n - 1 \in 0 .. Len(InstallDirs) /\ n - 1 \in Nat
  <2>1. frame.dir = dir /\ dir \in NamedPath \ {<< >>} /\ dir \in Path
    BY <1>0, <1>1, ListParts, NamedPathParts DEF Laying
  <2>2. Len(dir) \in Nat \ {0}
    BY <2>1, NamedPathParts
  <2>3. Prefix(dir, Len(dir)) = dir
    BY <2>1, <2>2, FrontParts
  <2> QED
    BY <1>0, <1>1, <2>1, <2>2, <2>3
<1>3. ~ Exists(dir)
  <2>1. path_walk[dir] = NoInode
    BY <1>0, <1>1, <1>2, WayMade DEF Laid, WalksOf, Absent
  <2> QED
    BY <1>0, <1>2, <2>1, FindWalk DEF Exists
<1>4. ASSUME NEW k \in 1 .. Len(dir), k # Len(dir) PROVE Exists(Prefix(dir, k))
  <2>0. PICK m \in Nat : m = Len(dir)
    BY <1>2
  <2>1. k \in 1 .. m /\ k # m
    BY <1>4, <2>0
  <2>2. k \in 0 .. m - 1 /\ k \in 0 .. m
    BY <2>1
  <2>3. Prefix(dir, k) \in Made(n - 1) /\ Prefix(dir, k) \in Path
    BY <1>2, <2>0, <2>2, WayMade, PathParts
  <2>4. path_walk[Prefix(dir, k)] \in Inode
    BY <1>0, <1>1, <1>2, <2>3, MadeWalks DEF Laid
  <2> QED
    BY <1>0, <2>3, <2>4, FindWalk, ConstantTypes DEF Exists
<1>5. First(missing) = Len(dir)
  <2>1. missing = {Len(dir)}
    BY <1>2, <1>3, <1>4
  <2> HIDE DEF missing
  <2>2. missing \in SUBSET Nat /\ Len(dir) \in missing /\ \A k \in missing : Len(dir) <= k
    BY <1>2, <2>1
  <2> QED
    BY <2>2, FirstIs
<1> QED
  BY <1>2, <1>3, <1>5 DEF CreateDirEnter, Goto

LEMMA LayInit == Init => LayInv
BY DEF Init, LayInv, NoTask

LEMMA LayNext ==
    PlainCalls /\ PlainInstall /\ LinkInv /\ PathInv /\ ZeroInv /\ LayInv /\ [Next]_vars
        => LayInv'
<1> SUFFICES ASSUME PlainCalls, PlainInstall, LinkInv, PathInv, ZeroInv, LayInv, [Next]_vars
             PROVE  LayInv'
  OBVIOUS
<1>0. /\ TypeOK /\ CallInv /\ CalledInv /\ DirInv /\ NamesInv /\ SavedInv
      /\ frame \in Frame /\ PathInv' /\ TypeOK'
  <2>1. LinkInv' /\ PathInv'
    BY LinkNext, PathNext DEF Step
  <2> QED
    BY <2>1 DEF LinkInv, BlockInv, TypeInv, TypeOK, ControlTypeOK, PathInv
<1>1. Len(InstallDirs) \in Nat \ {0}
  BY ListParts
<1>2. ASSUME UNCHANGED <<inode_table, block_bitmap, d_data>>,
             NEW n, NEW m \in 0 .. Len(InstallDirs), Laid(n, m)
      PROVE  Laid(n, m)'
  BY <1>0, <1>2, LaidStays
<1>3. CASE UNCHANGED vars
  <2>1. UNCHANGED <<pc, task, frame, inode_table, block_bitmap, d_data>>
    BY <1>3 DEF vars, ram, disk, control
  <2>2. Laying => frame.i \in 0 .. Len(InstallDirs) /\ frame.i - 1 \in 0 .. Len(InstallDirs)
    BY <1>1 DEF Laying
  <2>3. 0 \in 0 .. Len(InstallDirs)
    BY <1>1
  <2>4. frame.i <= Len(InstallDirs) => frame.i \in 0 .. Len(InstallDirs)
    BY <1>0, <1>1 DEF Frame
  <2>5. PICK n \in Nat : n = frame.i
    BY <1>0 DEF Frame
  <2>6. frame'.i = n /\ n - 1 = frame'.i - 1
    BY <2>1, <2>5
  <2>7. pc \in {"install_superblock", "install_inodes", "install_bitmap"} => Laid(0, 0)'
    BY <1>2, <2>1, <2>3 DEF LayInv
  <2>8. pc = "install_dirs" => Laid(frame.i, frame.i)'
    BY <1>2, <2>1, <2>4, <2>5, <2>6, LaidAt DEF LayInv
  <2>9. (task.op = "install" /\ pc \in DirLabel \cup {"create_dir"}) =>
           CASE pc \in {"create_dir", "dir_alloc"} -> Laid(frame.i - 1, frame.i - 1)'
             [] pc = "dir_link" -> Laid(frame.i, frame.i - 1)'
             [] OTHER -> Laid(frame.i, frame.i)'
    <3> SUFFICES ASSUME task.op = "install", pc \in DirLabel \cup {"create_dir"}
                 PROVE  CASE pc \in {"create_dir", "dir_alloc"} -> Laid(frame.i - 1, frame.i - 1)'
                          [] pc = "dir_link" -> Laid(frame.i, frame.i - 1)'
                          [] OTHER -> Laid(frame.i, frame.i)'
      OBVIOUS
    <3>1. CASE pc \in {"create_dir", "dir_alloc"}
      BY <1>2, <2>1, <2>2, <2>5, <2>6, <3>1, LaidAt DEF LayInv
    <3>2. CASE pc = "dir_link"
      BY <1>2, <2>1, <2>2, <2>5, <2>6, <3>2, LaidAt DEF LayInv
    <3>3. CASE pc \notin {"create_dir", "dir_alloc", "dir_link"}
      BY <1>2, <2>1, <2>2, <2>5, <2>6, <3>3, LaidAt DEF LayInv
    <3> QED
      BY <3>1, <3>2, <3>3
  <2> QED
    BY <2>1, <2>7, <2>8, <2>9 DEF LayInv, Laying
<1>4. CASE Next /\ InstallRoot
  <2>1. pc' = "install_superblock" /\ Laid(0, 0)'
    BY <1>0, <1>4, RootLaid DEF InstallRoot, Goto
  <2> QED
    BY <2>1 DEF LayInv, DirLabel
<1>5. CASE Next /\ ~ InstallRoot /\ task.op # "install"
  BY <1>0, <1>5, LayElsewhere
<1>6. CASE Next /\ task.op = "install"
  <2>1. /\ pc \notin {"boot", "off", "idle", "return"}
        /\ pc \notin FileLabel \cup {"create_file"}
        /\ pc \notin {"delete_file", "delete_inodes", "delete_bitmap"}
    BY <1>0, <1>6 DEF CallInv, CalledInv, NoTask, ZeroInv
  <2>2. Install \/ CreateDir
    BY <1>6, <2>1 DEF Next, Kernel, User, Boot, CreateFile, DeleteFile, Call,
       BootInstalled, InstallRoot, PowerOn, SwitchOff, Return, CreateFileEnter,
       CreateFileParent, CreateFileAlloc, CreateFileData, CreateFileLink,
       CreateFileSyncInodes, CreateFileSyncBitmap, CreateFileSyncSuperblock,
       DeleteFileEnter, DeleteSyncInodes, DeleteSyncBitmap, FileLabel
  <2>3. PICK n \in Nat : n = frame.i
    BY <1>0 DEF Frame
  <2>4. 0 \in 0 .. Len(InstallDirs)
    BY <1>1
  <2>5. CASE InstallSyncSuperblock \/ InstallSyncInodes
    BY <1>2, <2>4, <2>5 DEF InstallSyncSuperblock, InstallSyncInodes, ram, Goto, LayInv, DirLabel
  <2>6. CASE InstallSyncBitmap
    <3>1. UNCHANGED <<inode_table, block_bitmap, d_data, frame>> /\ pc' = "install_dirs"
      BY <1>0, <2>6 DEF InstallSyncBitmap, sync_block_bitmap, SavedInv, Goto
    <3>2. Laid(0, 0)' /\ frame.i = 0 /\ frame'.i = 0
      BY <1>2, <2>4, <2>6, <3>1 DEF InstallSyncBitmap, LayInv, ZeroInv
    <3> QED
      BY <1>1, <3>1, <3>2, LaidAt DEF LayInv, DirLabel
  <2>7. CASE InstallNextDir
    <3>1. /\ UNCHANGED <<inode_table, block_bitmap, d_data, task>> /\ pc' = "create_dir"
          /\ frame' = [frame EXCEPT !.dir = InstallDirs[frame.i + 1], !.i = @ + 1]
          /\ n < Len(InstallDirs) /\ Laid(n, n)
      BY <2>3, <2>7 DEF InstallNextDir, Goto, ram, disk, LayInv
    <3>2. frame'.i = n + 1 /\ frame'.dir = InstallDirs[n + 1]
      BY <1>0, <2>3, <3>1 DEF Frame
    <3>3. n \in 0 .. Len(InstallDirs) /\ n + 1 \in 1 .. Len(InstallDirs) /\ frame'.i - 1 = n
      BY <1>1, <3>1, <3>2
    <3>4. Laid(frame.i - 1, frame.i - 1)'
      BY <1>2, <3>1, <3>3, LaidAt
    <3> QED
      BY <1>6, <3>1, <3>2, <3>3, <3>4 DEF LayInv, Laying, DirLabel
  <2>8. CASE InstallFinish
    BY <2>8 DEF InstallFinish, Goto, LayInv, DirLabel
  <2>9. CASE CreateDirEnter
    <3>1. /\ pc' = "dir_alloc" /\ task' = task
          /\ frame' = [frame EXCEPT !.depth = Len(frame.dir)]
          /\ UNCHANGED <<inode_table, block_bitmap, d_data>>
          /\ Laying /\ Laid(n - 1, n - 1)
      BY <1>6, <2>3, <2>9, EnterLaid DEF CreateDirEnter, ram, disk, LayInv
    <3>2. frame'.i = n /\ frame'.dir = frame.dir /\ frame'.depth = Len(frame'.dir)
      BY <1>0, <2>3, <3>1 DEF Frame
    <3>3. n - 1 \in 0 .. Len(InstallDirs) /\ frame'.i - 1 = n - 1
      BY <1>1, <2>3, <3>1, <3>2 DEF Laying
    <3>4. Laid(frame.i - 1, frame.i - 1)'
      BY <1>2, <3>1, <3>3, LaidAt
    <3> QED
      BY <1>6, <2>3, <3>1, <3>2, <3>4 DEF LayInv, Laying, DirLabel
  <2>10. CASE CreateDirAlloc
    <3>1. /\ pc' = "dir_link" /\ frame' = [frame EXCEPT !.parent = frame'.parent, !.inode = n]
          /\ task' = task /\ Laid(n, n - 1)'
      BY <1>0, <1>6, <2>3, <2>10, AllocLaid
    <3>2. Laying
      BY <1>6, <2>10 DEF CreateDirAlloc, LayInv, DirLabel
    <3>3. /\ frame'.i = n /\ frame'.dir = frame.dir /\ frame'.depth = frame.depth
          /\ frame'.inode = n /\ frame'.i - 1 = n - 1
      BY <1>0, <2>3, <3>1 DEF Frame
    <3>4. Laid(frame.i, frame.i - 1)'
      BY <3>1, <3>3, LaidAt
    <3> QED
      BY <1>6, <2>3, <2>10, <3>1, <3>2, <3>3, <3>4 DEF CreateDirAlloc, LayInv, Laying, DirLabel
  <2>11. CASE CreateDirLink
    <3>1. pc' = "dir_inodes" /\ UNCHANGED <<frame, task>> /\ Laid(n, n)' /\ frame'.i = n
      BY <1>0, <1>6, <2>3, <2>11, LinkLaid
    <3>2. Laying
      BY <1>6, <2>11 DEF CreateDirLink, LayInv, DirLabel
    <3>3. Laid(frame.i, frame.i)'
      BY <3>1, LaidAt
    <3> QED
      BY <2>11, <3>1, <3>2, <3>3 DEF CreateDirLink, LayInv, Laying, DirLabel
  <2>12. CASE CreateDirSyncInodes \/ CreateDirSyncBitmap
    <3>1. /\ pc \in {"dir_inodes", "dir_bitmap"} /\ Laying /\ Laid(n, n)
          /\ UNCHANGED <<inode_table, block_bitmap, d_data>>
      BY <1>6, <2>3, <2>12
         DEF CreateDirSyncInodes, CreateDirSyncBitmap, ram, LayInv, DirLabel
    <3>2. n \in 0 .. Len(InstallDirs) /\ n \in 1 .. Len(InstallDirs)
      BY <1>1, <2>3, <3>1 DEF Laying
    <3>3. /\ UNCHANGED <<frame, task>>
          /\ pc' = IF pc = "dir_inodes" THEN "dir_bitmap" ELSE "install_dirs"
      <4>1. CASE CreateDirSyncInodes
        BY <4>1 DEF CreateDirSyncInodes, Goto
      <4>2. CASE CreateDirSyncBitmap
        <5>1. ~ frame.depth < Len(frame.dir)
          BY <1>0, <3>1 DEF Laying, Frame
        <5> QED
          BY <1>6, <4>2, <5>1 DEF CreateDirSyncBitmap, CreateDirReturnsOk, Leave, Goto
      <4> QED
        BY <2>12, <4>1, <4>2
    <3>4. Laid(frame.i, frame.i)' /\ frame'.i = n
      BY <1>2, <2>3, <3>1, <3>2, <3>3, LaidAt
    <3> QED
      BY <1>1, <3>1, <3>2, <3>3, <3>4 DEF LayInv, Laying, DirLabel
  <2> QED
    BY <2>2, <2>5, <2>6, <2>7, <2>8, <2>9, <2>10, <2>11, <2>12 DEF Install, CreateDir
<1> QED
  BY <1>3, <1>4, <1>5, <1>6

-----------------------------------------------------------------------------
(* Room for what the calls name                                            *)

\* The first two entries of a directory are "." and "..", the others have names.
DotsInv ==
    \A d \in Directories : \A s \in Slot :
        /\ s <= 1 => Entry(d, s).in_use
        /\ Entry(d, s).in_use => (Entry(d, s).name \in Name <=> s > 1)

\* Files stand where a call puts one.
FileInv ==
    \A p \in NamedPath : \A i \in Inode :
        path_walk[p] = i /\ inode_table[i].type = "FILE" => p \in FilePaths

\* Only the first installed directory has no block.
HoldInv ==
    /\ \A p \in NamedPath : \A i \in Inode :
           path_walk[p] = i /\ inode_table[i].type = "DIR"
               /\ inode_table[i].blocks[0] = NoBlock => p = InstallDirs[1]
    /\ pc = "dir_link" /\ inode_table[frame.inode].blocks[0] = NoBlock =>
           Target = InstallDirs[1]

RoomInv == DotsInv /\ FileInv /\ HoldInv

LEMMA NewDots ==
    ASSUME NEW i, NEW p, NEW s \in Slot,
           NEW e, e = IF s \in StoredSlot THEN NewDirectory(i, p)[s] ELSE FreeEntry
    PROVE  /\ s <= 1 => e.in_use
           /\ e.in_use => (e.name \in Name <=> s > 1)
<1>1. s \in Nat /\ (s <= 1 => s \in StoredSlot /\ s \in {0, 1}) /\ ~ FreeEntry.in_use
  BY SizesAssumption DEF Slot, StoredSlot, FreeEntry
<1>2. Dot \notin Name /\ DotDot \notin Name
  BY NamesAssumption
<1>3. CASE s = 0
  BY <1>1, <1>2, <1>3 DEF NewDirectory
<1>4. CASE s = 1
  BY <1>1, <1>2, <1>4 DEF NewDirectory
<1>5. CASE s # 0 /\ s # 1
  <2>1. e = FreeEntry
    BY <1>5 DEF NewDirectory
  <2> QED
    BY <1>1, <1>5, <2>1
<1> QED
  BY <1>3, <1>4, <1>5

LEMMA DotsNext ==
    ASSUME PlainCalls, LinkInv, PathInv, DotsInv, TypeOK', [Next]_vars
    PROVE  DotsInv'
<1>1. CASE Linking
  <2>1. PICK c, t : c = frame.parent /\ t = Target
    OBVIOUS
  <2>2. PICK f \in Slot :
           /\ ~ Entry(c, f).in_use
           /\ \A d \in Directories : \A s \in Slot :
                  Entry(d, s)' = IF d = c /\ s = f /\ f \in StoredSlot
                                 THEN [in_use |-> TRUE, name |-> FileName(t),
                                       inode |-> frame.inode]
                                 ELSE Entry(d, s)
    BY <1>1, <2>1, LinkWrites
  <2>3. Directories' = Directories /\ FileName(t) \in Name
    BY <1>1, <2>1, LinkSight, NamedPathParts DEF Directories
  <2>4. c \in Directories => ~ f <= 1
    BY <2>2 DEF DotsInv
  <2>5. f \in Nat
    BY SizesAssumption DEF Slot
  <2> QED
    BY <2>2, <2>3, <2>4, <2>5 DEF DotsInv
<1>2. CASE Deleting
  <2>1. /\ Directories' = Directories
        /\ \E c \in Directories : \E t \in Slot :
               /\ Named(c, t)
               /\ \A d \in Directories : \A s \in Slot :
                      Entry(d, s)' = IF d = c /\ s = t THEN FreeEntry ELSE Entry(d, s)
    BY <1>2, DeleteSight
  <2>2. PICK c \in Directories, t \in Slot :
           /\ Named(c, t)
           /\ \A d \in Directories : \A s \in Slot :
                  Entry(d, s)' = IF d = c /\ s = t THEN FreeEntry ELSE Entry(d, s)
    BY <2>1
  <2>3. t > 1 /\ t \in Nat
    BY <2>2, SizesAssumption DEF DotsInv, Named, Slot
  <2> QED
    BY <2>1, <2>2, <2>3 DEF DotsInv, FreeEntry
<1>3. CASE ~ Linking /\ ~ Deleting
  <2>1. SameOrNew
    BY <1>3, StepSight
  <2> SUFFICES ASSUME NEW d \in Directories', NEW s \in Slot
               PROVE  /\ s <= 1 => Entry(d, s)'.in_use
                      /\ Entry(d, s)'.in_use => (Entry(d, s)'.name \in Name <=> s > 1)
    BY DEF DotsInv
  <2>2. CASE d \in Directories /\ \A r \in Slot : Entry(d, r)' = Entry(d, r)
    BY <2>2 DEF DotsInv
  <2>3. ASSUME NEW p \in Inode, \A r \in Slot :
                   Entry(d, r)' = IF r \in StoredSlot THEN NewDirectory(d, p)[r] ELSE FreeEntry
        PROVE  /\ s <= 1 => Entry(d, s)'.in_use
               /\ Entry(d, s)'.in_use => (Entry(d, s)'.name \in Name <=> s > 1)
    <3>1. PICK e : e = Entry(d, s)'
      OBVIOUS
    <3>2. e = IF s \in StoredSlot THEN NewDirectory(d, p)[s] ELSE FreeEntry
      BY <2>3, <3>1
    <3> QED
      BY <3>1, <3>2, NewDots
  <2> QED
    BY <2>1, <2>2, <2>3 DEF SameOrNew
<1> QED
  BY <1>1, <1>2, <1>3

\* The root is a directory, or the system is not installed.
LEMMA RootKind ==
    LinkInv => /\ inode_table[Root].type \in {"DIR", "FREE"}
               /\ inode_table[Root].type = "FREE" =>
                      pc \in {"boot", "off"} /\ d_superblock.installed # 1
<1> SUFFICES ASSUME LinkInv, pc \in {"boot", "off"}, d_superblock.installed # 1
             PROVE  inode_table[Root].type = "FREE"
  BY DEF LinkInv, Tidy, RootInv
<1>1. inode_table = [i \in Inode |-> FreeInode]
  BY DEF LinkInv, BlockInv, InstalledInv, SavedInv, Settled
<1> QED
  BY <1>1, ConstantTypes DEF FreeInode, Root

LEMMA RootType == LinkInv => inode_table[Root].type \in {"DIR", "FREE"}
  BY RootKind

LEMMA RootTypeNext == LinkInv' => (inode_table[Root].type \in {"DIR", "FREE"})'
  BY RootType, PTL

\* What a path leads to before and after a step that writes and clears no entry.
LEMMA WalkedStays ==
    ASSUME PlainCalls, LinkInv, PathInv, [Next]_vars, ~ Linking, ~ Deleting,
           NEW p \in NamedPath, NEW i \in Inode, path_walk'[p] = i
    PROVE  /\ path_walk[p] = i
           /\ \/ inode_table'[i] = inode_table[i] /\ inode_table[i].type # "FREE"
              \/ /\ p = << >> /\ i = Root /\ inode_table[i].type = "FREE"
                 /\ pc \in {"boot", "off"} /\ d_superblock.installed # 1
<1>1. SameInodes /\ path_walk[p] = i
  BY StepSight
<1>2. ~ Held(i) /\ (p # << >> => inode_table[i].type # "FREE")
  BY <1>1, WalkedInUse DEF Live
<1>3. p = << >> => i = Root
  BY <1>1, PathsWalked DEF Walked, LinkInv, BlockInv, TypeInv, PathInv, NamesInv
<1> QED
  BY <1>1, <1>2, <1>3, RootKind DEF SameInodes

LEMMA FileNext ==
    ASSUME PlainCalls, LinkInv, PathInv, FileInv, TypeOK', LinkInv', [Next]_vars
    PROVE  FileInv'
<1> SUFFICES ASSUME NEW p \in NamedPath, NEW i \in Inode, path_walk'[p] = i,
                    inode_table'[i].type = "FILE"
             PROVE  p \in FilePaths
  BY DEF FileInv
<1>1. CASE ~ Linking /\ ~ Deleting
  <2>1. i # Root
    BY RootTypeNext
  <2> QED
    BY <1>1, <2>1, WalkedStays DEF FileInv
<1>2. CASE Linking /\ p # Target
  <2>1. path_walk'[p] = path_walk[p] /\ inode_table' = inode_table
    BY <1>2, LinkSight
  <2> QED
    BY <2>1 DEF FileInv
<1>3. CASE Linking /\ p = Target
  <2>1. i = frame.inode /\ inode_table' = inode_table
    BY <1>3, LinkSight, ConstantTypes
  <2>2. pc # "dir_link"
    BY <2>1 DEF LinkInv, Tidy, UnlinkedInv
  <2>3. pc = "file_data" /\ Target = task.path
    BY <1>3, <2>2 DEF Linking, CreateDirLink, CreateFileLink, Target
  <2> QED
    BY <1>3, <2>3, PathsInHand
       DEF LinkInv, BlockInv, TypeInv, CallInv, PathInv, FileLabel
<1>4. CASE Deleting
  <2>1. path_walk'[task.path] = NoInode
    BY <1>4, DeleteSight DEF Absent
  <2>2. p # task.path
    BY <2>1, ConstantTypes
  <2>3. path_walk[p] = i
    BY <1>4, <2>2, DeleteSight
  <2>4. inode_table[i].type = "FILE"
    <3>1. PICK k \in Inode : inode_table' = [inode_table EXCEPT ![k] = FreeInode]
      BY <1>4, DeleteSight
    <3> QED
      BY <3>1 DEF FreeInode, LinkInv, BlockInv, TypeInv, TypeOK, RamTypeOK
  <2> QED
    BY <2>3, <2>4 DEF FileInv
<1> QED
  BY <1>1, <1>2, <1>3, <1>4

\* What a machine that is off, or boots, can do.
LEMMA BootSteps ==
    ASSUME Next, pc \in {"boot", "off"}
    PROVE  PowerOn \/ BootInstalled \/ InstallRoot
BY DEF Next, Kernel, User, Boot, Install, CreateDir, CreateFile, DeleteFile,
   Call, SwitchOff, InstallSyncSuperblock, InstallSyncInodes,
   InstallSyncBitmap, InstallNextDir, InstallFinish, Return,
   CreateDirEnter, CreateDirAlloc, CreateDirLink, CreateDirSyncInodes,
   CreateDirSyncBitmap, CreateFileEnter, CreateFileParent, CreateFileAlloc,
   CreateFileData, CreateFileLink, CreateFileSyncInodes, CreateFileSyncBitmap,
   CreateFileSyncSuperblock, DeleteFileEnter, DeleteSyncInodes, DeleteSyncBitmap

LEMMA OnlyAllocating ==
    ASSUME Next, pc' = "dir_link"
    PROVE  CreateDirAlloc
<1>1. \A request \in Requests : Call(request) => pc' # "dir_link"
  BY CallsAssumption DEF Call, Goto, Request
<1> QED
  BY <1>1 DEF Next, Kernel, User, Boot, Install, CreateDir, CreateFile, DeleteFile,
     BootInstalled, InstallRoot, InstallSyncSuperblock, InstallSyncInodes,
     InstallSyncBitmap, InstallNextDir, InstallFinish, PowerOn, SwitchOff, Return,
     CreateDirEnter, CreateDirLink, CreateDirSyncInodes,
     CreateDirSyncBitmap, CreateFileEnter, CreateFileParent, CreateFileAlloc,
     CreateFileData, CreateFileLink, CreateFileSyncInodes, CreateFileSyncBitmap,
     CreateFileSyncSuperblock, DeleteFileEnter, DeleteSyncInodes, DeleteSyncBitmap,
     Goto, Leave, CreateDirReturnsOk, DeleteReturns, LinkEntry, GiveBack

\* Block 0 goes to the first directory of the installation.
LEMMA ZeroBlockFirst ==
    ASSUME PlainCalls, PlainInstall, LinkInv, PathInv, ZeroInv, LayInv, CreateDirAlloc,
           pc' = "dir_link", inode_table'[frame'.inode].blocks[0] = NoBlock
    PROVE  Prefix(frame'.dir, frame'.depth) = InstallDirs[1]
<1>0. TypeOK /\ pc = "dir_alloc"
  BY DEF CreateDirAlloc, LinkInv, BlockInv, TypeInv
<1>1. /\ allocate_inode # NoInode /\ allocate_block # NoFreeBlock
      /\ inode_table' = [inode_table EXCEPT ![allocate_inode] =
             [FreeInode EXCEPT !.type = "DIR", !.blocks[0] = allocate_block]]
      /\ \E parent : frame' = [frame EXCEPT !.parent = parent, !.inode = allocate_inode]
  BY DEF CreateDirAlloc, Leave, Goto
<1>2. PICK i \in Inode, b \in Block : /\ i = allocate_inode /\ b = allocate_block
                                      /\ b \notin block_bitmap
  BY <1>1, AllocateInode, AllocateBlock
<1>3. frame'.inode = i /\ frame'.dir = frame.dir /\ frame'.depth = frame.depth
  BY <1>0, <1>1, <1>2 DEF TypeOK, ControlTypeOK, Frame
<1>4. b = NoBlock
  BY <1>0, <1>1, <1>2, <1>3, ConstantTypes DEF TypeOK, RamTypeOK, FreeInode
<1>5. task.op = "install" /\ Blank
  BY <1>0, <1>2, <1>4 DEF ZeroInv
<1>6. frame.i = 1 /\ Laying
  BY <1>0, <1>5 DEF Blank, LayInv, DirLabel
<1>7. frame.dir = InstallDirs[1] /\ frame.depth = Len(InstallDirs[1])
  BY <1>0, <1>6 DEF Laying
<1>8. 1 \in 1 .. Len(InstallDirs)
  BY ListParts
<1> QED
  BY <1>3, <1>7, <1>8, ListParts, FrontParts, NamedPathParts

LEMMA InstalledRoot ==
    ASSUME LinkInv, NEW i \in Inode, InstallRoot \/ PowerOn \/ BootInstalled,
           inode_table[i].type = "FREE", inode_table'[i].type = "DIR",
           d_superblock.installed # 1
    PROVE  inode_table'[i].blocks[0] # NoBlock
<1>1. ~ BootInstalled
  BY DEF BootInstalled
<1>2. ~ PowerOn
  BY DEF PowerOn, ram
<1>3. inode_table' = [k \in Inode |->
          IF k = Root THEN [FreeInode EXCEPT !.type = "DIR", !.blocks[0] = 1] ELSE FreeInode]
  BY <1>1, <1>2 DEF InstallRoot
<1>4. i = Root
  BY <1>3 DEF FreeInode
<1>5. inode_table'[i].blocks[0] = 1
  BY <1>3, <1>4, ConstantTypes DEF FreeInode
<1> QED
  BY <1>5 DEF NoBlock

LEMMA HoldNext ==
    ASSUME PlainCalls, PlainInstall, LinkInv, PathInv, ZeroInv, LayInv, HoldInv,
           TypeOK', [Next]_vars
    PROVE  HoldInv'
<1>1. ASSUME NEW p \in NamedPath, NEW i \in Inode, path_walk'[p] = i,
             inode_table'[i].type = "DIR", inode_table'[i].blocks[0] = NoBlock
      PROVE  p = InstallDirs[1]
  <2>1. CASE ~ Linking /\ ~ Deleting
    <3>1. CASE inode_table'[i] = inode_table[i] /\ inode_table[i].type # "FREE"
      <4>1. path_walk[p] = i
        BY <1>1, <2>1, WalkedStays
      <4> QED
        BY <1>1, <3>1, <4>1 DEF HoldInv
    <3>2. CASE /\ inode_table[i].type = "FREE" /\ pc \in {"boot", "off"}
               /\ d_superblock.installed # 1
      <4>1. inode_table'[i].type # inode_table[i].type
        BY <1>1, <3>2
      <4>2. Next
        BY <4>1 DEF vars, ram
      <4>3. PowerOn \/ BootInstalled \/ InstallRoot
        BY <3>2, <4>2, BootSteps
      <4> QED
        BY <1>1, <3>2, <4>3, InstalledRoot
    <3> QED
      BY <1>1, <2>1, <3>1, <3>2, WalkedStays
  <2>2. CASE Linking
    <3>1. inode_table' = inode_table
      BY <2>2, LinkSight
    <3>2. CASE p # Target
      BY <1>1, <2>2, <3>1, <3>2, LinkSight DEF HoldInv
    <3>3. CASE p = Target
      <4>1. i = frame.inode
        BY <1>1, <2>2, <3>3, LinkSight, ConstantTypes
      <4>2. pc = "dir_link" \/ pc = "file_data"
        BY <2>2 DEF Linking, CreateDirLink, CreateFileLink
      <4>3. pc # "file_data"
        BY <1>1, <3>1, <4>1 DEF LinkInv, BlockInv, LoopInv
      <4> QED
        BY <1>1, <3>1, <3>3, <4>1, <4>2, <4>3 DEF HoldInv
    <3> QED
      BY <3>2, <3>3
  <2>3. CASE Deleting
    <3>1. path_walk'[task.path] = NoInode
      BY <2>3, DeleteSight DEF Absent
    <3>2. path_walk[p] = i
      BY <1>1, <2>3, <3>1, DeleteSight, ConstantTypes
    <3>3. PICK k \in Inode : inode_table' = [inode_table EXCEPT ![k] = FreeInode]
      BY <2>3, DeleteSight
    <3>4. inode_table'[i] = inode_table[i]
      BY <1>1, <3>3 DEF FreeInode, LinkInv, BlockInv, TypeInv, TypeOK, RamTypeOK
    <3> QED
      BY <1>1, <3>2, <3>4 DEF HoldInv
  <2> QED
    BY <2>1, <2>2, <2>3
<1>2. ASSUME pc' = "dir_link", inode_table'[frame'.inode].blocks[0] = NoBlock
      PROVE  Target' = InstallDirs[1]
  <2>1. CASE vars' = vars
    BY <1>2, <2>1 DEF vars, ram, control, HoldInv, Target
  <2>2. CASE Next
    <3>1. CreateDirAlloc
      BY <1>2, <2>2, OnlyAllocating
    <3>2. Prefix(frame'.dir, frame'.depth) = InstallDirs[1]
      BY <1>2, <3>1, ZeroBlockFirst
    <3> QED
      BY <1>2, <3>2 DEF Target, Prefix
  <2> QED
    BY <2>1, <2>2
<1> QED
  BY <1>1, <1>2 DEF HoldInv

LEMMA RoomInit == Init => RoomInv
<1> SUFFICES ASSUME Init PROVE RoomInv
  OBVIOUS
<1>1. \A i \in Inode : inode_table[i].type = "FREE"
  BY DEF Init, FreeInode
<1> QED
  BY <1>1 DEF RoomInv, DotsInv, FileInv, HoldInv, Directories, Init

LEMMA RoomNext ==
    ASSUME PlainCalls, PlainInstall, LinkInv, PathInv, ZeroInv, LayInv, RoomInv,
           LinkInv', [Next]_vars
    PROVE  RoomInv'
<1>1. TypeOK'
  BY DEF LinkInv, BlockInv, TypeInv
<1> QED
  BY <1>1, DotsNext, FileNext, HoldNext DEF RoomInv

\* The calls name the path that gets an entry.
LEMMA TargetNamed ==
    ASSUME PlainCalls, LinkInv, PathInv, Linking
    PROVE  Target \in FilePaths \cup DirPaths
<1>1. TypeOK /\ CallInv /\ CalledInv /\ DirInv
  BY DEF LinkInv, BlockInv, TypeInv, PathInv
<1>2. CASE pc = "dir_link"
  <2>1. /\ frame.dir \in NamedPath /\ Fronts(frame.dir) \subseteq DirPaths
        /\ frame.depth \in 1 .. Len(frame.dir)
    BY <1>1, <1>2, PathsInHand DEF DirLabel, CallInv
  <2> QED
    BY <1>2, <2>1, FrontParts DEF Target
<1>3. CASE pc = "file_data"
  BY <1>1, <1>3, PathsInHand DEF FileLabel, CallInv, Target
<1> QED
  BY <1>2, <1>3 DEF Linking, CreateDirLink, CreateFileLink

\* The paths that the entries of a directory stand for.
LEMMA EntryPath ==
    ASSUME LinkInv, PathInv, RoomInv, NEW p \in NamedPath, NEW c \in Directories,
           path_walk[p] = c, NEW s \in Slot, Named(c, s)
    PROVE  /\ Append(p, Entry(c, s).name) \in Below(p)
           /\ FileName(Append(p, Entry(c, s).name)) = Entry(c, s).name
           /\ ~ Absent(Append(p, Entry(c, s).name))
<1>1. TypeOK /\ Walked /\ EntriesLive
  BY PathsWalked DEF LinkInv, BlockInv, TypeInv, Tidy, TreeOK, PathInv, NamesInv
<1>2. PICK n, i : n = Entry(c, s).name /\ i = Entry(c, s).inode
  OBVIOUS
<1>3. n \in Name /\ i \in Inode /\ inode_table[i].type # "FREE"
  BY <1>1, <1>2 DEF Named, EntriesLive, Live
<1>4. PICK q : q = Append(p, n)
  OBVIOUS
<1>5. /\ q \in NamedPath \ {<< >>}
      /\ Parent(q) = p /\ FileName(q) = n
  BY <1>3, <1>4, NamedPathParts, AppendPath DEF NamedPath, Component
<1>6. Edge(c, n, i)
  BY <1>2 DEF Edge
<1>7. c \in Found
  BY DEF Directories, Found
<1>8. path_walk[q] = i
  BY <1>1, <1>3, <1>5, <1>6, <1>7 DEF Walked
<1>9. inode_table[i].type \in {"FREE", "FILE", "DIR"}
  BY <1>1, <1>3 DEF TypeOK, RamTypeOK, InodeRecord
<1>10. q \in FilePaths \cup DirPaths
  BY <1>3, <1>5, <1>8, <1>9 DEF RoomInv, FileInv, PathInv, KindInv
<1>11. path_walk[q] # NoInode
  BY <1>3, <1>8, ConstantTypes
<1> QED
  BY <1>2, <1>4, <1>5, <1>10, <1>11 DEF Below, Absent

\* The directory that gets an entry has a block, and room in it.
LEMMA RoomLeft ==
    ASSUME PlainCalls, RoomForCalls, LinkInv, PathInv, RoomInv, TypeOK', Linking,
           NEW c, c = frame.parent
    PROVE  /\ inode_table[c].blocks[0] # NoBlock
           /\ \E s \in StoredSlot : ~ Entry(c, s).in_use
<1>1. PICK t : t = Target
  OBVIOUS
<1>2. /\ c \in Inode /\ inode_table[c].type = "DIR" /\ path_walk[Parent(t)] = c
      /\ t \in NamedPath \ {<< >>} /\ Parent(t) \in NamedPath /\ Absent(t)
  BY <1>1, LinkWrites, LinkSight, NamedPathParts
<1>3. t \in Below(Parent(t))
  BY <1>1, <1>2, TargetNamed DEF Below
<1>4. inode_table[c].blocks[0] # NoBlock
  BY <1>2, <1>3 DEF RoomInv, HoldInv, RoomForCalls
<1>5. c \in Directories
  BY <1>2, <1>4 DEF Directories
<1>6. CASE SECTOR_DIR_ENTRIES = FS_MAX_DIR_ENTRIES
  <2>1. Slot = StoredSlot
    BY <1>6 DEF Slot, StoredSlot
  <2> QED
    BY <1>1, <1>4, <2>1, LinkWrites
<1>7. CASE \A path \in DirPaths : /\ IsFiniteSet(Below(path))
                                  /\ Cardinality(Below(path)) + 2 <= SECTOR_DIR_ENTRIES
  <2> SUFFICES ASSUME \A s \in StoredSlot : Entry(c, s).in_use
               PROVE  FALSE
    BY <1>4
  <2>1. PICK p : p = Parent(t)
    OBVIOUS
  <2>2. p \in NamedPath /\ p \in DirPaths /\ path_walk[p] = c
    BY <1>2, <2>1 DEF PathInv, KindInv
  <2>3. IsFiniteSet(Below(p)) /\ Cardinality(Below(p)) + 2 <= SECTOR_DIR_ENTRIES
    BY <1>7, <2>2
  <2> DEFINE S == 2 .. SECTOR_DIR_ENTRIES - 1
             T == Below(p) \ {t}
             g == [s \in S |-> Append(p, Entry(c, s).name)]
  <2>4. /\ SECTOR_DIR_ENTRIES \in Nat /\ 2 <= SECTOR_DIR_ENTRIES
        /\ SECTOR_DIR_ENTRIES <= FS_MAX_DIR_ENTRIES /\ FS_MAX_DIR_ENTRIES \in Nat
    BY SizesAssumption
  <2>5. IsFiniteSet(S) /\ Cardinality(S) = SECTOR_DIR_ENTRIES - 2
    BY <2>4, FS_Interval
  <2>6. IsFiniteSet(T) /\ Cardinality(T) = Cardinality(Below(p)) - 1
    BY <1>3, <2>1, <2>3, FS_RemoveElement
  <2>7. Cardinality(Below(p)) \in Nat
    BY <2>3, FS_CardinalityType
  <2>8. Cardinality(T) < Cardinality(S)
    BY <2>3, <2>4, <2>5, <2>6, <2>7
  <2>9. \A s \in S : s \in Slot /\ s \in StoredSlot /\ s > 1
    BY <2>4 DEF Slot, StoredSlot
  <2>10. \A s \in S : Named(c, s)
    BY <1>5, <2>9 DEF Named, RoomInv, DotsInv
  <2>11. ASSUME NEW s \in S
         PROVE  g[s] \in T /\ FileName(g[s]) = Entry(c, s).name
    <3>1. s \in Slot /\ Named(c, s) /\ g[s] = Append(p, Entry(c, s).name)
      BY <2>9, <2>10
    <3>2. /\ g[s] \in Below(p) /\ FileName(g[s]) = Entry(c, s).name
          /\ ~ Absent(g[s])
      BY <1>5, <2>2, <3>1, EntryPath
    <3> QED
      BY <1>2, <3>2
  <2>12. g \in [S -> T]
    BY <2>11
  <2> HIDE DEF g
  <2>13. PICK x \in S, y \in S : x # y /\ g[x] = g[y]
    <3> HIDE DEF S, T
    <3> QED
      BY <2>5, <2>6, <2>8, <2>12, FS_PigeonHole
  <2>14. Entry(c, x).name = Entry(c, y).name
    BY <2>11, <2>13
  <2> QED
    BY <1>5, <2>9, <2>10, <2>13, <2>14 DEF PathInv, NamesInv, NamesOnce
<1> QED
  BY <1>6, <1>7 DEF RoomForCalls

\* So every new inode gets its path.
LEMMA LinkFinds ==
    ASSUME PlainCalls, RoomForCalls, LinkInv, PathInv, RoomInv, TypeOK', Linking
    PROVE  path_walk'[Target] = frame.inode
<1>1. PICK c, t : c = frame.parent /\ t = Target
  OBVIOUS
<1> QED
  BY <1>1, RoomLeft, LinkLands

\* The error path frees the inode it has not linked.
LEMMA FreedNotLive ==
    ASSUME TypeOK, GiveBack, NEW i \in Inode, inode_table'[i].type # "FREE"
    PROVE  inode_table[i].type # "FREE" /\ i # frame.inode
<1>1. inode_table' = [inode_table EXCEPT ![frame.inode] = FreeInode]
  BY DEF GiveBack, free_inode
<1> QED
  BY <1>1 DEF FreeInode, TypeOK, RamTypeOK

\* An inode that a call allocates waits for its entry.
LEMMA NewlyLive ==
    ASSUME LinkInv, [Next]_vars, ~ Linking, ~ Deleting, NEW i \in Inode \ {Root},
           inode_table'[i].type # "FREE", ~ (pc' \in {"dir_link", "file_data"} /\ i = frame'.inode)
    PROVE  inode_table[i].type # "FREE" /\ ~ Held(i)
<1>0. TypeOK /\ SavedInv /\ frame \in Frame
  BY DEF LinkInv, BlockInv, TypeInv, TypeOK, ControlTypeOK
<1>1. CASE UNCHANGED vars
  BY <1>1 DEF vars, ram, control, Held
<1>2. CASE BootInstalled
  BY <1>0, <1>2 DEF BootInstalled, SavedInv, Settled, Held
<1>3. CASE InstallRoot
  <2>1. inode_table'[i] = FreeInode
    BY <1>3 DEF InstallRoot
  <2> QED
    BY <2>1 DEF FreeInode
<1>4. CASE InstallSyncSuperblock \/ InstallSyncInodes \/ InstallNextDir \/ InstallFinish
  BY <1>4 DEF InstallSyncSuperblock, InstallSyncInodes, InstallNextDir, InstallFinish,
     ram, Held
<1>5. CASE InstallSyncBitmap
  BY <1>0, <1>5 DEF InstallSyncBitmap, SavedInv, Held
<1>6. CASE PowerOn \/ SwitchOff \/ Return \/ \E request \in Requests : Call(request)
  BY <1>6 DEF PowerOn, SwitchOff, Return, Call, ram, Held
<1>7. CASE CreateDirEnter \/ CreateDirSyncInodes \/ CreateDirSyncBitmap
  BY <1>7 DEF CreateDirEnter, CreateDirSyncInodes, CreateDirSyncBitmap, ram, Held
<1>8. CASE CreateDirAlloc
  <2>1. pc = "dir_alloc"
    BY <1>8 DEF CreateDirAlloc
  <2>2. CASE UNCHANGED <<ram, disk>>
    BY <2>1, <2>2 DEF ram, Held
  <2>3. CASE ~ UNCHANGED <<ram, disk>>
    <3>1. /\ pc' = "dir_link" /\ allocate_inode # NoInode
          /\ inode_table' = [inode_table EXCEPT ![allocate_inode] =
                 [FreeInode EXCEPT !.type = "DIR", !.blocks[0] = allocate_block]]
          /\ \E parent : frame' = [frame EXCEPT !.parent = parent, !.inode = allocate_inode]
      BY <1>8, <2>3 DEF CreateDirAlloc, Goto
    <3>2. frame'.inode = allocate_inode
      BY <1>0, <3>1 DEF Frame
    <3>3. inode_table'[i] = inode_table[i]
      BY <1>0, <3>1, <3>2 DEF TypeOK, RamTypeOK
    <3> QED
      BY <2>1, <3>3 DEF Held
  <2> QED
    BY <2>2, <2>3
<1>9. CASE CreateDirLink
  <2>1. pc' # "dir_inodes"
    BY <1>9 DEF Linking
  <2>2. GiveBack
    BY <1>9, <2>1 DEF CreateDirLink, LinkEntry, Goto
  <2> QED
    BY <1>0, <2>2, FreedNotLive DEF Held
<1>10. CASE CreateFileEnter \/ CreateFileParent \/ CreateFileSyncInodes
            \/ CreateFileSyncBitmap \/ CreateFileSyncSuperblock
  BY <1>10 DEF CreateFileEnter, CreateFileParent, CreateFileSyncInodes,
     CreateFileSyncBitmap, CreateFileSyncSuperblock, ram, Held
<1>11. CASE CreateFileAlloc
  <2>1. pc = "file_alloc"
    BY <1>11 DEF CreateFileAlloc
  <2>2. CASE UNCHANGED ram
    BY <2>1, <2>2 DEF ram, Held
  <2>3. CASE ~ UNCHANGED ram
    <3>1. /\ pc' = "file_data" /\ allocate_inode # NoInode
          /\ inode_table' = [inode_table EXCEPT ![allocate_inode] =
                 [FreeInode EXCEPT !.type = "FILE", !.size = Len(task.content)]]
          /\ frame' = [frame EXCEPT !.inode = allocate_inode, !.i = 0]
      BY <1>11, <2>3 DEF CreateFileAlloc, Goto
    <3>2. frame'.inode = allocate_inode
      BY <1>0, <3>1 DEF Frame
    <3>3. inode_table'[i] = inode_table[i]
      BY <1>0, <3>1, <3>2 DEF TypeOK, RamTypeOK
    <3> QED
      BY <2>1, <3>3 DEF Held
  <2> QED
    BY <2>2, <2>3
<1>12. CASE CreateFileData
  <2>1. CASE GiveBack
    BY <1>0, <2>1, FreedNotLive DEF Held
  <2>2. CASE ~ GiveBack
    <3>1. /\ pc = "file_data" /\ pc' = pc
          /\ inode_table' = [inode_table EXCEPT ![frame.inode].blocks[frame.i] = allocate_block]
          /\ frame' = [frame EXCEPT !.i = @ + 1]
      BY <1>12, <2>2 DEF CreateFileData
    <3>2. frame'.inode = frame.inode
      BY <1>0, <3>1 DEF Frame
    <3>3. inode_table'[i] = inode_table[i]
      BY <1>0, <3>1, <3>2 DEF TypeOK, RamTypeOK
    <3> QED
      BY <3>1, <3>2, <3>3 DEF Held
  <2> QED
    BY <2>1, <2>2
<1>13. CASE CreateFileLink
  <2>1. pc' # "file_inodes"
    BY <1>13 DEF Linking
  <2>2. GiveBack
    BY <1>13, <2>1 DEF CreateFileLink, LinkEntry, Goto
  <2> QED
    BY <1>0, <2>2, FreedNotLive DEF Held
<1>14. CASE DeleteFileEnter
  <2>1. UNCHANGED <<ram, disk>> /\ pc = "delete_file"
    BY <1>14 DEF DeleteFileEnter, Deleting, Goto
  <2> QED
    BY <2>1 DEF ram, Held
<1>15. CASE DeleteSyncInodes \/ DeleteSyncBitmap
  BY <1>15 DEF DeleteSyncInodes, DeleteSyncBitmap, ram, Held
<1> QED
  BY <1>1, <1>2, <1>3, <1>4, <1>5, <1>6, <1>7, <1>8, <1>9, <1>10, <1>11, <1>12,
     <1>13, <1>14, <1>15
     DEF Next, Kernel, User, Boot, Install, CreateDir, CreateFile, DeleteFile

\* Every inode in use is reached over a path, or is the one without an entry.
ReachInv ==
    \A i \in Inode : inode_table[i].type # "FREE" =>
        Held(i) \/ \E p \in NamedPath : path_walk[p] = i

LEMMA ReachNext ==
    ASSUME PlainCalls, RoomForCalls, LinkInv, PathInv, RoomInv, ReachInv,
           LinkInv', PathInv', [Next]_vars
    PROVE  ReachInv'
<1>0. TypeOK' /\ NamesInv' /\ Walked'
  BY PathsWalkedNext DEF LinkInv, BlockInv, TypeInv, PathInv, NamesInv
<1> SUFFICES ASSUME NEW i \in Inode, inode_table'[i].type # "FREE", ~ (Held(i)')
             PROVE  \E p \in NamedPath : path_walk'[p] = i
  BY DEF ReachInv
<1>1. CASE ~ Linking /\ ~ Deleting
  <2>1. CASE i = Root
    BY <1>0, <2>1, NamedPathParts DEF Walked
  <2>2. CASE i # Root
    <3>1. inode_table[i].type # "FREE" /\ ~ Held(i)
      BY <1>1, <2>2, NewlyLive DEF Held
    <3>2. PICK p \in NamedPath : path_walk[p] = i
      BY <3>1 DEF ReachInv
    <3>3. path_walk'[p] = i
      BY <1>1, <3>2, StepSight
    <3> QED
      BY <3>3
  <2> QED
    BY <2>1, <2>2
<1>2. CASE Linking
  <2>1. inode_table' = inode_table /\ Target \in NamedPath
    BY <1>0, <1>2, LinkSight
  <2>2. CASE i = frame.inode
    BY <1>0, <1>2, <2>1, <2>2, LinkFinds
  <2>3. CASE i # frame.inode
    <3>1. PICK p \in NamedPath : path_walk[p] = i
      BY <2>1, <2>3 DEF ReachInv, Held
    <3>2. p # Target
      BY <1>0, <1>2, <3>1, LinkSight, ConstantTypes DEF Absent
    <3>3. path_walk'[p] = i
      BY <1>0, <1>2, <3>1, <3>2, LinkSight
    <3> QED
      BY <3>3
  <2> QED
    BY <2>2, <2>3
<1>3. CASE Deleting
  <2>1. PICK k \in Inode : /\ path_walk[task.path] = k
                           /\ inode_table' = [inode_table EXCEPT ![k] = FreeInode]
    BY <1>0, <1>3, DeleteSight
  <2>2. i # k /\ inode_table[i].type # "FREE" /\ pc = "delete_file"
    BY <1>3, <2>1
       DEF FreeInode, LinkInv, BlockInv, TypeInv, TypeOK, RamTypeOK, Deleting, DeleteFileEnter
  <2>3. PICK p \in NamedPath : path_walk[p] = i
    BY <2>2 DEF ReachInv, Held
  <2>4. p # task.path
    BY <2>1, <2>2, <2>3
  <2>5. path_walk'[p] = i
    BY <1>0, <1>3, <2>3, <2>4, DeleteSight
  <2> QED
    BY <2>5
<1> QED
  BY <1>1, <1>2, <1>3

\* At rest no inode is lost.
LEMMA ReachedHasEntry ==
    ASSUME LinkInv, PathInv, DotsInv, ReachInv
    PROVE  NoOrphans
<1> SUFFICES ASSUME AtRest, NEW i \in Live \ {Root}
             PROVE  \E e \in Links(i) : e[2] > 1
  BY DEF NoOrphans
<1>1. TypeOK /\ Walked
  BY PathsWalked DEF LinkInv, BlockInv, TypeInv, PathInv, NamesInv
<1>2. i \in Inode /\ inode_table[i].type # "FREE" /\ ~ Held(i)
  BY DEF Live, AtRest, Held
<1>3. PICK p \in NamedPath : path_walk[p] = i
  BY <1>2 DEF ReachInv
<1>4. p # << >>
  BY <1>1, <1>3 DEF Walked
<1>5. path_walk[Parent(p)] \in Found
  BY <1>1, <1>4, NamedPathParts DEF Walked
<1>6. Edge(path_walk[Parent(p)], FileName(p), i)
  BY <1>1, <1>2, <1>3, <1>4, <1>5 DEF Walked
<1>7. PICK d \in Directories, s \in Slot : Named(d, s) /\ Entry(d, s).inode = i
  BY <1>6 DEF Edge
<1>8. s > 1
  BY <1>7 DEF DotsInv, Named
<1>9. PICK e \in Directories \X Slot : e = <<d, s>>
  BY <1>7
<1>10. e \in Links(i) /\ e[2] > 1
  BY <1>7, <1>8, <1>9 DEF Links, UsedEntries, Named, Entry
<1> QED
  BY <1>10

(***************************************************************************)
(* allocate_inode, the error paths of fs_create_file and fs_create_dir     *)
(* (free_inode), and dir_add_entry: at rest every inode in use but the     *)
(* root has an entry in a directory, whatever was created, overwritten,    *)
(* deleted and reused before.  For calls that fit a directory's sector.    *)
(***************************************************************************)
THEOREM NothingOrphaned ==
    ASSUME PlainCalls, PlainInstall, RoomForCalls
    PROVE  Spec => []NoOrphans
<1> DEFINE Inv == /\ LinkInv /\ PathInv /\ ZeroInv /\ LayInv /\ RoomInv /\ ReachInv
<1>1. Init => Inv
  <2> SUFFICES ASSUME Init PROVE ReachInv
    BY LinkInit, PathInit, StoreInit, LayInit, RoomInit DEF StoreInv
  <2>1. \A i \in Inode : inode_table[i].type = "FREE"
    BY DEF Init, FreeInode
  <2> QED
    BY <2>1 DEF ReachInv
<1>2. ZeroGoesFirst
  <2>1. Len(InstallDirs) \in Nat \ {0} /\ Len(InstallDirs) < FS_MAX_INODES
    BY ListParts
  <2> QED
    BY <2>1, SizesAssumption DEF ZeroGoesFirst, PlainInstall
<1>3. Inv /\ [Next]_vars => Inv'
  <2> SUFFICES ASSUME Inv, [Next]_vars PROVE Inv'
    OBVIOUS
  <2>1. LinkInv'
    BY LinkNext DEF Step
  <2>2. PathInv'
    BY PathNext
  <2>3. ZeroInv'
    BY <1>2, ZeroNext
  <2>4. LayInv'
    BY LayNext
  <2>5. RoomInv'
    BY <2>1, RoomNext
  <2>6. ReachInv'
    BY <2>1, <2>2, ReachNext
  <2> QED
    BY <2>1, <2>2, <2>3, <2>4, <2>5, <2>6
<1>4. Inv => NoOrphans
  BY ReachedHasEntry DEF RoomInv
<1> QED
  BY <1>1, <1>3, <1>4, PTL DEF Spec

-----------------------------------------------------------------------------
(* The file system implements the tree                                     *)

\* The machine installs when it is switched on first, and never after that.
PhaseInv ==
    /\ boots >= 1
    /\ (boots = 1 /\ pc # "off") =>
           \/ pc = "boot" /\ d_superblock.installed # 1
           \/ pc \notin {"boot", "idle", "return"} /\ task.op = "install"
    /\ (boots > 1 \/ pc = "off") =>
           /\ pc \in {"boot", "off"} => d_superblock.installed = 1
           /\ task.op # "install"

\* fs_create_dir has linked the directory it goes on to save.
LinkedInv ==
    pc \in {"dir_inodes", "dir_bitmap"} => ~ Absent(Prefix(frame.dir, frame.depth))

LEMMA PhaseNext ==
    ASSUME LinkInv, CalledInv, PhaseInv, [Next]_vars
    PROVE  PhaseInv'
<1>0. TypeOK /\ CallInv /\ InstalledInv /\ boots \in Nat
  BY DEF LinkInv, BlockInv, TypeInv, TypeOK, ControlTypeOK
<1>1. CASE UNCHANGED vars
  BY <1>1 DEF PhaseInv, vars, disk, metadata, control
<1>2. CASE BootInstalled
  BY <1>0, <1>2 DEF BootInstalled, PhaseInv, CallInv, NoTask, Goto
<1>3. CASE InstallRoot
  BY <1>0, <1>3 DEF InstallRoot, PhaseInv, Goto
<1>4. CASE InstallFinish
  <2>1. d_superblock'.installed = 1 /\ pc' = "off" /\ task' = NoTask /\ boots' = boots
    BY <1>0, <1>4 DEF InstallFinish, InstalledInv, sync_superblock, Goto
  <2> QED
    BY <2>1 DEF PhaseInv, NoTask
<1>5. CASE PowerOn
  BY <1>0, <1>5 DEF PowerOn, PhaseInv, Goto, disk, metadata
<1>6. CASE SwitchOff
  BY <1>0, <1>6 DEF SwitchOff, PhaseInv, InstalledInv, Goto, disk, metadata
<1>7. CASE Return
  BY <1>0, <1>7 DEF Return, PhaseInv, NoTask, Goto
<1>8. ASSUME NEW request \in Requests, Call(request)
      PROVE  PhaseInv'
  <2>1. request.op \in ThreeOps
    BY CallsAssumption DEF Request, ThreeOps
  <2> QED
    BY <1>0, <1>8, <2>1 DEF Call, PhaseInv, Goto, ThreeOps
<1>9. CASE \/ InstallSyncSuperblock \/ InstallSyncInodes \/ InstallSyncBitmap
           \/ InstallNextDir \/ CreateDir \/ CreateFile \/ DeleteFile
  <2>1. /\ pc \notin {"boot", "off", "idle", "return"}
        /\ pc' \notin {"boot", "off", "idle"}
        /\ pc' = "return" => task.op # "install"
        /\ UNCHANGED <<task, boots>>
    <3>1. CASE \/ InstallSyncSuperblock \/ InstallSyncInodes \/ InstallSyncBitmap
               \/ InstallNextDir
      BY <3>1 DEF InstallSyncSuperblock, InstallSyncInodes, InstallSyncBitmap,
         InstallNextDir, Goto
    <3>2. CASE CreateDir
      BY <3>2 DEF CreateDir, CreateDirEnter, CreateDirAlloc, CreateDirLink,
         CreateDirSyncInodes, CreateDirSyncBitmap, LinkEntry, GiveBack,
         CreateDirReturnsOk, Leave, Goto
    <3>3. CASE CreateFile
      BY <3>3 DEF CreateFile, CreateFileEnter, CreateFileParent, CreateFileAlloc,
         CreateFileData, CreateFileLink, CreateFileSyncInodes, CreateFileSyncBitmap,
         CreateFileSyncSuperblock, LinkEntry, GiveBack, Leave, Goto
    <3>4. CASE DeleteFile
      BY <3>4 DEF DeleteFile, DeleteFileEnter, DeleteSyncInodes, DeleteSyncBitmap,
         DeleteReturns, Leave, Goto
    <3> QED
      BY <1>9, <3>1, <3>2, <3>3, <3>4
  <2> QED
    BY <1>0, <2>1 DEF PhaseInv
<1> QED
  BY <1>1, <1>2, <1>3, <1>4, <1>5, <1>6, <1>7, <1>8, <1>9
     DEF Next, Kernel, User, Boot, Install

\* How fs_create_dir comes to its two syncs.
LEMMA OnlyMaking ==
    ASSUME [Next]_vars, pc' \in {"dir_inodes", "dir_bitmap"}, ~ Linking
    PROVE  UNCHANGED frame /\ pc \in {"dir_inodes", "dir_bitmap"}
<1>1. CASE UNCHANGED vars
  BY <1>1 DEF vars, control
<1>2. CASE Next
  <2>1. \A request \in Requests : Call(request) => pc' \notin {"dir_inodes", "dir_bitmap"}
    BY CallsAssumption DEF Call, Goto, Request
  <2>2. CreateDirSyncInodes
    BY <1>2, <2>1 DEF Next, Kernel, User, Boot, Install, CreateDir, CreateFile, DeleteFile,
     BootInstalled, InstallRoot, InstallSyncSuperblock, InstallSyncInodes,
     InstallSyncBitmap, InstallNextDir, InstallFinish, PowerOn, SwitchOff, Return,
     CreateDirEnter, CreateDirAlloc, CreateDirLink,
     CreateDirSyncBitmap, CreateFileEnter, CreateFileParent, CreateFileAlloc,
     CreateFileData, CreateFileLink, CreateFileSyncInodes, CreateFileSyncBitmap,
     CreateFileSyncSuperblock, DeleteFileEnter, DeleteSyncInodes, DeleteSyncBitmap,
     Goto, Leave, CreateDirReturnsOk, DeleteReturns, LinkEntry, GiveBack, Linking
  <2> QED
    BY <2>2 DEF CreateDirSyncInodes
<1> QED
  BY <1>1, <1>2

LEMMA LinkedNext ==
    ASSUME PlainCalls, RoomForCalls, LinkInv, PathInv, RoomInv, LinkedInv,
           TypeOK', [Next]_vars
    PROVE  LinkedInv'
<1> SUFFICES ASSUME pc' \in {"dir_inodes", "dir_bitmap"}
             PROVE  path_walk'[Prefix(frame'.dir, frame'.depth)] # NoInode
  BY DEF LinkedInv, Absent, Prefix
<1>0. TypeOK /\ CallInv /\ CalledInv /\ DirInv /\ frame.inode \in Inode
  BY DEF LinkInv, BlockInv, TypeInv, TypeOK, ControlTypeOK, Frame, PathInv
<1>1. CASE Linking
  <2>1. frame' = frame /\ pc = "dir_link" /\ path_walk'[Target] = frame.inode
    BY <1>1, LinkSight, LinkFinds
  <2> QED
    BY <1>0, <2>1, ConstantTypes DEF Target
<1>2. CASE ~ Linking
  <2>1. frame' = frame /\ pc \in {"dir_inodes", "dir_bitmap"}
    BY <1>2, OnlyMaking
  <2>2. PICK p : p = Prefix(frame.dir, frame.depth)
    OBVIOUS
  <2>3. p \in NamedPath
    BY <1>0, <2>1, <2>2, PathsInHand, FrontParts DEF DirLabel, CallInv
  <2>4. ~ Deleting
    BY DEF Deleting
  <2>5. path_walk'[p] = path_walk[p]
    BY <1>2, <2>3, <2>4, StepSight
  <2> QED
    BY <2>1, <2>2, <2>5 DEF LinkedInv, Absent
<1> QED
  BY <1>1, <1>2

\* Below what is not there, nothing is.
LEMMA AbsentBelow ==
    ASSUME Walked, NEW p \in NamedPath, NEW k \in 0 .. Len(p), Absent(Prefix(p, k))
    PROVE  Absent(p)
<1>1. Len(p) \in Nat /\ k \in Nat
  BY LenProperties DEF NamedPath
<1> DEFINE T == {m \in Nat : k + m <= Len(p) => Absent(Prefix(p, k + m))}
<1>2. 0 \in T
  BY <1>1
<1>3. ASSUME NEW m \in T
      PROVE  m + 1 \in T
  <2> SUFFICES ASSUME k + (m + 1) <= Len(p)
               PROVE  Absent(Prefix(p, k + (m + 1)))
    BY <1>3
  <2>1. PICK j \in 1 .. Len(p) : j = k + (m + 1)
    BY <1>1, <1>3
  <2>2. j - 1 = k + m /\ k + m <= Len(p)
    BY <1>1, <1>3, <2>1
  <2>3. /\ Prefix(p, j) \in NamedPath \ {<< >>}
        /\ Parent(Prefix(p, j)) = Prefix(p, j - 1) /\ Absent(Prefix(p, j - 1))
    BY <1>3, <2>2, FrontParts
  <2>4. path_walk[Parent(Prefix(p, j))] = NoInode /\ NoInode \in Found
    BY <2>3 DEF Absent, Found
  <2>5. \A i \in Inode : ~ Edge(NoInode, FileName(Prefix(p, j)), i)
    BY ConstantTypes DEF Edge, Directories
  <2>6. path_walk[Prefix(p, j)] \notin Inode
    BY <2>3, <2>4, <2>5 DEF Walked
  <2>7. path_walk[Prefix(p, j)] = NoInode
    BY <2>3, <2>6 DEF Walked, Found
  <2> QED
    BY <2>1, <2>7 DEF Absent
<1>4. T = Nat
  <2> HIDE DEF T
  <2>1. T \in SUBSET Nat
    BY DEF T
  <2> QED
    BY <1>2, <1>3, <2>1, Induction
<1>5. PICK m \in Nat : k + m = Len(p)
  <2>1. Len(p) - k \in Nat /\ k + (Len(p) - k) = Len(p)
    BY <1>1
  <2> QED
    BY <2>1
<1>6. Prefix(p, Len(p)) = p
  <2>1. CASE Len(p) = 0
    <3>1. p = << >>
      BY <2>1, EmptySeq DEF NamedPath
    <3> QED
      BY <3>1 DEF Prefix
  <2>2. CASE Len(p) # 0
    <3>1. Len(p) \in 1 .. Len(p)
      BY <1>1, <2>2
    <3> QED
      BY <3>1, FrontParts
  <2> QED
    BY <2>1, <2>2
<1>7. m \in T
  BY <1>4
<1> QED
  BY <1>1, <1>5, <1>6, <1>7

\* A way of directories leads to a directory or to nothing.
LEMMA DirSeen ==
    ASSUME PlainCalls, LinkInv, PathInv, RoomInv, pc \notin {"boot", "off"},
           NEW p \in NamedPath, p \in DirPaths, ~ Absent(p)
    PROVE  fs_dir_exists(p)
<1>1. TypeOK /\ Sight
  BY SightOf DEF LinkInv, BlockInv, TypeInv
<1>2. PICK i \in Inode : path_walk[p] = i
  BY <1>1 DEF Sight, Found, Absent
<1>3. i \in Live /\ inode_table[i].type \in {"FREE", "FILE", "DIR"}
  BY <1>1, <1>2, WalkedInUse DEF TypeOK, RamTypeOK, InodeRecord
<1>4. inode_table[i].type # "FILE"
  BY <1>2 DEF RoomInv, FileInv, PlainCalls
<1> QED
  BY <1>1, <1>2, <1>3, <1>4 DEF Sight, Live

\* What the shell sees, as the abstract tree.
LEMMA SameTreeSeen ==
    ASSUME PlainCalls, \A p \in NamedPath : SameAt(p)
    PROVE  Tree' = Tree
BY DEF Tree, SameAt, Visible, PlainCalls

LEMMA TreeWith ==
    ASSUME PlainCalls, NEW t \in Paths, \A p \in NamedPath \ {t} : SameAt(p),
           Visible(t)'
    PROVE  Tree' = [p \in DOMAIN Tree \cup {t} |-> IF p = t THEN NodeAt(t)' ELSE Tree[p]]
<1> DEFINE seen == [p \in DOMAIN Tree \cup {t} |-> IF p = t THEN NodeAt(t)' ELSE Tree[p]]
<1>1. DOMAIN Tree = {p \in Paths : Visible(p)} /\ DOMAIN Tree' = {p \in Paths : Visible(p)'}
  BY DEF Tree, Visible
<1>2. \A p \in Paths \ {t} : (Visible(p)' <=> Visible(p)) /\ (Visible(p) => NodeAt(p)' = NodeAt(p))
  BY DEF SameAt, PlainCalls
<1>3. DOMAIN Tree' = DOMAIN seen
  BY <1>1, <1>2
<1>4. ASSUME NEW p \in DOMAIN Tree'
      PROVE  Tree'[p] = seen[p]
  <2>1. Tree'[p] = NodeAt(p)'
    BY <1>4 DEF Tree
  <2>2. CASE p = t
    BY <2>1, <2>2
  <2>3. CASE p # t
    <3>1. p \in Paths /\ Visible(p) /\ NodeAt(p)' = NodeAt(p)
      BY <1>1, <1>2, <1>4, <2>3
    <3>2. Tree[p] = NodeAt(p)
      BY <3>1 DEF Tree, Visible
    <3> QED
      BY <1>1, <2>1, <2>3, <3>1, <3>2
  <2> QED
    BY <2>2, <2>3
<1>5. Tree' = [p \in DOMAIN Tree' |-> Tree'[p]]
  BY DEF Tree
<1> QED
  BY <1>3, <1>4, <1>5

LEMMA TreeWithout ==
    ASSUME PlainCalls, NEW t \in Paths, \A p \in NamedPath \ {t} : SameAt(p),
           ~ (Visible(t)')
    PROVE  Tree' = [p \in DOMAIN Tree \ {t} |-> Tree[p]]
<1>1. {p \in Paths : Visible(p)'} = {p \in Paths : Visible(p)} \ {t}
  BY DEF SameAt, PlainCalls
<1>2. \A p \in Paths \ {t} : Visible(p) => NodeAt(p)' = NodeAt(p)
  BY DEF SameAt, PlainCalls
<1>3. Tree = [p \in {q \in Paths : Visible(q)} |-> NodeAt(p)]
  BY DEF Tree, Visible
<1>4. Tree' = [p \in {q \in Paths : Visible(q)'} |-> NodeAt(p)']
  BY DEF Tree, Visible
<1>5. \A p \in DOMAIN Tree \ {t} : Tree[p] = NodeAt(p)'
  BY <1>2, <1>3
<1>6. DOMAIN Tree \ {t} = {p \in Paths : Visible(p)'}
  BY <1>1, <1>3
<1> QED
  BY <1>4, <1>5, <1>6

\* The status, label by label.
StatusTable ==
    /\ pc = "idle" => Status = "ready"
    /\ pc = "off" => Status = "off"
    /\ pc = "boot" /\ boots > 1 => Status = "off"
    /\ pc = "return" => Status = result
    /\ pc \in {"file_inodes", "file_bitmap", "file_superblock"} => Status = "changed"
    /\ pc \in {"delete_inodes", "delete_bitmap"} =>
           Status = IF task.op = "delete_file" THEN "changed" ELSE "busy"
    /\ pc \in DirLabel \cup {"create_dir", "create_file", "parent_made", "file_alloc",
                             "file_data", "delete_file"} => Status = "busy"

LEMMA StatusIs == ~ Installing => StatusTable
<1> SUFFICES ASSUME ~ Installing PROVE StatusTable
  OBVIOUS
<1>1. CASE pc \in {"idle", "off", "boot", "return"}
  BY <1>1 DEF Status, StatusTable, DirLabel
<1>2. CASE pc \in {"file_inodes", "file_bitmap", "file_superblock"}
  BY <1>2 DEF Status, StatusTable, DirLabel
<1>3. CASE pc \in {"delete_inodes", "delete_bitmap"}
  BY <1>3 DEF Status, StatusTable, DirLabel
<1>4. CASE pc \notin {"idle", "off", "boot", "return", "file_inodes", "file_bitmap",
                      "file_superblock", "delete_inodes", "delete_bitmap"}
  BY <1>4 DEF Status, StatusTable, DirLabel
<1> QED
  BY <1>1, <1>2, <1>3, <1>4

LEMMA StatusIsNext == (~ Installing)' => StatusTable'
  BY StatusIs, PTL

\* Steps of the tree, from what the file system's state says.
AbstractStep == [FT!Next]_(FT!vars)
Running == ~ Installing /\ ~ (Installing')

LEMMA AsStutter ==
    ASSUME Running, Tree' = Tree, task' = task, Status' = Status
    PROVE  AbstractStep
BY DEF AbstractStep, Running, FT!vars

LEMMA AsFail ==
    ASSUME Running, Tree' = Tree, task' = task, Status = "busy", Status' = "error",
           task.op = "create_dir" => ~ fs_dir_exists(task.path),
           task.op = "delete_file" => ~ fs_file_exists(task.path)
    PROVE  AbstractStep
<1>1. task.op = "create_dir" => ~ FT!IsDir(task.path)
  BY DEF FT!IsDir, Tree, NodeAt, Running
<1>2. task.op = "delete_file" => ~ FT!IsFile(task.path)
  BY DEF FT!IsFile, Tree, NodeAt, Running
<1> QED
  BY <1>1, <1>2 DEF AbstractStep, Running, FT!Next, FT!Fail

LEMMA AsSucceed ==
    ASSUME Running, Tree' = Tree, task' = task, Status' = "ok",
           \/ /\ task.op = "create_dir" /\ Status = "busy"
              /\ task.path \in Paths /\ fs_dir_exists(task.path)
           \/ task.op # "create_dir" /\ Status = "changed"
    PROVE  AbstractStep
<1>1. task.op = "create_dir" => FT!IsDir(task.path)
  BY DEF FT!IsDir, Tree, NodeAt, Running
<1>2. FT!Succeed
  BY <1>1 DEF FT!Succeed, Running
<1> QED
  BY <1>2 DEF AbstractStep, FT!Next

LEMMA AsMakeDir ==
    ASSUME Running, task' = task, Status = "busy", Status' = "busy",
           NEW t \in Paths, NEW k \in 1 .. Len(task.path), t = Prefix(task.path, k),
           task.op = "create_dir" \/ (task.op = "create_file" /\ t # task.path),
           ~ Visible(t), Parent(t) \in Paths, fs_dir_exists(Parent(t)),
           Tree' = [p \in DOMAIN Tree \cup {t} |->
                       IF p = t THEN [type |-> "DIR", content |-> << >>] ELSE Tree[p]]
    PROVE  AbstractStep
<1>1. t \in FT!Prefixes(task.path)
  BY DEF FT!Prefixes, Prefix
<1>2. t \notin DOMAIN Tree
  BY DEF Tree, Visible
<1>3. FT!IsDir(FT!Above(t))
  BY DEF FT!IsDir, FT!Above, Parent, Tree, NodeAt, Running
<1>4. Tree' = FT!With(t, FT!DirNode)
  BY DEF FT!With, FT!DirNode, Running
<1>5. FT!MakeDir
  BY <1>1, <1>2, <1>3, <1>4 DEF FT!MakeDir, Running
<1> QED
  BY <1>5 DEF AbstractStep, FT!Next

LEMMA AsPut ==
    ASSUME Running, task' = task, Status = "busy", Status' = "changed",
           task.op = "create_file", NEW t, t = task.path,
           ~ Visible(t), Parent(t) \in Paths, fs_dir_exists(Parent(t)),
           Tree' = [p \in DOMAIN Tree \cup {t} |->
                       IF p = t THEN [type |-> "FILE", content |-> task.content]
                       ELSE Tree[p]]
    PROVE  AbstractStep
<1>1. t \notin DOMAIN Tree
  BY DEF Tree, Visible
<1>2. FT!IsDir(FT!Above(t))
  BY DEF FT!IsDir, FT!Above, Parent, Tree, NodeAt, Running
<1>3. Tree' = FT!With(t, FT!FileNode(task.content))
  BY DEF FT!With, FT!FileNode, Running
<1>4. FT!Put
  BY <1>1, <1>2, <1>3 DEF FT!Put, Running
<1> QED
  BY <1>4 DEF AbstractStep, FT!Next

LEMMA AsRemove ==
    ASSUME Running, task' = task, Status = "busy",
           Status' = IF task.op = "delete_file" THEN "changed" ELSE "busy",
           task.op \in {"create_file", "delete_file"}, NEW t \in Paths, t = task.path,
           fs_file_exists(t), ~ fs_dir_exists(t),
           Tree' = [p \in DOMAIN Tree \ {t} |-> Tree[p]]
    PROVE  AbstractStep
<1>1. FT!IsFile(t)
  BY DEF FT!IsFile, Tree, NodeAt, Running
<1>2. Tree' = FT!Without(t)
  BY DEF FT!Without, Running
<1>3. FT!Remove
  BY <1>1, <1>2 DEF FT!Remove, Running
<1> QED
  BY <1>3 DEF AbstractStep, FT!Next

LEMMA PrefixParent ==
    ASSUME NEW p \in NamedPath \ {<< >>}, NEW k \in 1 .. Len(Parent(p))
    PROVE  Prefix(Parent(p), k) = Prefix(p, k) /\ k \in 1 .. Len(p)
<1>1. /\ Len(p) \in Nat \ {0} /\ Len(Parent(p)) = Len(p) - 1
      /\ Parent(p) \in Seq(Name) /\ p \in Seq(Name)
      /\ \A j \in 1 .. Len(p) - 1 : Parent(p)[j] = p[j]
  BY NamedPathParts, ParentSeq DEF NamedPath
<1>2. 1 \in Int /\ k \in Int /\ k \in 1 .. Len(p) /\ k - 1 + 1 = k /\ 1 <= k
  BY <1>1
<1>3. /\ \A j \in 1 .. Len(p) : p[j] \in Name
      /\ \A j \in 1 .. Len(Parent(p)) : Parent(p)[j] \in Name
  BY <1>1, LenProperties
<1>4. /\ \A j \in 1 .. k : p[j] \in Name /\ Parent(p)[j] \in Name
      /\ \A j \in 1 .. k : Parent(p)[j] = p[j] /\ 1 + j - 1 = j
  BY <1>1, <1>2, <1>3
<1>5. /\ SubSeq(p, 1, k) \in Seq(Name) /\ Len(SubSeq(p, 1, k)) = k
      /\ \A j \in 1 .. k : SubSeq(p, 1, k)[j] = p[1 + j - 1]
  BY <1>2, <1>4, SubSeqProperties
<1>6. /\ SubSeq(Parent(p), 1, k) \in Seq(Name) /\ Len(SubSeq(Parent(p), 1, k)) = k
      /\ \A j \in 1 .. k : SubSeq(Parent(p), 1, k)[j] = Parent(p)[1 + j - 1]
  BY <1>2, <1>4, SubSeqProperties
<1>7. \A j \in 1 .. k : SubSeq(Parent(p), 1, k)[j] = SubSeq(p, 1, k)[j]
  BY <1>4, <1>5, <1>6
<1>8. SubSeq(Parent(p), 1, k) = SubSeq(p, 1, k)
  BY <1>5, <1>6, <1>7, SeqEqual
<1> QED
  BY <1>2, <1>8 DEF Prefix

\* All that the proof knows of a state.
RefInv == LinkInv /\ PathInv /\ StoreInv /\ LayInv /\ RoomInv /\ PhaseInv /\ LinkedInv

\* The way to the directory that is being made.
LEMMA WayToMake ==
    ASSUME PlainCalls, CallsSeen, RefInv, task.op # "install",
           pc \in DirLabel \cup {"create_dir"}
    PROVE  /\ task.op \in {"create_dir", "create_file"} /\ task \in Requests
           /\ task.op = "create_dir" => frame.dir = task.path /\ task.path # << >>
                                        /\ task.path \in Paths
           /\ frame.dir \in NamedPath /\ Fronts(frame.dir) \subseteq DirPaths
           /\ \A j \in 1 .. Len(frame.dir) :
                  /\ Prefix(frame.dir, j) = Prefix(task.path, j)
                  /\ j \in 1 .. Len(task.path)
                  /\ Prefix(frame.dir, j) \in Paths /\ Prefix(frame.dir, j - 1) \in Paths
                  /\ task.op = "create_file" => Prefix(frame.dir, j) # task.path
<1>1. TypeOK /\ CallInv /\ CalledInv /\ DirInv
  BY DEF RefInv, LinkInv, BlockInv, TypeInv, PathInv
<1>2. \/ task.op = "create_dir" /\ frame.dir = task.path
      \/ task.op = "create_file" /\ frame.dir = Parent(task.path)
  BY <1>1 DEF DirInv
<1>3. /\ task \in Requests /\ task.path \in NamedPath /\ frame.dir \in NamedPath
      /\ Fronts(frame.dir) \subseteq DirPaths /\ Fronts(task.path) \subseteq Paths
  BY <1>1, <1>2, PathsInHand DEF CalledInv, CallsSeen
<1>4. task.op = "create_dir" => task.path # << >> /\ task.path \in Paths
  <2> SUFFICES ASSUME task.op = "create_dir"
               PROVE  task.path # << >> /\ task.path \in Paths
    OBVIOUS
  <2>1. task.path # << >>
    BY <1>3 DEF CallsSeen
  <2>2. Len(task.path) \in 1 .. Len(task.path)
    BY <1>3, <2>1, NamedPathParts
  <2> QED
    BY <1>3, <2>1, <2>2, FrontParts
<1>5. ASSUME NEW j \in 1 .. Len(frame.dir)
      PROVE  /\ Prefix(frame.dir, j) = Prefix(task.path, j)
             /\ j \in 1 .. Len(task.path)
             /\ Prefix(frame.dir, j) \in Paths /\ Prefix(frame.dir, j - 1) \in Paths
             /\ task.op = "create_file" => Prefix(frame.dir, j) # task.path
  <2>1. Prefix(frame.dir, j) = Prefix(task.path, j) /\ j \in 1 .. Len(task.path)
    <3>1. CASE task.op = "create_dir"
      BY <1>2, <3>1
    <3>2. CASE task.op = "create_file"
      <4>1. task.path # << >>
        BY <1>1, <3>2 DEF CallInv, DirLabel
      <4> QED
        BY <1>2, <1>3, <3>2, <4>1, PrefixParent
    <3> QED
      BY <1>2, <3>1, <3>2
  <2>2. Prefix(task.path, j) \in Paths
    BY <1>3, <2>1, FrontParts
  <2>3. Prefix(frame.dir, j - 1) \in Paths
    <3>1. Prefix(frame.dir, j - 1) = Prefix(task.path, j - 1)
      BY <1>3, <2>1, FrontParts
    <3>2. Len(task.path) \in Nat
      BY <1>3, LenProperties DEF NamedPath
    <3>3. j - 1 \in 0 .. Len(task.path)
      BY <2>1, <3>2
    <3>4. Prefix(task.path, j - 1) \in Fronts(task.path)
      BY <3>3 DEF Fronts
    <3> QED
      BY <1>3, <3>1, <3>4
  <2>4. Prefix(frame.dir, j) \in DirPaths
    BY <1>3, FrontParts
  <2>5. task.op = "create_file" => task.path \notin DirPaths
    <3>1. task.op = "create_file" => task.path # << >>
      BY <1>1 DEF CallInv, DirLabel
    <3> QED
      BY <1>1, <3>1, PathsInHand
  <2> QED
    BY <2>1, <2>2, <2>3, <2>4, <2>5
<1> QED
  BY <1>2, <1>3, <1>4, <1>5

\* An entry is written: a directory is made, or the file put.
LEMMA LinkRefines ==
    ASSUME PlainCalls, ShortFiles, RoomForCalls, CallsSeen, RefInv, TypeOK',
           [Next]_vars, Linking, Running, task.op # "install"
    PROVE  AbstractStep
<1>0. /\ LinkInv /\ PathInv /\ StoreInv /\ RoomInv /\ TypeOK /\ CallInv /\ CalledInv
      /\ Tidy /\ PlaceInv /\ frame.inode \in Inode /\ frame.parent \in Inode
  BY DEF RefInv, LinkInv, BlockInv, TypeInv, PathInv, TypeOK, ControlTypeOK, Frame
<1>1. PICK t, c : t = Target /\ c = frame.parent
  OBVIOUS
<1>2. /\ t \in NamedPath \ {<< >>} /\ Parent(t) \in NamedPath /\ Absent(t)
      /\ path_walk[Parent(t)] = c /\ inode_table[c].type = "DIR" /\ c \in Inode
      /\ path_walk'[t] = frame.inode /\ inode_table' = inode_table
      /\ task' = task
      /\ pc' = IF pc = "dir_link" THEN "dir_inodes" ELSE "file_inodes"
  BY <1>0, <1>1, LinkSight, LinkWrites, LinkFinds, NamedPathParts
<1>3. Sight /\ Sight' /\ StatusTable /\ StatusTable'
  BY <1>0, SightOf, SightOfNext, StatusIs, StatusIsNext DEF Running
<1>4. ~ Visible(t) /\ fs_dir_exists(Parent(t))
  <2>1. NoInode \notin Live
    BY ConstantTypes DEF Live
  <2> QED
    BY <1>2, <1>3, <2>1 DEF Sight, Absent
<1>5. inode_table[frame.inode].type # "FREE" /\ pc \in {"dir_link", "file_data"}
  BY <1>0
     DEF Linking, CreateDirLink, CreateFileLink, LinkInv, BlockInv, LoopInv, Tidy, UnlinkedInv
<1>6. Visible(t)'
  BY <1>0, <1>2, <1>3, <1>5 DEF Sight, Live
<1>7. \A p \in NamedPath \ {t} : SameAt(p)
  <2>1. ~ Deleting
    BY <1>5 DEF Deleting, DeleteFileEnter
  <2> QED
    BY <1>0, <1>1, <1>5, <2>1, StepTree
<1>8. NodeAt(t)' = IF pc = "dir_link" THEN [type |-> "DIR", content |-> << >>]
                          ELSE [type |-> "FILE", content |-> task.content]
  BY <1>0, <1>1, <1>6, NewNode
<1>9. CASE pc = "dir_link"
  <2>1. PICK j \in 1 .. Len(frame.dir) : j = frame.depth
    BY <1>0, <1>9 DEF CallInv, DirLabel
  <2>2. /\ t = Prefix(frame.dir, j) /\ Parent(t) = Prefix(frame.dir, j - 1)
        /\ t = Prefix(task.path, j) /\ j \in 1 .. Len(task.path)
        /\ t \in Paths /\ Parent(t) \in Paths
        /\ task.op = "create_dir" \/ (task.op = "create_file" /\ t # task.path)
    BY <1>1, <1>9, <2>1, WayToMake, FrontParts DEF Target, DirLabel
  <2>3. Status = "busy" /\ Status' = "busy"
    BY <1>2, <1>3, <1>9 DEF StatusTable, DirLabel
  <2>4. Tree' = [p \in DOMAIN Tree \cup {t} |->
                    IF p = t THEN [type |-> "DIR", content |-> << >>] ELSE Tree[p]]
    BY <1>6, <1>7, <1>8, <1>9, <2>2, TreeWith
  <2> QED
    BY <1>2, <1>4, <2>2, <2>3, <2>4, AsMakeDir
<1>10. CASE pc = "file_data"
  <2>1. t = task.path /\ task.op = "create_file" /\ task \in Requests
    BY <1>0, <1>1, <1>10 DEF Target, CallInv, FileLabel, CalledInv
  <2>2. t \in Paths /\ Parent(t) \in Paths
    <3>1. Len(t) \in 1 .. Len(t)
      BY <1>2, NamedPathParts
    <3>2. Fronts(t) \subseteq Paths /\ Prefix(t, Len(t)) = t /\ t \in Fronts(t)
      BY <1>2, <2>1, <3>1, FrontParts DEF CallsSeen
    <3>3. Len(t) \in Nat /\ Len(t) - 1 \in 0 .. Len(t)
      BY <3>1
    <3>4. Parent(t) \in Fronts(t)
      BY <3>3 DEF Fronts, Parent, Prefix
    <3> QED
      BY <3>2, <3>4
  <2>3. Status = "busy" /\ Status' = "changed"
    BY <1>2, <1>3, <1>10 DEF StatusTable
  <2>4. Tree' = [p \in DOMAIN Tree \cup {t} |->
                    IF p = t THEN [type |-> "FILE", content |-> task.content]
                    ELSE Tree[p]]
    BY <1>6, <1>7, <1>8, <1>10, <2>2, TreeWith
  <2> QED
    BY <1>2, <1>4, <2>1, <2>2, <2>3, <2>4, AsPut
<1> QED
  BY <1>5, <1>9, <1>10

\* The entry of a file is cleared.
LEMMA DeleteRefines ==
    ASSUME PlainCalls, CallsSeen, RefInv, TypeOK', [Next]_vars, Deleting, Running,
           task.op # "install"
    PROVE  AbstractStep
<1>0. LinkInv /\ PathInv /\ TypeOK /\ CalledInv /\ pc = "delete_file"
  BY DEF RefInv, LinkInv, BlockInv, TypeInv, PathInv, Deleting, DeleteFileEnter
<1>1. Sight /\ Sight' /\ StatusTable /\ StatusTable'
  BY <1>0, SightOf, SightOfNext, StatusIs, StatusIsNext DEF Running
<1>2. PICK t : t = task.path
  OBVIOUS
<1>3. /\ t \in NamedPath \ {<< >>} /\ path_walk'[t] = NoInode /\ task' = task
      /\ \E i \in Inode : path_walk[t] = i /\ inode_table[i].type = "FILE"
  BY <1>0, <1>2, DeleteSight DEF Absent
<1>4. task.op \in {"create_file", "delete_file"} /\ task \in Requests
  BY <1>0 DEF CalledInv
<1>5. t \in Paths
  <2>1. Len(t) \in 1 .. Len(t)
    BY <1>3, NamedPathParts
  <2> QED
    BY <1>2, <1>3, <1>4, <2>1, FrontParts DEF CallsSeen
<1>6. fs_file_exists(t) /\ ~ fs_dir_exists(t)
  BY <1>1, <1>3 DEF Sight
<1>7. ~ (Visible(t)')
  <2>1. NoInode \notin Live'
    BY ConstantTypes DEF Live
  <2> QED
    BY <1>1, <1>3, <2>1 DEF Sight
<1>8. \A p \in NamedPath \ {t} : SameAt(p)
  <2>1. ~ Linking
    BY <1>0 DEF Linking, CreateDirLink, CreateFileLink
  <2> QED
    BY <1>0, <1>2, <2>1, StepTree
<1>9. Tree' = [p \in DOMAIN Tree \ {t} |-> Tree[p]]
  BY <1>5, <1>7, <1>8, TreeWithout
<1>10. Status = "busy"
  BY <1>0, <1>1 DEF StatusTable
<1>11. Status' = IF task.op = "delete_file" THEN "changed" ELSE "busy"
  BY <1>1, <1>3 DEF StatusTable, Deleting
<1> QED
  BY <1>2, <1>3, <1>4, <1>5, <1>6, <1>9, <1>10, <1>11, AsRemove

\* Every other step of a call leaves the tree: the call goes on, fails or succeeds.
LEMMA QuietTree ==
    ASSUME PlainCalls, RefInv, [Next]_vars, ~ Linking, ~ Deleting, pc \notin {"boot", "off"}
    PROVE  Tree' = Tree
BY StepTree, SameTreeSeen DEF RefInv

Busy == DirLabel \cup {"create_dir", "create_file", "parent_made", "file_alloc",
                       "file_data", "delete_file"}

LEMMA GoesOn ==
    ASSUME PlainCalls, RefInv, [Next]_vars, ~ Linking, ~ Deleting, Running,
           pc \in Busy, pc' \in Busy, task' = task
    PROVE  AbstractStep
<1>1. Status = "busy" /\ Status' = "busy"
  BY StatusIs, StatusIsNext DEF StatusTable, Busy, Running
<1>2. Tree' = Tree
  BY QuietTree DEF Busy, DirLabel
<1> QED
  BY <1>1, <1>2, AsStutter

LEMMA Fails ==
    ASSUME PlainCalls, RefInv, [Next]_vars, ~ Linking, ~ Deleting, Running,
           pc \in Busy, task.op # "install", Leave("error"),
           task.op = "create_dir" => ~ fs_dir_exists(task.path),
           task.op = "delete_file" => ~ fs_file_exists(task.path)
    PROVE  AbstractStep
<1>1. pc' = "return" /\ result' = "error" /\ task' = task
  BY DEF Leave, Goto
<1>2. Status = "busy" /\ Status' = "error"
  BY <1>1, StatusIs, StatusIsNext DEF StatusTable, Busy, Running
<1>3. Tree' = Tree
  BY QuietTree DEF Busy, DirLabel
<1> QED
  BY <1>1, <1>2, <1>3, AsFail

\* fs_create_dir says that the directory is there when it is.
LEMMA DirMade ==
    ASSUME PlainCalls, CallsSeen, RefInv, [Next]_vars, Running,
           pc \in {"create_dir", "dir_bitmap"}, task.op # "install",
           CreateDirReturnsOk, ~ Absent(frame.dir), frame.dir # << >>
    PROVE  AbstractStep
<1>0. LinkInv /\ PathInv /\ RoomInv
  BY DEF RefInv
<1>1. ~ Linking /\ ~ Deleting /\ pc \in Busy
  BY DEF Linking, Deleting, CreateDirLink, CreateFileLink, DeleteFileEnter, Busy, DirLabel
<1>2. /\ task.op \in {"create_dir", "create_file"}
      /\ task.op = "create_dir" => frame.dir = task.path /\ task.path \in Paths
      /\ frame.dir \in NamedPath /\ Fronts(frame.dir) \subseteq DirPaths
  BY WayToMake DEF DirLabel
<1>3. CASE task.op = "create_file"
  BY <1>1, <1>3, GoesOn DEF CreateDirReturnsOk, Goto, Busy
<1>4. CASE task.op = "create_dir"
  <2>1. pc' = "return" /\ result' = "ok" /\ task' = task
    BY <1>4 DEF CreateDirReturnsOk, Leave, Goto
  <2>2. Status = "busy" /\ Status' = "ok"
    BY <1>1, <2>1, StatusIs, StatusIsNext DEF StatusTable, Busy, Running
  <2>3. Tree' = Tree
    BY <1>1, QuietTree
  <2>4. frame.dir \in DirPaths
    <3>1. Len(frame.dir) \in 1 .. Len(frame.dir)
      BY <1>2, NamedPathParts
    <3> QED
      BY <1>2, <3>1, FrontParts
  <2>5. fs_dir_exists(frame.dir)
    BY <1>0, <1>2, <2>4, DirSeen
  <2> QED
    BY <1>2, <1>4, <2>1, <2>2, <2>3, <2>5, AsSucceed
<1> QED
  BY <1>2, <1>3, <1>4

LEMMA CreateDirRefines ==
    ASSUME PlainCalls, ShortFiles, RoomForCalls, CallsSeen, RefInv, TypeOK',
           [Next]_vars, CreateDir, Running, task.op # "install"
    PROVE  AbstractStep
<1>0. /\ TypeOK /\ CallInv /\ Walked /\ PlaceInv /\ LinkedInv /\ PathInv /\ Sight
      /\ pc \in DirLabel \cup {"create_dir"}
  BY PathsWalked, SightOf
     DEF RefInv, LinkInv, BlockInv, TypeInv, PathInv, NamesInv, CreateDir, CreateDirEnter,
         CreateDirAlloc, CreateDirLink, CreateDirSyncInodes, CreateDirSyncBitmap, DirLabel
<1>1. CASE Linking
  BY <1>1, LinkRefines
<1> SUFFICES ASSUME ~ Linking PROVE AbstractStep
  BY <1>1
<1>2. ~ Deleting /\ pc \in Busy
  BY <1>0 DEF Deleting, DeleteFileEnter, Busy, DirLabel
<1>3. /\ task.op \in {"create_dir", "create_file"}
      /\ task.op = "create_dir" => frame.dir = task.path /\ task.path # << >>
      /\ frame.dir \in NamedPath
  BY <1>0, WayToMake
<1>4. ASSUME pc \in {"dir_alloc", "dir_link"}
      PROVE  task.op = "create_dir" => ~ fs_dir_exists(task.path)
  <2>1. frame.depth \in 1 .. Len(frame.dir) /\ Absent(Prefix(frame.dir, frame.depth))
    BY <1>0, <1>4 DEF CallInv, DirLabel, PlaceInv
  <2>2. frame.depth \in 0 .. Len(frame.dir)
    BY <2>1
  <2>3. Absent(frame.dir)
    BY <1>0, <1>3, <2>1, <2>2, AbsentBelow
  <2> QED
    BY <1>0, <1>3, <2>3, ConstantTypes DEF Absent, Sight
<1>5. CASE CreateDirEnter
  <2>1. pc = "create_dir"
    BY <1>5 DEF CreateDirEnter
  <2>2. CASE frame.dir = << >>
    <3>1. Leave("error")
      BY <1>5, <2>2 DEF CreateDirEnter
    <3> QED
      BY <1>2, <1>3, <2>2, <3>1, Fails
  <2>3. CASE frame.dir # << >> /\ Exists(frame.dir)
    <3>1. CreateDirReturnsOk
      BY <1>5, <2>3 DEF CreateDirEnter
    <3>2. ~ Absent(frame.dir)
      BY <1>0, <1>3, <2>3 DEF Sight, Exists, Absent
    <3> QED
      BY <2>1, <2>3, <3>1, <3>2, DirMade
  <2>4. CASE frame.dir # << >> /\ ~ Exists(frame.dir)
    <3>1. pc' = "dir_alloc" /\ task' = task
      BY <1>5, <2>4 DEF CreateDirEnter, Goto
    <3> QED
      BY <1>2, <3>1, GoesOn DEF Busy, DirLabel
  <2> QED
    BY <2>2, <2>3, <2>4
<1>6. CASE CreateDirAlloc
  <2>1. pc = "dir_alloc" /\ (Leave("error") \/ (pc' = "dir_link" /\ task' = task))
    BY <1>6 DEF CreateDirAlloc, Goto
  <2>2. CASE Leave("error")
    BY <1>2, <1>3, <1>4, <2>1, <2>2, Fails
  <2>3. CASE pc' = "dir_link" /\ task' = task
    BY <1>2, <2>3, GoesOn DEF Busy, DirLabel
  <2> QED
    BY <2>1, <2>2, <2>3
<1>7. CASE CreateDirLink
  <2>1. pc = "dir_link" /\ Leave("error")
    BY <1>7 DEF CreateDirLink, LinkEntry, GiveBack, Linking, Goto
  <2> QED
    BY <1>2, <1>3, <1>4, <2>1, Fails
<1>8. CASE CreateDirSyncInodes
  <2>1. pc' = "dir_bitmap" /\ task' = task
    BY <1>8 DEF CreateDirSyncInodes, Goto
  <2> QED
    BY <1>2, <2>1, GoesOn DEF Busy, DirLabel
<1>9. CASE CreateDirSyncBitmap
  <2>1. pc = "dir_bitmap"
    BY <1>9 DEF CreateDirSyncBitmap
  <2>2. CASE frame.depth < Len(frame.dir)
    <3>1. pc' = "dir_alloc" /\ task' = task
      BY <1>9, <2>2 DEF CreateDirSyncBitmap, Goto
    <3> QED
      BY <1>2, <3>1, GoesOn DEF Busy, DirLabel
  <2>3. CASE ~ (frame.depth < Len(frame.dir))
    <3>1. CreateDirReturnsOk
      BY <1>9, <2>3 DEF CreateDirSyncBitmap
    <3>2. /\ frame.depth \in 1 .. Len(frame.dir)
          /\ ~ Absent(Prefix(frame.dir, frame.depth))
      BY <1>0, <2>1 DEF CallInv, DirLabel, LinkedInv
    <3>3. frame.depth = Len(frame.dir)
      <4>1. Len(frame.dir) \in Nat
        BY <1>3, LenProperties DEF NamedPath
      <4> QED
        BY <2>3, <3>2, <4>1
    <3>4. Prefix(frame.dir, Len(frame.dir)) = frame.dir /\ frame.dir # << >>
      <4>1. frame.dir # << >>
        BY <3>2, EmptySeq
      <4> QED
        BY <1>3, <3>2, <3>3, FrontParts
    <3> QED
      BY <2>1, <3>1, <3>2, <3>3, <3>4, DirMade
  <2> QED
    BY <2>2, <2>3
<1> QED
  BY <1>5, <1>6, <1>7, <1>8, <1>9 DEF CreateDir

LEMMA CreateFileRefines ==
    ASSUME PlainCalls, ShortFiles, RoomForCalls, CallsSeen, RefInv, TypeOK',
           [Next]_vars, CreateFile, Running
    PROVE  AbstractStep
<1>0. pc \in FileLabel \cup {"create_file"} /\ task.op = "create_file"
  <2>1. pc \in FileLabel \cup {"create_file"}
    BY DEF CreateFile, CreateFileEnter, CreateFileParent, CreateFileAlloc, CreateFileData,
       CreateFileLink, CreateFileSyncInodes, CreateFileSyncBitmap,
       CreateFileSyncSuperblock, FileLabel
  <2> QED
    BY <2>1 DEF RefInv, LinkInv, BlockInv, TypeInv, CallInv
<1>1. CASE Linking
  BY <1>0, <1>1, LinkRefines
<1> SUFFICES ASSUME ~ Linking PROVE AbstractStep
  BY <1>1
<1>2. ~ Deleting
  BY <1>0 DEF Deleting, DeleteFileEnter, FileLabel
<1>3. ASSUME Leave("error"), pc \in Busy
      PROVE  AbstractStep
  BY <1>0, <1>2, <1>3, Fails
<1>4. ASSUME pc \in Busy, pc' \in Busy, task' = task
      PROVE  AbstractStep
  BY <1>2, <1>4, GoesOn
<1>5. CASE CreateFileEnter
  <2>1. pc = "create_file"
    BY <1>5 DEF CreateFileEnter
  <2>2. Leave("error") \/ (pc' \in {"create_dir", "parent_made"} /\ task' = task)
    BY <1>5 DEF CreateFileEnter, Goto
  <2> QED
    BY <1>3, <1>4, <2>1, <2>2 DEF Busy
<1>6. CASE CreateFileParent
  <2>1. pc = "parent_made"
    BY <1>6 DEF CreateFileParent
  <2>2. Leave("error") \/ (pc' \in {"delete_file", "file_alloc"} /\ task' = task)
    BY <1>6 DEF CreateFileParent, Goto
  <2> QED
    BY <1>3, <1>4, <2>1, <2>2 DEF Busy
<1>7. CASE CreateFileAlloc
  <2>1. pc = "file_alloc"
    BY <1>7 DEF CreateFileAlloc
  <2>2. Leave("error") \/ (pc' = "file_data" /\ task' = task)
    BY <1>7 DEF CreateFileAlloc, Goto
  <2> QED
    BY <1>3, <1>4, <2>1, <2>2 DEF Busy
<1>8. CASE CreateFileData
  <2>1. pc = "file_data"
    BY <1>8 DEF CreateFileData
  <2>2. Leave("error") \/ (pc' = pc /\ task' = task)
    BY <1>8 DEF CreateFileData, GiveBack
  <2> QED
    BY <1>3, <1>4, <2>1, <2>2 DEF Busy
<1>9. CASE CreateFileLink
  <2>1. pc = "file_data" /\ Leave("error")
    BY <1>9 DEF CreateFileLink, LinkEntry, GiveBack, Linking, Goto
  <2> QED
    BY <1>3, <2>1 DEF Busy
<1>10. CASE CreateFileSyncInodes \/ CreateFileSyncBitmap
  <2>1. /\ pc \in {"file_inodes", "file_bitmap"} /\ pc' \in {"file_bitmap", "file_superblock"}
        /\ task' = task
    BY <1>10 DEF CreateFileSyncInodes, CreateFileSyncBitmap, Goto
  <2>2. Status = "changed" /\ Status' = "changed"
    BY <2>1, StatusIs, StatusIsNext DEF StatusTable, Running
  <2>3. Tree' = Tree
    BY <1>2, <2>1, QuietTree
  <2> QED
    BY <2>1, <2>2, <2>3, AsStutter
<1>11. CASE CreateFileSyncSuperblock
  <2>1. pc = "file_superblock" /\ pc' = "return" /\ result' = "ok" /\ task' = task
    BY <1>0, <1>11 DEF CreateFileSyncSuperblock, Leave, Goto
  <2>2. Status = "changed" /\ Status' = "ok"
    BY <2>1, StatusIs, StatusIsNext DEF StatusTable, Running
  <2>3. Tree' = Tree
    BY <1>2, <2>1, QuietTree
  <2> QED
    BY <1>0, <2>1, <2>2, <2>3, AsSucceed
<1> QED
  BY <1>5, <1>6, <1>7, <1>8, <1>9, <1>10, <1>11 DEF CreateFile

LEMMA DeleteFileRefines ==
    ASSUME PlainCalls, CallsSeen, RefInv, TypeOK', [Next]_vars, DeleteFile, Running,
           task.op # "install"
    PROVE  AbstractStep
<1>0. /\ pc \in {"delete_file", "delete_inodes", "delete_bitmap"}
      /\ task.op \in {"create_file", "delete_file"} /\ task.path \in NamedPath
      /\ TypeOK /\ Walked /\ Sight
  <2>1. pc \in {"delete_file", "delete_inodes", "delete_bitmap"}
    BY DEF DeleteFile, DeleteFileEnter, DeleteSyncInodes, DeleteSyncBitmap
  <2>2. TypeOK /\ CallInv /\ CalledInv /\ DirInv /\ NamesOnce
    BY DEF RefInv, LinkInv, BlockInv, TypeInv, PathInv, NamesInv
  <2>3. task.op \in {"create_file", "delete_file"}
    BY <2>1, <2>2 DEF CalledInv
  <2> QED
    BY <2>1, <2>2, <2>3, PathsInHand, PathsWalked, SightOf
<1>1. CASE Deleting
  BY <1>1, DeleteRefines
<1> SUFFICES ASSUME ~ Deleting PROVE AbstractStep
  BY <1>1
<1>2. ~ Linking
  BY <1>0 DEF Linking, CreateDirLink, CreateFileLink
<1>3. CASE DeleteFileEnter
  <2>1. /\ pc = "delete_file" /\ DeleteReturns("error")
        /\ \/ find_inode_by_path(Parent(task.path)) = NoInode
           \/ ~ fs_file_exists(task.path)
    BY <1>3 DEF DeleteFileEnter, Deleting, Goto
  <2>2. CASE task.op = "create_file"
    <3>1. pc' = "file_alloc" /\ task' = task
      BY <2>1, <2>2 DEF DeleteReturns, Goto
    <3> QED
      BY <1>2, <2>1, <3>1, GoesOn DEF Busy
  <2>3. CASE task.op = "delete_file"
    <3>1. ~ fs_file_exists(task.path)
      <4> SUFFICES ASSUME fs_file_exists(task.path) PROVE FALSE
        OBVIOUS
      <4>1. PICK i \in Inode : path_walk[task.path] = i /\ inode_table[i].type = "FILE"
        BY <1>0 DEF Sight
      <4>2. task.path # << >>
        <5>1. i # Root
          BY <4>1, RootType, <1>0 DEF RefInv
        <5> QED
          BY <1>0, <4>1, <5>1 DEF Walked
      <4>3. path_walk[Parent(task.path)] = NoInode /\ NoInode \in Found
        BY <1>0, <2>1, <4>2, NamedPathParts DEF Sight, Found
      <4>4. Edge(NoInode, FileName(task.path), i)
        BY <1>0, <4>1, <4>2, <4>3 DEF Walked
      <4> QED
        BY <4>4, ConstantTypes DEF Edge, Directories
    <3>2. Leave("error")
      BY <2>1, <2>3 DEF DeleteReturns
    <3> QED
      BY <1>2, <2>1, <2>3, <3>1, <3>2, Fails DEF Busy
  <2> QED
    BY <1>0, <2>2, <2>3
<1>4. CASE DeleteSyncInodes
  <2>1. pc = "delete_inodes" /\ pc' = "delete_bitmap" /\ task' = task
    BY <1>4 DEF DeleteSyncInodes, Goto
  <2>2. Status' = Status
    BY <2>1, StatusIs, StatusIsNext DEF StatusTable, Running
  <2>3. Tree' = Tree
    BY <1>2, <2>1, QuietTree
  <2> QED
    BY <2>1, <2>2, <2>3, AsStutter
<1>5. CASE DeleteSyncBitmap
  <2>1. pc = "delete_bitmap" /\ DeleteReturns("ok")
    BY <1>5 DEF DeleteSyncBitmap
  <2>2. Tree' = Tree
    BY <1>2, <2>1, QuietTree
  <2>3. CASE task.op = "create_file"
    <3>1. pc' = "file_alloc" /\ task' = task
      BY <2>1, <2>3 DEF DeleteReturns, Goto
    <3>2. Status = "busy" /\ Status' = "busy"
      BY <2>1, <2>3, <3>1, StatusIs, StatusIsNext DEF StatusTable, Running
    <3> QED
      BY <2>2, <3>1, <3>2, AsStutter
  <2>4. CASE task.op = "delete_file"
    <3>1. pc' = "return" /\ result' = "ok" /\ task' = task
      BY <2>1, <2>4 DEF DeleteReturns, Leave, Goto
    <3>2. Status = "changed" /\ Status' = "ok"
      BY <2>1, <2>4, <3>1, StatusIs, StatusIsNext DEF StatusTable, Running
    <3> QED
      BY <2>2, <2>4, <3>1, <3>2, AsSucceed
  <2> QED
    BY <1>0, <2>3, <2>4
<1> QED
  BY <1>3, <1>4, <1>5 DEF DeleteFile

\* What fs_install leaves is the tree of a new system.
LEMMA InstalledTree ==
    ASSUME PlainCalls, PlainInstall, TypeOK, NamesInv,
           NEW n, n = Len(InstallDirs), Laid(n, n)
    PROVE  Tree = FT!NewTree
<1>1. /\ n \in Nat \ {0} /\ n \in 0 .. n /\ n <= n /\ DOMAIN InstallDirs = 1 .. n
      /\ \A k \in 1 .. n : /\ InstallDirs[k] \in NamedPath \ {<< >>}
                           /\ InstallDirs[k] \in Paths
                           /\ Fronts(InstallDirs[k]) \subseteq Made(k)
  BY ListParts
<1>2. Walked /\ Sight /\ WalksOf(n) /\ inode_table = TableOf(n)
  BY PathsWalked, SightOf DEF NamesInv, Laid
<1>3. Made(n) \subseteq Paths /\ Made(n) \subseteq NamedPath
  BY <1>1, PathsAssumption, NamedPathParts DEF Made
<1>4. ASSUME NEW p \in Made(n)
      PROVE  fs_dir_exists(p) /\ Visible(p)
  <2>1. path_walk[p] \in Inode /\ inode_table[path_walk[p]].type = "DIR"
    BY <1>1, <1>2, MadeWalks
  <2> QED
    BY <1>2, <1>3, <2>1 DEF Sight, Visible
<1>5. ASSUME NEW p \in Paths \ Made(n)
      PROVE  ~ Visible(p)
  <2>1. p \in NamedPath /\ path_walk[p] = NoInode
    BY <1>2 DEF PlainCalls, WalksOf, Absent
  <2> QED
    BY <1>2, <2>1, ConstantTypes DEF Sight, Live
<1>6. Tree = [p \in Made(n) |-> [type |-> "DIR", content |-> << >>]]
  <2>1. {p \in Paths : Visible(p)} = Made(n)
    BY <1>3, <1>4, <1>5
  <2>2. Tree = [p \in {q \in Paths : Visible(q)} |-> NodeAt(p)]
    BY DEF Tree, Visible
  <2>3. \A p \in Made(n) : NodeAt(p) = [type |-> "DIR", content |-> << >>]
    BY <1>4 DEF NodeAt
  <2> QED
    BY <2>1, <2>2, <2>3
<1>7. Made(n) = {<< >>} \cup UNION {FT!Prefixes(InstallDirs[k]) : k \in DOMAIN InstallDirs}
  <2>1. ASSUME NEW k \in 1 .. n, NEW j \in 1 .. Len(InstallDirs[k])
        PROVE  Prefix(InstallDirs[k], j) \in Made(n)
    <3>1. Prefix(InstallDirs[k], j) \in Made(k)
      BY <1>1, FrontParts
    <3> QED
      BY <1>1, <3>1 DEF Made
  <2>2. ASSUME NEW k \in 1 .. n
        PROVE  InstallDirs[k] \in FT!Prefixes(InstallDirs[k])
    <3>1. /\ Len(InstallDirs[k]) \in 1 .. Len(InstallDirs[k])
          /\ Prefix(InstallDirs[k], Len(InstallDirs[k])) = InstallDirs[k]
      <4>1. Len(InstallDirs[k]) \in 1 .. Len(InstallDirs[k])
        BY <1>1, NamedPathParts
      <4> QED
        BY <1>1, <4>1, FrontParts
    <3> QED
      BY <3>1 DEF FT!Prefixes, Prefix
  <2>3. \A k \in 1 .. n : FT!Prefixes(InstallDirs[k]) \subseteq Made(n)
    BY <2>1 DEF FT!Prefixes, Prefix
  <2>4. << >> \in Made(n)
    BY DEF Made
  <2> DEFINE W == {<< >>} \cup UNION {FT!Prefixes(InstallDirs[k]) : k \in DOMAIN InstallDirs}
  <2>5. W \subseteq Made(n)
    BY <1>1, <2>3, <2>4
  <2>6. \A k \in 1 .. n : InstallDirs[k] \in W
    BY <1>1, <2>2
  <2>7. Made(n) \subseteq W
    BY <2>6 DEF Made
  <2> QED
    BY <2>5, <2>7
<1> QED
  BY <1>6, <1>7 DEF FT!NewTree, FT!DirNode

LEMMA OnlyFinishing ==
    ASSUME Next, pc \notin {"off", "idle"}, pc' = "off" \/ boots' # boots
    PROVE  InstallFinish
BY DEF Next, Kernel, User, Boot, Install, CreateDir, CreateFile, DeleteFile,
   BootInstalled, InstallRoot, InstallSyncSuperblock, InstallSyncInodes,
   InstallSyncBitmap, InstallNextDir, PowerOn, SwitchOff, Call, Return,
   CreateDirEnter, CreateDirAlloc, CreateDirLink, CreateDirSyncInodes,
   CreateDirSyncBitmap, CreateFileEnter, CreateFileParent, CreateFileAlloc,
   CreateFileData, CreateFileLink, CreateFileSyncInodes, CreateFileSyncBitmap,
   CreateFileSyncSuperblock, DeleteFileEnter, DeleteSyncInodes, DeleteSyncBitmap,
   Goto, Leave, CreateDirReturnsOk, DeleteReturns, LinkEntry, GiveBack

LEMMA NewStatus == RefInv /\ Installing => Status = "new"
<1> SUFFICES ASSUME RefInv, Installing PROVE Status = "new"
  OBVIOUS
<1>1. CallInv /\ CalledInv /\ PhaseInv
  BY DEF RefInv, LinkInv, BlockInv, TypeInv, PathInv
<1>2. boots = 1 /\ pc # "off" /\ (pc = "boot" \/ task.op = "install")
      /\ pc \notin {"idle", "return"}
  BY <1>1 DEF PhaseInv, Installing
<1>3. pc \notin {"file_inodes", "file_bitmap", "file_superblock",
                 "delete_inodes", "delete_bitmap"}
  BY <1>1, <1>2 DEF CallInv, CalledInv, FileLabel
<1> QED
  BY <1>2, <1>3 DEF Status

LEMMA NewStatusNext == RefInv' /\ Installing' => (Status = "new")'
  BY NewStatus, PTL

LEMMA InstallRefines ==
    ASSUME PlainCalls, PlainInstall, RefInv, RefInv', [Next]_vars, Installing
    PROVE  AbstractStep
<1>1. CASE Installing'
  <2>1. Status = "new" /\ Status' = "new"
    BY <1>1, NewStatus, NewStatusNext
  <2> QED
    BY <1>1, <2>1 DEF AbstractStep, FT!vars
<1>2. CASE ~ (Installing')
  <2>1. pc \notin {"off", "idle"} /\ boots = 1
    BY DEF Installing, RefInv, PhaseInv
  <2>2. Next /\ (pc' = "off" \/ boots' # boots)
    BY <1>2, <2>1 DEF Installing, vars, control
  <2>3. InstallFinish
    BY <2>1, <2>2, OnlyFinishing
  <2>4. pc = "install_dirs" /\ frame.i >= Len(InstallDirs) /\ pc' = "off" /\ task' = NoTask
    BY <2>3 DEF InstallFinish, Goto
  <2>5. PICK n : n = Len(InstallDirs)
    OBVIOUS
  <2>6. n \in Nat /\ frame.i \in Nat /\ TypeOK /\ NamesInv
    BY <2>5, ListParts
       DEF RefInv, LinkInv, BlockInv, TypeInv, TypeOK, ControlTypeOK, Frame, PathInv
  <2>7. frame.i <= n /\ Laid(frame.i, frame.i)
    BY <2>4, <2>5 DEF RefInv, LayInv
  <2>8. frame.i = n
    BY <2>4, <2>5, <2>6, <2>7
  <2>9. Tree = FT!NewTree
    BY <2>5, <2>6, <2>7, <2>8, InstalledTree
  <2>10. Tree' = Tree
    <3>1. ~ Linking /\ ~ Deleting
      BY <2>4 DEF Linking, Deleting
    <3> QED
      BY <2>4, <3>1, QuietTree
  <2>11. Status = "new" /\ Status' = "off"
    <3>1. Status' = "off"
      BY <1>2, <2>4, StatusIsNext DEF StatusTable
    <3> QED
      BY <3>1, NewStatus
  <2>12. FT!Install
    BY <1>2, <2>4, <2>9, <2>10, <2>11 DEF FT!Install
  <2> QED
    BY <2>12 DEF AbstractStep, FT!Next
<1> QED
  BY <1>1, <1>2

\* The tree is read from the disk and the table in RAM.
LEMMA QuietSight ==
    ASSUME PlainCalls, RefInv, TypeOK', [Next]_vars, ~ Linking, ~ Deleting,
           inode_table' = inode_table, d_data' = d_data
    PROVE  Tree' = Tree
<1>1. TypeOK /\ LinkInv /\ PathInv
  BY DEF RefInv, LinkInv, BlockInv, TypeInv
<1>2. \A p \in NamedPath : path_walk'[p] = path_walk[p]
  BY <1>1, StepSight
<1>3. \A i \in Inode : Spared(i)
  BY SameStored
<1>4. \A p \in NamedPath : SameAt(p)
  BY <1>1, <1>2, <1>3, NodeKept
<1> QED
  BY <1>4, SameTreeSeen

\* The machine goes on and off, and the shell calls and gets its answer.
LEMMA ShellRefines ==
    ASSUME PlainCalls, RefInv, TypeOK', PhaseInv', Next, ~ Installing,
           pc \in {"boot", "off", "idle", "return"}
    PROVE  AbstractStep
<1>0. /\ TypeOK /\ SavedInv /\ boots \in Nat /\ PhaseInv /\ CallInv
      /\ StatusTable /\ result \in {"ok", "error"}
  BY StatusIs DEF RefInv, LinkInv, BlockInv, TypeInv, TypeOK, ControlTypeOK
<1>1. ~ Linking /\ ~ Deleting
  BY DEF Linking, Deleting, CreateDirLink, CreateFileLink, DeleteFileEnter
<1>2. boots >= 1 /\ (boots > 1 \/ pc = "off")
  BY <1>0 DEF PhaseInv, Installing
<1>3. CASE PowerOn
  <2>1. /\ pc = "off" /\ pc' = "boot" /\ boots' = boots + 1 /\ task' = task
        /\ inode_table' = inode_table /\ d_data' = d_data
    BY <1>3 DEF PowerOn, Goto, ram, disk
  <2>2. Running
    BY <1>0, <1>2, <2>1 DEF Running, Installing
  <2>3. Status = "off" /\ Status' = "off"
    BY <1>0, <1>2, <2>1, <2>2, StatusIsNext DEF StatusTable, Running
  <2> QED
    BY <1>1, <2>1, <2>2, <2>3, QuietSight, AsStutter
<1>4. CASE BootInstalled
  <2>1. /\ pc = "boot" /\ pc' = "idle" /\ boots' = boots /\ task' = task
        /\ inode_table' = inode_table /\ d_data' = d_data
    BY <1>0, <1>4 DEF BootInstalled, Goto, disk, SavedInv, Settled
  <2>2. Running
    BY <1>0, <1>2, <2>1 DEF Running, Installing
  <2>3. Status = "off" /\ Status' = "ready"
    BY <1>0, <1>2, <2>1, <2>2, StatusIsNext DEF StatusTable, Running
  <2>4. Tree' = Tree
    BY <1>1, <2>1, QuietSight
  <2>5. FT!SwitchOn
    BY <2>1, <2>2, <2>3, <2>4 DEF FT!SwitchOn, Running
  <2> QED
    BY <2>5 DEF AbstractStep, FT!Next
<1>5. CASE SwitchOff
  <2>1. /\ pc = "idle" /\ pc' = "off" /\ boots' = boots /\ task' = task
        /\ inode_table' = inode_table /\ d_data' = d_data
    BY <1>5 DEF SwitchOff, Goto, disk, ram
  <2>2. Running
    BY <1>0, <1>2, <2>1 DEF Running, Installing
  <2>3. Status = "ready" /\ Status' = "off"
    BY <1>0, <1>2, <2>1, <2>2, StatusIsNext DEF StatusTable, Running
  <2>4. Tree' = Tree
    BY <1>1, <2>1, QuietSight
  <2>5. FT!SwitchOff
    BY <2>1, <2>2, <2>3, <2>4 DEF FT!SwitchOff, Running
  <2> QED
    BY <2>5 DEF AbstractStep, FT!Next
<1>6. ASSUME NEW request \in Requests, Call(request)
      PROVE  AbstractStep
  <2>1. /\ pc = "idle" /\ pc' = request.op /\ boots' = boots /\ task' = request
        /\ inode_table' = inode_table /\ d_data' = d_data
    BY <1>6 DEF Call, Goto, disk, ram
  <2>2. Running
    BY <1>0, <1>2, <2>1 DEF Running, Installing
  <2>3. request.op \in {"create_dir", "create_file", "delete_file"}
    BY CallsAssumption DEF Request
  <2>4. Status = "ready" /\ Status' = "busy"
    BY <1>0, <2>1, <2>2, <2>3, StatusIsNext DEF StatusTable, Running
  <2>5. Tree' = Tree
    BY <1>1, <2>1, QuietSight
  <2>6. FT!Begin
    BY <2>1, <2>2, <2>4, <2>5 DEF FT!Begin, Running
  <2> QED
    BY <2>6 DEF AbstractStep, FT!Next
<1>7. CASE Return
  <2>1. /\ pc = "return" /\ pc' = "idle" /\ boots' = boots /\ task' = NoTask
        /\ inode_table' = inode_table /\ d_data' = d_data
    BY <1>7 DEF Return, Goto, disk, ram
  <2>2. Running
    BY <1>0, <1>2, <2>1 DEF Running, Installing
  <2>3. Status \in {"ok", "error"} /\ Status' = "ready"
    BY <1>0, <2>1, <2>2, StatusIsNext DEF StatusTable, Running
  <2>4. Tree' = Tree
    BY <1>1, <2>1, QuietSight
  <2>5. FT!Answer
    BY <2>1, <2>2, <2>3, <2>4 DEF FT!Answer, Running, FT!NoCall, NoTask
  <2> QED
    BY <2>5 DEF AbstractStep, FT!Next
<1>8. PowerOn \/ BootInstalled \/ SwitchOff \/ Return \/ \E request \in Requests : Call(request)
  <2>1. CASE pc \in {"boot", "off"}
    <3>1. ~ InstallRoot
      BY <1>0, <1>2 DEF InstallRoot, PhaseInv
    <3> QED
      BY <2>1, <3>1, BootSteps
  <2>2. CASE pc \in {"idle", "return"}
    BY <2>2 DEF Next, Kernel, User, Boot, Install, CreateDir, CreateFile, DeleteFile,
       BootInstalled, InstallRoot, InstallSyncSuperblock, InstallSyncInodes,
       InstallSyncBitmap, InstallNextDir, InstallFinish, PowerOn,
       CreateDirEnter, CreateDirAlloc, CreateDirLink, CreateDirSyncInodes,
       CreateDirSyncBitmap, CreateFileEnter, CreateFileParent, CreateFileAlloc,
       CreateFileData, CreateFileLink, CreateFileSyncInodes, CreateFileSyncBitmap,
       CreateFileSyncSuperblock, DeleteFileEnter, DeleteSyncInodes, DeleteSyncBitmap
  <2> QED
    BY <2>1, <2>2
<1> QED
  BY <1>3, <1>4, <1>5, <1>6, <1>7, <1>8

LEMMA StepRefines ==
    ASSUME PlainCalls, ShortFiles, PlainInstall, RoomForCalls, CallsSeen,
           RefInv, RefInv', [Next]_vars
    PROVE  AbstractStep
<1>0. TypeOK' /\ PhaseInv' /\ PhaseInv /\ CalledInv /\ boots \in Nat
  BY DEF RefInv, LinkInv, BlockInv, TypeInv, TypeOK, ControlTypeOK, PathInv
<1>1. CASE Installing
  BY <1>1, InstallRefines
<1> SUFFICES ASSUME ~ Installing PROVE AbstractStep
  BY <1>1
<1>2. CASE UNCHANGED vars
  <2>1. /\ inode_table' = inode_table /\ d_data' = d_data /\ pc' = pc /\ task' = task
        /\ boots' = boots /\ result' = result
    BY <1>2 DEF vars, ram, disk, control
  <2>2. ~ Linking /\ ~ Deleting
    BY <2>1 DEF Linking, Deleting, CreateDirLink, CreateFileLink, DeleteFileEnter
  <2>3. Tree' = Tree
    BY <1>0, <2>1, <2>2, QuietSight
  <2>4. Running /\ Status' = Status
    BY <2>1 DEF Running, Installing, Status
  <2> QED
    BY <2>1, <2>3, <2>4, AsStutter
<1>3. CASE Next /\ pc \in {"boot", "off", "idle", "return"}
  BY <1>0, <1>3, ShellRefines
<1>4. CASE Next /\ pc \notin {"boot", "off", "idle", "return"}
  <2>1. boots > 1 /\ task.op # "install"
    BY <1>0, <1>4 DEF PhaseInv, Installing
  <2>2. ~ InstallFinish
    BY <1>0, <2>1 DEF InstallFinish, CalledInv
  <2>3. pc' # "off" /\ boots' = boots
    BY <1>4, <2>2, OnlyFinishing
  <2>4. Running
    BY <2>1, <2>3 DEF Running, Installing
  <2>5. ~ Install
    BY <1>0, <2>1 DEF Install, InstallSyncSuperblock, InstallSyncInodes,
       InstallSyncBitmap, InstallNextDir, InstallFinish, CalledInv
  <2>6. CreateDir \/ CreateFile \/ DeleteFile
    BY <1>4, <2>5 DEF Next, Kernel, User, Boot, BootInstalled, InstallRoot, PowerOn,
       SwitchOff, Call, Return
  <2> QED
    BY <1>0, <2>1, <2>4, <2>6, CreateDirRefines, CreateFileRefines, DeleteFileRefines
<1> QED
  BY <1>2, <1>3, <1>4

(***************************************************************************)
(* All of fs_install, fs_create_dir, fs_create_file and fs_delete_file,    *)
(* step by step: what find_inode_by_path and fs_read_file show at the      *)
(* paths of the calls changes as FileTree says, in the order of the code's *)
(* writes, an answer of 0 is true, and a reboot changes nothing.  For      *)
(* calls that keep files and directories apart and find room (the          *)
(* hypotheses, each of which FileSystemTree says in words).                *)
(***************************************************************************)
THEOREM TreeImplemented ==
    ASSUME PlainCalls, ShortFiles, PlainInstall, RoomForCalls, CallsSeen
    PROVE  Spec => ImplementsFileTree
<1>1. Init => RefInv
  BY LinkInit, PathInit, StoreInit, LayInit, RoomInit
     DEF RefInv, PhaseInv, LinkedInv, Init, ZeroSuperblock, NoTask
<1>2. ZeroGoesFirst
  <2>1. Len(InstallDirs) \in Nat \ {0} /\ Len(InstallDirs) < FS_MAX_INODES
    BY ListParts
  <2> QED
    BY <2>1, SizesAssumption DEF ZeroGoesFirst, PlainInstall
<1>3. RefInv /\ [Next]_vars => RefInv'
  <2> SUFFICES ASSUME RefInv, [Next]_vars PROVE RefInv'
    OBVIOUS
  <2>0. /\ LinkInv /\ PathInv /\ StoreInv /\ LayInv /\ RoomInv /\ PhaseInv /\ LinkedInv
        /\ ZeroInv /\ CalledInv
    BY DEF RefInv, StoreInv, PathInv
  <2>1. LinkInv'
    BY <2>0, LinkNext DEF Step
  <2>2. TypeOK'
    BY <2>1 DEF LinkInv, BlockInv, TypeInv
  <2>3. PathInv' /\ StoreInv' /\ LayInv' /\ RoomInv'
    BY <1>2, <2>0, <2>1, PathNext, StoreNext, LayNext, RoomNext
  <2>4. PhaseInv' /\ LinkedInv'
    BY <2>0, <2>2, PhaseNext, LinkedNext
  <2> QED
    BY <2>1, <2>3, <2>4 DEF RefInv
<1>4. Init => FT!Init
  BY DEF Init, FT!Init, Installing, Status, NoTask, FT!NoCall
<1>5. RefInv /\ RefInv' /\ [Next]_vars => [FT!Next]_(FT!vars)
  BY StepRefines DEF AbstractStep
<1> QED
  BY <1>1, <1>3, <1>4, <1>5, PTL DEF Spec, ImplementsFileTree, FT!Spec

=============================================================================
