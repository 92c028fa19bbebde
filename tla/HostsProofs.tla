------------------------------ MODULE HostsProofs ------------------------------
(***************************************************************************)
(* Proofs about module HostsFile, for any processes, names, addresses,     *)
(* user's lines and number of inodes.                                      *)
(***************************************************************************)
EXTENDS HostsFile, Lemmas, FiniteSetTheorems

-----------------------------------------------------------------------------
(***************************************************************************)
(* replace_or_append.                                                      *)
(***************************************************************************)

\* find() finds the first line with the marker, if any.
LEMMA FindProperties ==
  ASSUME NEW f, Len(f) \in Nat, NEW kind, NEW n
  PROVE  /\ Find(f, kind, n) \in 0..Len(f)
         /\ Find(f, kind, n) # 0 => Marks(f[Find(f, kind, n)], kind, n)
         /\ Find(f, kind, n) = 0 => \A i \in 1..Len(f) : ~Marks(f[i], kind, n)
<1> DEFINE I == {i \in 1..Len(f) : Marks(f[i], kind, n)}
<1>1. Find(f, kind, n) = IF I # {} THEN Min(I) ELSE 0
  BY DEF Find, SelectInSeq
<1>2. CASE I # {}
  <2>1. Min(I) \in I
    <3>1. I \in SUBSET Nat
      OBVIOUS
    <3> HIDE DEF I
    <3> QED BY <1>2, <3>1, Least
  <2> QED BY <1>1, <1>2, <2>1
<1>3. CASE I = {}
  BY <1>1, <1>3
<1> QED BY <1>2, <1>3

\* A block is three lines.
LEMMA BlockType ==
  ASSUME NEW n \in Names, NEW ip \in IPs PROVE Block(n, ip) \in Seq(Line) /\ Len(Block(n, ip)) = 3
BY DEF Block, Line, BlockLine

\* The new version of a file is a file.
LEMMA ReplaceType ==
  ASSUME NEW f \in Seq(Line), NEW n \in Names, NEW ip \in IPs
  PROVE  ReplaceOrAppend(f, n, ip) \in Seq(Line)
<1> DEFINE start == Find(f, "begin", n)
           stop == Find(f, "end", n)
           rest == IF f[stop].name = n THEN <<>>
                   ELSE << [kind |-> "rest", name |-> f[stop].name] >>
<1>0. Len(f) \in Nat
  OBVIOUS
<1>1. Block(n, ip) \in Seq(Line)
  BY BlockType
<1>2. CASE start # 0 /\ stop # 0
  <2>1. start \in 1..Len(f) /\ stop \in 1..Len(f) /\ Marks(f[stop], "end", n)
    BY <1>0, <1>2, FindProperties
  <2>2. f[stop].name \in Names
    <3>1. f[stop] \in Line
      BY <2>1, ElementOfSeq
    <3> QED BY <2>1, <3>1 DEF Marks, IsUser, Line, BlockLine
  <2>3. rest \in Seq(Line)
    <3>1. [kind |-> "rest", name |-> f[stop].name] \in Line
      BY <2>2 DEF Line, BlockLine
    <3> QED BY <3>1
  <2> HIDE DEF start, stop, rest
  <2>4. SubSeq(f, 1, start - 1) \in Seq(Line) /\ SubSeq(f, stop + 1, Len(f)) \in Seq(Line)
    BY <1>0, <2>1, Slice
  <2>5. SubSeq(f, 1, start - 1) \o Block(n, ip) \o rest \o SubSeq(f, stop + 1, Len(f)) \in Seq(Line)
    BY <1>1, <2>3, <2>4, ConcatProperties
  <2> QED BY <1>2, <2>5 DEF ReplaceOrAppend, start, stop, rest
<1>3. CASE ~(start # 0 /\ stop # 0)
  BY <1>1, <1>3, ConcatProperties DEF ReplaceOrAppend
<1> QED BY <1>2, <1>3

-----------------------------------------------------------------------------
(***************************************************************************)
(* Types.                                                                  *)
(***************************************************************************)

\* The file is a sequence of lines.
LEMMA ContentType == ASSUME TypeOK PROVE Content \in Seq(Line)
BY DEF TypeOK, Content, Paths

\* So is the new version an update has, if any.
LEMMA LinesType == ASSUME TypeOK, NEW u \in Updaters PROVE job[u].lines \in Seq(Line)
<1>1. job[u] \in [name : Names, lines : Seq(Line)] \/ job[u] = NoJob
  BY DEF TypeOK
<1>2. NoJob.lines = <<>> /\ <<>> \in Seq(Line)
  BY EmptySeq DEF NoJob
<1> QED BY <1>1, <1>2

\* Writing over a file leaves a file.
LEMMA PutType ==
  ASSUME TypeOK, NEW u \in Updaters, pc[u] = "write", NEW n \in Nat,
         n <= Len(job[u].lines), Put(u, n)
  PROVE  /\ disk' \in [Inodes -> Seq(Line)] /\ fd[u] \in Inodes
         /\ disk' = [disk EXCEPT ![fd[u]] = SubSeq(job[u].lines, 1, n)
                                             \o SubSeq(@, n + 1, Len(@))]
<1> DEFINE f == disk[fd[u]]
           g == job[u].lines
<1>1. fd[u] \in Inodes
  BY DEF TypeOK
<1>2. f \in Seq(Line) /\ g \in Seq(Line)
  BY <1>1, LinesType DEF TypeOK
<1> HIDE DEF f, g
<1>3. SubSeq(g, 1, n) \in Seq(Line) /\ SubSeq(f, n + 1, Len(f)) \in Seq(Line)
  <2>1. n <= Len(g)
    BY DEF g
  <2> QED BY <1>2, <2>1, Slice
<1>4. SubSeq(g, 1, n) \o SubSeq(f, n + 1, Len(f)) \in Seq(Line)
  BY <1>3, ConcatProperties
<1>5. disk' = [disk EXCEPT ![fd[u]] = SubSeq(g, 1, n) \o SubSeq(f, n + 1, Len(f))]
  BY DEF Put, f, g
<1>6. disk' \in [Inodes -> Seq(Line)]
  BY <1>1, <1>4, <1>5 DEF TypeOK
<1> QED BY <1>1, <1>6 DEF Put

\* What an update has is a name of its server's and a file, or nothing.
LEMMA JobType ==
  ASSUME TypeOK, NEW u \in Updaters
  PROVE  /\ job[u].lines \in Seq(Line)
         /\ pc[u] = "idle" => job[u] = NoJob
         /\ pc[u] # "idle" => /\ job[u].name \in Serves[u] /\ job[u].name \in Names
                              /\ Tmp(u) = job[u].name /\ Tmp(u) \in Paths /\ Tmp(u) # Hosts
                              /\ job[u] # NoJob
<1>1. job[u].lines \in Seq(Line)
  BY LinesType
<1>2. ASSUME pc[u] # "idle"
      PROVE  job[u].name \in Serves[u] /\ job[u].name \in Names
  BY <1>2, HostsFileAssumption DEF TypeOK
<1> QED BY <1>1, <1>2, HostsFileAssumption DEF TypeOK, Tmp, Paths

\* The types are kept by every step.
LEMMA TypesStep == TypeOK /\ [Next]_vars => TypeOK'
<1> SUFFICES ASSUME TypeOK, [Next]_vars PROVE TypeOK'
  OBVIOUS
<1>1. ASSUME NEW u \in Updaters, NEW n \in Names, NEW ip \in IPs, Read(u, n, ip)
      PROVE  TypeOK'
  <2>1. ReplaceOrAppend(Content, n, ip) \in Seq(Line)
    BY ContentType, ReplaceType
  <2> DEFINE new == [name |-> n, lines |-> ReplaceOrAppend(Content, n, ip)]
  <2>2. new \in [name : Names, lines : Seq(Line)] /\ new.name \in Serves[u]
    BY <1>1, <2>1 DEF Read
  <2>3. /\ pc[u] = "idle" /\ pc' = [pc EXCEPT ![u] = "open"] /\ job' = [job EXCEPT ![u] = new]
        /\ UNCHANGED <<disk, dir, fd>>
    BY <1>1 DEF Read
  <2> HIDE DEF new
  <2> QED BY <2>2, <2>3 DEF TypeOK
<1>2. ASSUME NEW u \in Updaters, OpenTmp(u) PROVE TypeOK'
  <2>1. PICK i \in Inodes : /\ disk' = [disk EXCEPT ![i] = Truncated(@)]
                            /\ dir' = [dir EXCEPT ![Tmp(u)] = i]
                            /\ fd' = [fd EXCEPT ![u] = i]
    BY <1>2 DEF OpenTmp
  <2>2. disk' \in [Inodes -> Seq(Line)]
    BY <2>1, EmptySeq DEF TypeOK, Truncated
  <2>3. i # NoFile
    BY <2>1, HostsFileAssumption DEF Inodes, NoFile
  <2> QED BY <1>2, <2>1, <2>2, <2>3 DEF TypeOK, OpenTmp
<1>3. ASSUME NEW u \in Updaters, WriteTmp(u) PROVE TypeOK'
  <2>1. disk' \in [Inodes -> Seq(Line)]
    <3>1. pc[u] = "write" /\ Put(u, Len(job[u].lines)) /\ job[u].lines \in Seq(Line)
      BY <1>3, JobType DEF WriteTmp
    <3>2. Len(job[u].lines) \in Nat /\ Len(job[u].lines) <= Len(job[u].lines)
      BY <3>1, LenProperties
    <3> QED BY <3>1, <3>2, PutType
  <2> QED BY <1>3, <2>1 DEF TypeOK, WriteTmp
<1>4. ASSUME NEW u \in Updaters, Rename(u) PROVE TypeOK'
  <2>1. disk' \in [Inodes -> Seq(Line)]
    BY <1>4, EmptySeq DEF TypeOK, Rename
  <2>2. dir' \in [Paths -> Inodes \cup {NoFile}]
    <3>1. Tmp(u) \in Paths
      BY <1>4, JobType DEF Rename
    <3> QED BY <1>4, <3>1 DEF TypeOK, Rename
  <2> QED BY <1>4, <2>1, <2>2 DEF TypeOK, Rename, Return
<1>5. ASSUME NEW u \in Updaters, Abandon(u) PROVE TypeOK'
  <2>1. disk' \in [Inodes -> Seq(Line)]
    <3>1. CASE UNCHANGED disk
      BY <3>1 DEF TypeOK
    <3>2. CASE pc[u] = "write" /\ Put(u, Len(job[u].lines) \div 2)
      <4>1. job[u].lines \in Seq(Line)
        BY JobType
      <4> DEFINE k == Len(job[u].lines)
      <4>2. k \in Nat
        BY <4>1, LenProperties
      <4> HIDE DEF k
      <4>3. k \div 2 \in Nat /\ k \div 2 <= k
        BY <4>2
      <4>4. pc[u] = "write" /\ Put(u, k \div 2)
        BY <3>2 DEF k
      <4> QED BY <4>3, <4>4, PutType DEF k
    <3> QED BY <1>5, <3>1, <3>2 DEF Abandon
  <2> QED BY <1>5, <2>1 DEF TypeOK, Abandon, Return
<1>6. ASSUME NEW i \in 1..Len(Content), UserDeletes(i) PROVE TypeOK'
  <2> DEFINE f == disk[dir[Hosts]]
  <2>1. Content = f /\ dir[Hosts] \in Inodes /\ f \in Seq(Line)
    <3>1. dir[Hosts] # NoFile
      BY <1>6 DEF Content
    <3> QED BY <3>1 DEF TypeOK, Content, Paths
  <2>2. disk' = [disk EXCEPT ![dir[Hosts]] = RemoveAt(f, i)]
    BY <1>6 DEF UserDeletes
  <2>3. i \in 1..Len(f)
    BY <1>6, <2>1
  <2> HIDE DEF f
  <2>4. RemoveAt(f, i) \in Seq(Line)
    <3>1. SubSeq(f, 1, i - 1) \in Seq(Line) /\ SubSeq(f, i + 1, Len(f)) \in Seq(Line)
      BY <2>1, <2>3, Slice
    <3> QED BY <3>1, ConcatProperties DEF RemoveAt
  <2> QED BY <1>6, <2>1, <2>2, <2>4 DEF TypeOK, UserDeletes
<1>7. CASE UNCHANGED vars
  BY <1>7 DEF vars, TypeOK
<1> QED BY <1>1, <1>2, <1>3, <1>4, <1>5, <1>6, <1>7 DEF Next, Update

\* And by the initial state, whose file is the user's.
LEMMA TypesInit ==
  ASSUME Init
  PROVE  TypeOK /\ Content \in Seq(UserLines)
<1>1. PICK i \in {NoFile, 1}, f \in SetToAllKPermutations(UserLines) :
        /\ i = NoFile => f = <<>>
        /\ disk = [j \in Inodes |-> IF j = i THEN f ELSE <<>>]
        /\ dir = [p \in Paths |-> IF p = Hosts THEN i ELSE NoFile]
  BY DEF Init
<1>2. f \in Seq(UserLines)
  <2>1. PICK s \in SUBSET UserLines : f \in SetToSeqs(s)
    BY DEF SetToAllKPermutations
  <2>2. Cardinality(s) \in Nat
    BY HostsFileAssumption, FS_Subset, FS_CardinalityType
  <2>3. f \in [1..Cardinality(s) -> s]
    BY <2>1 DEF SetToSeqs
  <2> QED BY <2>2, <2>3, SeqDef
<1>3. f \in Seq(Line) /\ <<>> \in Seq(Line) /\ <<>> \in Seq(UserLines)
  BY <1>2, EmptySeq, SeqMonotonic DEF Line
<1>4. 1 \in Inodes /\ Hosts \in Paths /\ i \in Inodes \cup {NoFile}
  BY HostsFileAssumption DEF Inodes, Paths
<1>5. Content \in Seq(UserLines)
  BY <1>1, <1>2, <1>3, <1>4 DEF Content
<1>6. disk \in [Inodes -> Seq(Line)] /\ dir \in [Paths -> Inodes \cup {NoFile}]
  BY <1>1, <1>3, <1>4
<1> QED BY <1>5, <1>6 DEF Init, TypeOK

\* Every variable keeps its type; an update has a file open just while it
\* writes it, and has its name and its new content for as long as it runs.
THEOREM TypeCorrect == Spec => []TypeOK
BY TypesInit, TypesStep, PTL DEF Spec

-----------------------------------------------------------------------------
(***************************************************************************)
(* Atomicity, when no two updates of one name overlap.                     *)
(***************************************************************************)

\* Updates that overlap are of different names.
Apart ==
  \A u, v \in Updaters :
    (u # v /\ job[u] # NoJob /\ job[v] # NoJob) => job[u].name # job[v].name

\* No two processes update the block of one name.
Separate == \A u, v \in Updaters : u # v => Serves[u] \cap Serves[v] = {}

LEMMA SeparateApart == ASSUME TypeOK, Separate PROVE Apart
BY JobType DEF TypeOK, Separate, Apart

\* No two paths lead to one inode; what an update has open is its temporary
\* file, empty until it is written, and then the new version in full.
OneInode == \A p, q \in Paths : (dir[p] # NoFile /\ dir[p] = dir[q]) => p = q

OwnFile(u) ==
  /\ fd[u] # NoFile => fd[u] = dir[Tmp(u)]
  /\ pc[u] = "write" => disk[fd[u]] = <<>>
  /\ pc[u] = "rename" => dir[Tmp(u)] # NoFile /\ disk[dir[Tmp(u)]] = job[u].lines

Own == OneInode /\ \A u \in Updaters : OwnFile(u)

\* Two updates that run have temporary files of their own.
LEMMA OtherTmp ==
  ASSUME TypeOK, Apart, NEW u \in Updaters, NEW v \in Updaters, u # v,
         pc[u] # "idle", pc[v] # "idle"
  PROVE  Tmp(u) # Tmp(v)
BY JobType DEF Apart

\* An update that goes on as it was, with its temporary file where it was and
\* untouched, still owns it.
LEMMA OwnKept ==
  ASSUME TypeOK, NEW u \in Updaters, OwnFile(u),
         pc'[u] = pc[u], job'[u] = job[u], fd'[u] = fd[u],
         pc[u] # "idle" => dir'[Tmp(u)] = dir[Tmp(u)],
         \A i \in Inodes : (pc[u] # "idle" /\ i = dir[Tmp(u)]) => disk'[i] = disk[i]
  PROVE  OwnFile(u)'
<1>1. CASE pc[u] = "idle"
  BY <1>1 DEF OwnFile, TypeOK
<1>2. CASE pc[u] # "idle"
  <2>1. dir'[Tmp(u)] = dir[Tmp(u)] /\ Tmp(u)' = Tmp(u) /\ Tmp(u) \in Paths
    BY <1>2, JobType DEF Tmp
  <2>2. dir[Tmp(u)] # NoFile => disk'[dir[Tmp(u)]] = disk[dir[Tmp(u)]]
    BY <1>2, <2>1 DEF TypeOK
  <2>3. pc[u] = "write" => fd[u] # NoFile /\ fd[u] = dir[Tmp(u)]
    BY DEF TypeOK, OwnFile
  <2> QED BY <2>1, <2>2, <2>3 DEF OwnFile
<1> QED BY <1>1, <1>2

\* Every step keeps that, and is one of module AtomicFile's, or changes neither
\* the file nor what is to become of it.
LEMMA StepRefines ==
  ASSUME TypeOK, Apart, Own, [Next]_vars
  PROVE  Own' /\ [Promise!Next]_<<Content, job>>
<1> USE DEF Own
<1>1. ASSUME NEW u \in Updaters, NEW n \in Names, NEW ip \in IPs, Read(u, n, ip)
      PROVE  Own' /\ Promise!Next
  <2>1. /\ pc[u] = "idle" /\ job[u] = NoJob /\ fd[u] = NoFile
        /\ pc' = [pc EXCEPT ![u] = "open"] /\ UNCHANGED <<disk, dir, fd>>
        /\ job' = [job EXCEPT ![u] = [name |-> n, lines |-> ReplaceOrAppend(Content, n, ip)]]
    BY <1>1, JobType DEF Read, TypeOK
  <2>2. ASSUME NEW v \in Updaters PROVE OwnFile(v)'
    <3>1. CASE v = u
      BY <2>1, <3>1 DEF OwnFile, TypeOK
    <3>2. CASE v # u
      BY <2>1, <3>2, OwnKept DEF TypeOK
    <3> QED BY <3>1, <3>2
  <2>3. OneInode'
    BY <2>1 DEF OneInode
  <2>4. Promise!Make(u, n, ip)
    BY <2>1 DEF Promise!Make, Content
  <2> QED BY <2>2, <2>3, <2>4 DEF Promise!Next
<1>2. ASSUME NEW u \in Updaters, OpenTmp(u)
      PROVE  Own' /\ UNCHANGED <<Content, job>>
  <2>1. PICK i \in Inodes :
          /\ IF dir[Tmp(u)] # NoFile THEN i = dir[Tmp(u)] ELSE Unused(i)
          /\ disk' = [disk EXCEPT ![i] = <<>>]
          /\ dir' = [dir EXCEPT ![Tmp(u)] = i]
          /\ fd' = [fd EXCEPT ![u] = i]
    BY <1>2 DEF OpenTmp, Truncated
  <2>2. /\ pc[u] = "open" /\ pc' = [pc EXCEPT ![u] = "write"] /\ UNCHANGED job
        /\ Tmp(u) \in Paths /\ Tmp(u) # Hosts /\ Tmp(u)' = Tmp(u) /\ i # NoFile
    BY <1>2, JobType DEF OpenTmp, Tmp, Inodes, NoFile
  <2>3. \A p \in Paths : p # Tmp(u) => dir[p] # i /\ dir'[p] = dir[p]
    BY <2>1, <2>2 DEF OneInode, Unused, TypeOK
  <2>4. dir'[Tmp(u)] = i /\ disk'[i] = <<>> /\ fd'[u] = i
    BY <2>1, <2>2 DEF TypeOK
  <2>5. OneInode'
    BY <2>3, <2>4 DEF OneInode
  <2>6. ASSUME NEW v \in Updaters PROVE OwnFile(v)'
    <3>1. CASE v = u
      BY <2>2, <2>4, <3>1 DEF OwnFile, TypeOK
    <3>2. CASE v # u
      <4>1. pc[v] # "idle" => Tmp(v) # Tmp(u) /\ Tmp(v) \in Paths
        BY <2>2, <3>2, OtherTmp, JobType
      <4>2. pc[v] # "idle" => dir'[Tmp(v)] = dir[Tmp(v)] /\ dir[Tmp(v)] # i
        BY <2>3, <4>1
      <4> QED BY <2>1, <2>2, <3>2, <4>2, OwnKept DEF TypeOK
    <3> QED BY <3>1, <3>2
  <2>7. Content' = Content
    <3>1. Hosts \in Paths
      BY DEF Paths
    <3> QED BY <2>1, <2>2, <2>3, <3>1 DEF Content, TypeOK
  <2> QED BY <2>2, <2>5, <2>6, <2>7
<1>3. ASSUME NEW u \in Updaters, WriteTmp(u)
      PROVE  Own' /\ UNCHANGED <<Content, job>>
  <2> DEFINE i == dir[Tmp(u)]
             g == job[u].lines
  <2>1. /\ pc[u] = "write" /\ pc' = [pc EXCEPT ![u] = "rename"]
        /\ fd' = [fd EXCEPT ![u] = NoFile] /\ UNCHANGED <<dir, job>>
        /\ Tmp(u) \in Paths /\ Tmp(u) # Hosts /\ Tmp(u)' = Tmp(u)
    BY <1>3, JobType DEF WriteTmp, Tmp
  <2>2. fd[u] = i /\ i \in Inodes /\ i # NoFile /\ disk[i] = <<>>
    BY <2>1, HostsFileAssumption DEF OwnFile, TypeOK, Inodes, NoFile
  <2>3. disk' = [disk EXCEPT ![i] = g]
    <3>1. g \in Seq(Line) /\ Len(g) \in Nat
      BY LinesType
    <3>2. disk' = [disk EXCEPT ![i] = SubSeq(g, 1, Len(g)) \o SubSeq(<<>>, Len(g) + 1, Len(<<>>))]
      BY <1>3, <2>2 DEF WriteTmp, Put
    <3>3. SubSeq(g, 1, Len(g)) = g
      BY <3>1, SubSeqFull
    <3>4. Len(<<>>) = 0
      OBVIOUS
    <3>5. SubSeq(<<>>, Len(g) + 1, Len(<<>>)) = <<>>
      BY <3>1, <3>4, SubSeqEmpty
    <3> HIDE DEF g
    <3>6. g \o <<>> = g
      BY <3>1, ConcatEmptySeq
    <3> QED BY <3>2, <3>3, <3>5, <3>6
  <2>4. \A p \in Paths : p # Tmp(u) => dir[p] # i
    BY <2>1, <2>2 DEF OneInode
  <2>5. OneInode'
    BY <2>1 DEF OneInode
  <2>6. ASSUME NEW v \in Updaters PROVE OwnFile(v)'
    <3>1. CASE v = u
      BY <2>1, <2>2, <2>3, <3>1 DEF OwnFile, TypeOK
    <3>2. CASE v # u
      <4>1. pc[v] # "idle" => Tmp(v) # Tmp(u) /\ Tmp(v) \in Paths
        BY <2>1, <3>2, OtherTmp, JobType
      <4>2. pc[v] # "idle" => dir[Tmp(v)] # i
        BY <2>4, <4>1
      <4> HIDE DEF i, g
      <4> QED BY <2>1, <2>3, <3>2, <4>2, OwnKept DEF TypeOK
    <3> QED BY <3>1, <3>2
  <2>7. Content' = Content
    <3>1. Hosts \in Paths
      BY DEF Paths
    <3> QED BY <2>1, <2>3, <2>4, <3>1 DEF Content, TypeOK
  <2> QED BY <2>1, <2>5, <2>6, <2>7
<1>4. ASSUME NEW u \in Updaters, Rename(u)
      PROVE  Own' /\ Promise!Next
  <2> DEFINE i == dir[Tmp(u)]
  <2>1. /\ pc[u] = "rename" /\ i # NoFile
        /\ dir' = [dir EXCEPT ![Hosts] = i, ![Tmp(u)] = NoFile]
        /\ pc' = [pc EXCEPT ![u] = "idle"] /\ job' = [job EXCEPT ![u] = NoJob]
        /\ fd' = [fd EXCEPT ![u] = NoFile]
    BY <1>4 DEF Rename, Return
  <2>2. /\ Tmp(u) \in Paths /\ Tmp(u) # Hosts /\ Hosts \in Paths /\ job[u] # NoJob
        /\ i \in Inodes /\ i # dir[Hosts] /\ disk[i] = job[u].lines
    <3>1. /\ Tmp(u) \in Paths /\ Tmp(u) # Hosts /\ Hosts \in Paths /\ job[u] # NoJob
      BY <2>1, JobType DEF Paths
    <3> QED BY <2>1, <3>1 DEF OneInode, OwnFile, TypeOK
  <2>3. \A j \in Inodes : j # dir[Hosts] => disk'[j] = disk[j]
    BY <1>4 DEF Rename
  <2>4. /\ dir'[Hosts] = i /\ dir'[Tmp(u)] = NoFile
        /\ \A p \in Paths \ {Hosts, Tmp(u)} : dir'[p] = dir[p]
    BY <2>1, <2>2 DEF TypeOK
  <2>5. OneInode'
    <3> HIDE DEF i
    <3>1. \A p \in Paths \ {Hosts, Tmp(u)} : dir[p] # i
      BY <2>1, <2>2 DEF OneInode, i
    <3> QED BY <2>2, <2>4, <3>1 DEF OneInode
  <2>6. ASSUME NEW v \in Updaters PROVE OwnFile(v)'
    <3>1. CASE v = u
      BY <2>1, <3>1 DEF OwnFile, TypeOK
    <3>2. CASE v # u
      <4>1. pc[v] # "idle" => Tmp(v) # Tmp(u) /\ Tmp(v) \in Paths /\ Tmp(v) # Hosts
        BY <2>1, <3>2, OtherTmp, JobType
      <4>2. pc[v] # "idle" => dir'[Tmp(v)] = dir[Tmp(v)]
        BY <2>4, <4>1
      <4>3. \A j \in Inodes : (pc[v] # "idle" /\ j = dir[Tmp(v)]) => disk'[j] = disk[j]
        <5>1. \A j \in Inodes : (pc[v] # "idle" /\ j = dir[Tmp(v)]) => j # dir[Hosts]
          BY <2>2, <4>1, HostsFileAssumption DEF OneInode, Inodes, NoFile
        <5> QED BY <2>3, <5>1
      <4>4. pc'[v] = pc[v] /\ job'[v] = job[v] /\ fd'[v] = fd[v]
        BY <2>1, <3>2 DEF TypeOK
      <4> QED BY <4>2, <4>3, <4>4, OwnKept
    <3> QED BY <3>1, <3>2
  <2>7. Promise!Commit(u)
    <3>1. Content' = job[u].lines
      BY <2>1, <2>2, <2>3, <2>4 DEF Content
    <3> QED BY <2>1, <2>2, <3>1 DEF Promise!Commit
  <2> QED BY <2>5, <2>6, <2>7 DEF Promise!Next
<1>5. ASSUME NEW u \in Updaters, Abandon(u)
      PROVE  Own' /\ Promise!Next
  <2> DEFINE i == dir[Tmp(u)]
  <2>1. /\ pc[u] # "idle" /\ UNCHANGED dir
        /\ pc' = [pc EXCEPT ![u] = "idle"] /\ job' = [job EXCEPT ![u] = NoJob]
        /\ fd' = [fd EXCEPT ![u] = NoFile]
        /\ Tmp(u) \in Paths /\ Tmp(u) # Hosts /\ job[u] # NoJob
    BY <1>5, JobType DEF Abandon, Return
  <2>2. \A j \in Inodes : j # i => disk'[j] = disk[j]
    <3>1. CASE UNCHANGED disk
      BY <3>1
    <3>2. CASE pc[u] = "write" /\ Put(u, Len(job[u].lines) \div 2)
      <4>1. fd[u] = i
        BY <3>2 DEF OwnFile, TypeOK
      <4> QED BY <3>2, <4>1 DEF Put, TypeOK
    <3> QED BY <1>5, <3>1, <3>2 DEF Abandon
  <2>3. OneInode'
    BY <2>1 DEF OneInode
  <2>4. ASSUME NEW v \in Updaters PROVE OwnFile(v)'
    <3>1. CASE v = u
      BY <2>1, <3>1 DEF OwnFile, TypeOK
    <3>2. CASE v # u
      <4>1. pc[v] # "idle" => Tmp(v) # Tmp(u) /\ Tmp(v) \in Paths
        BY <2>1, <3>2, OtherTmp, JobType
      <4>2. \A j \in Inodes : (pc[v] # "idle" /\ j = dir[Tmp(v)]) => disk'[j] = disk[j]
        <5>1. \A j \in Inodes : (pc[v] # "idle" /\ j = dir[Tmp(v)]) => j # i
          BY <2>1, <4>1, HostsFileAssumption DEF OneInode, Inodes, NoFile
        <5> QED BY <2>2, <5>1
      <4>3. pc'[v] = pc[v] /\ job'[v] = job[v] /\ fd'[v] = fd[v] /\ dir' = dir
        BY <2>1, <3>2 DEF TypeOK
      <4> QED BY <4>2, <4>3, OwnKept
    <3> QED BY <3>1, <3>2
  <2>5. Promise!GiveUp(u)
    <3>1. Hosts \in Paths /\ dir[Hosts] # NoFile => dir[Hosts] # i /\ dir[Hosts] \in Inodes
      BY <2>1 DEF OneInode, Paths, TypeOK
    <3>2. Content' = Content
      BY <2>1, <2>2, <3>1 DEF Content, Paths
    <3> QED BY <2>1, <3>2 DEF Promise!GiveUp
  <2> QED BY <2>3, <2>4, <2>5 DEF Promise!Next
<1>6. ASSUME NEW k \in 1..Len(Content), UserDeletes(k)
      PROVE  Own' /\ Promise!Next
  <2>1. /\ Content[k] \in UserLines /\ UNCHANGED <<dir, pc, job, fd>>
        /\ disk' = [disk EXCEPT ![dir[Hosts]] = RemoveAt(@, k)]
    BY <1>6 DEF UserDeletes, IsUser
  <2>2. Hosts \in Paths /\ dir[Hosts] \in Inodes /\ dir[Hosts] # NoFile
    <3>1. dir[Hosts] # NoFile
      BY DEF Content
    <3> QED BY <3>1 DEF TypeOK, Paths
  <2>3. OneInode'
    BY <2>1 DEF OneInode
  <2>4. ASSUME NEW v \in Updaters PROVE OwnFile(v)'
    <3>1. pc[v] # "idle" => Tmp(v) \in Paths /\ Tmp(v) # Hosts
      BY JobType
    <3>2. \A j \in Inodes : (pc[v] # "idle" /\ j = dir[Tmp(v)]) => j # dir[Hosts]
      BY <2>2, <3>1 DEF OneInode
    <3>3. \A j \in Inodes : (pc[v] # "idle" /\ j = dir[Tmp(v)]) => disk'[j] = disk[j]
      BY <2>1, <3>2 DEF TypeOK
    <3> QED BY <2>1, <3>3, OwnKept
  <2>5. Promise!UserDeletes(k)
    <3>1. Content' = RemoveAt(Content, k)
      BY <2>1, <2>2 DEF Content, TypeOK
    <3> QED BY <2>1, <3>1 DEF Promise!UserDeletes, Promise!RemoveAt, RemoveAt
  <2>6. DOMAIN Content = 1..Len(Content)
    BY ContentType, LenProperties
  <2> QED BY <2>3, <2>4, <2>5, <2>6 DEF Promise!Next
<1>7. CASE UNCHANGED vars
  <2>1. UNCHANGED <<disk, dir, pc, job, fd>>
    BY <1>7 DEF vars
  <2>2. ASSUME NEW v \in Updaters PROVE OwnFile(v)'
    BY <2>1, OwnKept
  <2> QED BY <2>1, <2>2 DEF OneInode, Content
<1> QED BY <1>1, <1>2, <1>3, <1>4, <1>5, <1>6, <1>7 DEF Next, Update

\* Nothing is under way at first.
LEMMA InitRefines == ASSUME Init PROVE Own /\ Promise!Init
<1>1. Promise!Init
  BY DEF Init, Promise!Init
<1>2. OneInode
  BY DEF Init, OneInode, NoFile
<1>3. \A u \in Updaters : OwnFile(u)
  BY DEF Init, OwnFile
<1> QED BY <1>1, <1>2, <1>3 DEF Own

\* As long as no two updates of one name overlap, the hosts file changes only
\* as module AtomicFile says: by a new version put into place at a stroke, or by
\* its user ("atomic", client/src/hosts.rs:33).
THEOREM AtomicWhileApart == Spec /\ []Apart => Atomic
<1>1. Init => Own /\ Promise!Init
  BY InitRefines
<1>2. TypeOK /\ Apart /\ Own /\ [Next]_vars => Own' /\ [Promise!Next]_<<Content, job>>
  BY StepRefines
<1> QED BY <1>1, <1>2, TypeCorrect, PTL DEF Spec, Atomic, Promise!Spec

\* So it is whenever no two processes update the block of one name.
THEOREM FileIsAtomic == ASSUME Separate PROVE Spec => Atomic
<1>1. TypeOK => Apart
  BY SeparateApart
<1> QED BY <1>1, TypeCorrect, AtomicWhileApart, PTL

-----------------------------------------------------------------------------
(***************************************************************************)
(* What an update does to the lines, when no name begins with another.     *)
(***************************************************************************)

\* Line i of f belongs to n.
Named(f, n, i) == ~IsUser(f[i]) /\ f[i].name = n

\* The block of n begins at line i of f, and n has no other line.
BlockAt(f, n, i, ip) ==
  /\ i \in 1..Len(f) - 2
  /\ f[i] = [kind |-> "begin", name |-> n]
  /\ f[i + 1] = [kind |-> "entry", name |-> n, ip |-> ip]
  /\ f[i + 2] = [kind |-> "end", name |-> n]
  /\ \A j \in 1..Len(f) : (j < i \/ j > i + 2) => ~Named(f, n, j)

Unnamed(f, n) == \A j \in 1..Len(f) : ~Named(f, n, j)

\* What it is to be whole, line by line.
LEMMA WholeLines ==
  ASSUME NEW f \in Seq(Line), NEW n \in Names
  PROVE  WholeIn(f, n) <=> Unnamed(f, n) \/ \E i \in 1..Len(f) - 2, ip \in IPs : BlockAt(f, n, i, ip)
<1>0. Len(f) \in Nat /\ DOMAIN f = 1..Len(f)
  BY LenProperties
<1>1. (\A j \in DOMAIN f : IsUser(f[j]) \/ f[j].name # n) <=> Unnamed(f, n)
  BY <1>0 DEF Unnamed, Named
<1>2. ASSUME NEW i \in 1..Len(f) - 2, NEW ip \in IPs
      PROVE  /\ SubSeq(f, i, i + 2) = Block(n, ip)
             /\ \A j \in DOMAIN f \ (i..i + 2) : IsUser(f[j]) \/ f[j].name # n
             <=> BlockAt(f, n, i, ip)
  <2> DEFINE s == SubSeq(f, i, i + 2)
             b == Block(n, ip)
  <2>1. s \in Seq(Line) /\ Len(s) = 3 /\ \A j \in 1..3 : s[j] = f[i + j - 1]
    <3>1. i \in Nat \ {0} /\ i + 2 \in Int /\ i + 2 <= Len(f) /\ i + 2 - i + 1 = 3 /\ i <= i + 2
      BY <1>0
    <3> DEFINE k == i + 2
    <3>2. k \in Int /\ k <= Len(f) /\ k - i + 1 = 3 /\ i <= k
      BY <3>1
    <3> HIDE DEF k
    <3>3. /\ SubSeq(f, i, k) \in Seq(Line)
          /\ Len(SubSeq(f, i, k)) = IF i <= k THEN k - i + 1 ELSE 0
          /\ \A j \in 1..k - i + 1 : SubSeq(f, i, k)[j] = f[i + j - 1]
      BY <3>1, <3>2, Slice
    <3> QED BY <3>2, <3>3 DEF k
  <2>2. b \in Seq(Line) /\ Len(b) = 3
        /\ b[1] = [kind |-> "begin", name |-> n]
        /\ b[2] = [kind |-> "entry", name |-> n, ip |-> ip]
        /\ b[3] = [kind |-> "end", name |-> n]
    BY BlockType DEF Block
  <2>3. s[1] = f[i] /\ s[2] = f[i + 1] /\ s[3] = f[i + 2]
    <3>1. i + 1 - 1 = i /\ i + 2 - 1 = i + 1 /\ i + 3 - 1 = i + 2
      BY <1>0
    <3> QED BY <2>1, <3>1
  <2> HIDE DEF s, b
  <2>4. s = b <=> s[1] = b[1] /\ s[2] = b[2] /\ s[3] = b[3]
    <3>1. ASSUME s[1] = b[1], s[2] = b[2], s[3] = b[3] PROVE s = b
      <4>1. \A j \in 1..Len(s) : s[j] = b[j]
        BY <2>1, <3>1
      <4> QED BY <2>1, <2>2, <4>1, SeqEqual
    <3> QED BY <3>1
  <2>5. (\A j \in DOMAIN f \ (i..i + 2) : IsUser(f[j]) \/ f[j].name # n)
          <=> \A j \in 1..Len(f) : (j < i \/ j > i + 2) => ~Named(f, n, j)
    BY <1>0 DEF Named
  <2>6. s = b <=> /\ f[i] = [kind |-> "begin", name |-> n]
                  /\ f[i + 1] = [kind |-> "entry", name |-> n, ip |-> ip]
                  /\ f[i + 2] = [kind |-> "end", name |-> n]
    BY <2>2, <2>3, <2>4
  <2>7. BlockAt(f, n, i, ip) <=> /\ s = b
                                 /\ \A j \in 1..Len(f) : (j < i \/ j > i + 2) => ~Named(f, n, j)
    BY <2>6 DEF BlockAt
  <2> QED BY <2>5, <2>7 DEF s, b
<1> QED BY <1>1, <1>2 DEF WholeIn

\* A line of a block belongs to its name alone, and is not the user's.
LEMMA BlockNames ==
  ASSUME NEW f \in Seq(Line), NEW n \in Names, NEW i, NEW ip \in IPs, BlockAt(f, n, i, ip),
         NEW m \in Names
  PROVE  /\ Named(f, n, i) /\ Named(f, n, i + 1) /\ Named(f, n, i + 2)
         /\ \A j \in 1..Len(f) : Named(f, m, j) /\ m # n => j < i \/ j > i + 2
<1>1. /\ [kind |-> "begin", name |-> n] \in BlockLine
      /\ [kind |-> "entry", name |-> n, ip |-> ip] \in BlockLine
      /\ [kind |-> "end", name |-> n] \in BlockLine
  BY DEF BlockLine
<1>2. Named(f, n, i) /\ Named(f, n, i + 1) /\ Named(f, n, i + 2)
  BY <1>1, HostsFileAssumption DEF BlockAt, Named, IsUser
<1>3. \A j \in 1..Len(f) : Named(f, m, j) /\ m # n => j # i /\ j # i + 1 /\ j # i + 2
  BY <1>2 DEF Named
<1> QED BY <1>2, <1>3 DEF BlockAt

\* When no name begins with another, a marker is found only on its own line.
LEMMA FindBlock ==
  ASSUME Longer = {}, NEW f \in Seq(Line), NEW n \in Names
  PROVE  /\ Unnamed(f, n) => Find(f, "begin", n) = 0
         /\ \A i \in 1..Len(f) - 2, ip \in IPs :
              BlockAt(f, n, i, ip) => Find(f, "begin", n) = i /\ Find(f, "end", n) = i + 2
<1>0. Len(f) \in Nat
  BY LenProperties
<1>1. \A j \in 1..Len(f), kind \in {"begin", "end"} :
        Marks(f[j], kind, n) <=> Named(f, n, j) /\ f[j].kind = kind
  BY DEF Marks, Named
<1>2. ASSUME NEW kind \in {"begin", "end"}
      PROVE  LET a == Find(f, kind, n)
             IN /\ a # 0 => a \in 1..Len(f) /\ Named(f, n, a) /\ f[a].kind = kind
                /\ a = 0 => \A j \in 1..Len(f) : ~(Named(f, n, j) /\ f[j].kind = kind)
  <2> DEFINE a == Find(f, kind, n)
  <2>1. /\ a \in 0..Len(f)
        /\ a # 0 => Marks(f[a], kind, n)
        /\ a = 0 => \A j \in 1..Len(f) : ~Marks(f[j], kind, n)
    BY <1>0, FindProperties
  <2>2. a # 0 => a \in 1..Len(f)
    BY <1>0, <2>1
  <2> HIDE DEF a
  <2>3. a # 0 => Named(f, n, a) /\ f[a].kind = kind
    BY <1>1, <2>1, <2>2
  <2>4. a = 0 => \A j \in 1..Len(f) : ~(Named(f, n, j) /\ f[j].kind = kind)
    BY <1>1, <2>1
  <2> QED BY <2>2, <2>3, <2>4 DEF a
<1>3. Unnamed(f, n) => Find(f, "begin", n) = 0
  BY <1>2 DEF Unnamed
<1>4. ASSUME NEW i \in 1..Len(f) - 2, NEW ip \in IPs, BlockAt(f, n, i, ip)
      PROVE  Find(f, "begin", n) = i /\ Find(f, "end", n) = i + 2
  <2>1. /\ Named(f, n, i) /\ f[i].kind = "begin" /\ f[i + 1].kind = "entry"
        /\ Named(f, n, i + 2) /\ f[i + 2].kind = "end"
        /\ i \in 1..Len(f) /\ i + 2 \in 1..Len(f)
    <3>1. f[i].kind = "begin" /\ f[i + 1].kind = "entry" /\ f[i + 2].kind = "end"
      BY <1>4 DEF BlockAt
    <3>2. Named(f, n, i) /\ Named(f, n, i + 2)
      BY <1>4, BlockNames
    <3> QED BY <1>0, <3>1, <3>2
  <2>2. ASSUME NEW j \in 1..Len(f), Named(f, n, j), f[j].kind \in {"begin", "end"}
        PROVE  (f[j].kind = "begin" => j = i) /\ (f[j].kind = "end" => j = i + 2)
    <3>1. j \in {i, i + 1, i + 2}
      BY <1>0, <1>4, <2>2 DEF BlockAt
    <3> QED BY <2>1, <2>2, <3>1
  <2>3. Find(f, "begin", n) # 0 /\ Find(f, "end", n) # 0
    BY <1>2, <2>1
  <2> QED BY <1>2, <2>2, <2>3
<1> QED BY <1>3, <1>4

\* An update replaces the entry in the name's block, or appends a block.
LEMMA ReplaceLines ==
  ASSUME Longer = {}, NEW f \in Seq(Line), NEW n \in Names, NEW ip \in IPs
  PROVE  LET g == ReplaceOrAppend(f, n, ip)
         IN /\ Unnamed(f, n) => g = f \o Block(n, ip)
            /\ \A i \in 1..Len(f) - 2, old \in IPs : BlockAt(f, n, i, old) =>
                 /\ Len(g) = Len(f)
                 /\ \A j \in 1..Len(f) : g[j] = IF j = i + 1
                                                THEN [kind |-> "entry", name |-> n, ip |-> ip]
                                                ELSE f[j]
<1> DEFINE g == ReplaceOrAppend(f, n, ip)
           b == Block(n, ip)
<1>0. Len(f) \in Nat /\ b \in Seq(Line) /\ Len(b) = 3
      /\ b[1] = [kind |-> "begin", name |-> n]
      /\ b[2] = [kind |-> "entry", name |-> n, ip |-> ip]
      /\ b[3] = [kind |-> "end", name |-> n]
  BY LenProperties, BlockType DEF Block
<1>1. Unnamed(f, n) => g = f \o b
  BY FindBlock DEF ReplaceOrAppend
<1>2. ASSUME NEW i \in 1..Len(f) - 2, NEW old \in IPs, BlockAt(f, n, i, old)
      PROVE  /\ Len(g) = Len(f)
             /\ \A j \in 1..Len(f) : g[j] = IF j = i + 1
                                            THEN [kind |-> "entry", name |-> n, ip |-> ip]
                                            ELSE f[j]
  <2>1. Find(f, "begin", n) = i /\ Find(f, "end", n) = i + 2 /\ f[i + 2].name = n
    <3>1. f[i + 2].name = n
      BY <1>2 DEF BlockAt
    <3>2. Find(f, "begin", n) = i /\ Find(f, "end", n) = i + 2
      BY <1>2, FindBlock
    <3> QED BY <3>1, <3>2
  <2>2. g = SubSeq(f, 1, i - 1) \o b \o <<>> \o SubSeq(f, i + 2 + 1, Len(f))
    <3>1. i # 0 /\ i + 2 # 0
      BY <1>0
    <3> QED BY <2>1, <3>1 DEF ReplaceOrAppend
  <2> DEFINE s == SubSeq(f, 1, i - 1)
             t == SubSeq(f, i + 2 + 1, Len(f))
  <2>3. s \in Seq(Line) /\ Len(s) = i - 1 /\ \A j \in 1..i - 1 : s[j] = f[j]
    <3> DEFINE k == i - 1
    <3>1. k \in Nat /\ k <= Len(f)
      BY <1>0
    <3> HIDE DEF k
    <3>2. /\ SubSeq(f, 1, k) \in Seq(Line)
          /\ Len(SubSeq(f, 1, k)) = IF 1 <= k THEN k - 1 + 1 ELSE 0
          /\ \A j \in 1..k - 1 + 1 : SubSeq(f, 1, k)[j] = f[1 + j - 1]
      BY <3>1, Slice
    <3>3. \A j \in 1..k : 1 + j - 1 = j /\ j \in 1..k - 1 + 1
      BY <3>1
    <3> QED BY <3>1, <3>2, <3>3 DEF k
  <2>4. t \in Seq(Line) /\ Len(t) = Len(f) - (i + 2)
        /\ \A j \in 1..Len(f) - (i + 2) : t[j] = f[j + (i + 2)]
    <3> DEFINE k == i + 2 + 1
    <3>1. k \in Nat \ {0} /\ k <= Len(f) + 1 /\ i + 2 = k - 1
      BY <1>0
    <3> HIDE DEF k
    <3>2. /\ SubSeq(f, k, Len(f)) \in Seq(Line)
          /\ Len(SubSeq(f, k, Len(f))) = IF k <= Len(f) THEN Len(f) - k + 1 ELSE 0
          /\ \A j \in 1..Len(f) - k + 1 : SubSeq(f, k, Len(f))[j] = f[k + j - 1]
      BY <1>0, <3>1, Slice
    <3>3. \A j \in 1..Len(f) - (k - 1) : k + j - 1 = j + (k - 1) /\ j \in 1..Len(f) - k + 1
      BY <1>0, <3>1
    <3>4. Len(SubSeq(f, k, Len(f))) = Len(f) - (k - 1)
      BY <1>0, <3>1, <3>2
    <3> QED BY <3>1, <3>2, <3>3, <3>4 DEF k
  <2> HIDE DEF s, t, b, g
  <2>5. g = (s \o b) \o t
    <3>1. s \o b \in Seq(Line)
      BY <1>0, <2>3, ConcatProperties
    <3>2. (s \o b) \o <<>> = s \o b
      BY <3>1, ConcatEmptySeq
    <3> QED BY <2>2, <3>2 DEF s, t
  <2>6. /\ s \o b \in Seq(Line) /\ Len(s \o b) = i + 2
        /\ \A j \in 1..i + 2 : (s \o b)[j] = IF j <= i - 1 THEN f[j] ELSE b[j - (i - 1)]
    <3>1. /\ s \o b \in Seq(Line) /\ Len(s \o b) = Len(s) + Len(b)
          /\ \A j \in 1..Len(s) + Len(b) : (s \o b)[j] = IF j <= Len(s) THEN s[j] ELSE b[j - Len(s)]
      BY <1>0, <2>3, ConcatProperties
    <3> QED BY <1>0, <2>3, <3>1
  <2>7. /\ Len(g) = Len(f)
        /\ \A j \in 1..Len(f) : g[j] = IF j <= i + 2 THEN (s \o b)[j] ELSE t[j - (i + 2)]
    <3> DEFINE sb == s \o b
    <3>0. sb \in Seq(Line) /\ Len(sb) = i + 2 /\ g = sb \o t
      BY <2>5, <2>6
    <3> HIDE DEF sb
    <3>1. /\ Len(sb \o t) = Len(sb) + Len(t)
          /\ \A j \in 1..Len(sb) + Len(t) :
               (sb \o t)[j] = IF j <= Len(sb) THEN sb[j] ELSE t[j - Len(sb)]
      <4>1. sb \in Seq(Line)
        BY <3>0
      <4>2. t \in Seq(Line)
        BY <2>4
      <4> QED BY ONLY <4>1, <4>2, ConcatProperties
    <3>2. Len(sb) + Len(t) = Len(f)
      BY <1>0, <2>4, <3>0
    <3> QED BY <3>0, <3>1, <3>2 DEF sb
  <2>8. ASSUME NEW j \in 1..Len(f)
        PROVE  g[j] = IF j = i + 1 THEN [kind |-> "entry", name |-> n, ip |-> ip] ELSE f[j]
    <3>1. CASE j > i + 2
      <4>1. j - (i + 2) \in 1..Len(f) - (i + 2) /\ j - (i + 2) + (i + 2) = j
        BY <1>0, <3>1
      <4>2. g[j] = t[j - (i + 2)] /\ t[j - (i + 2)] = f[j - (i + 2) + (i + 2)]
        BY <1>0, <2>4, <2>7, <3>1, <4>1
      <4> QED BY <3>1, <4>1, <4>2
    <3>2. CASE j < i
      BY <1>0, <2>6, <2>7, <3>2
    <3>3. CASE j \in {i, i + 1, i + 2}
      <4>1. j \in 1..i + 2 /\ j <= i + 2 /\ ~(j <= i - 1)
        BY <1>0, <3>3
      <4>2. g[j] = b[j - (i - 1)]
        BY <2>6, <2>7, <4>1
      <4>3. i - (i - 1) = 1 /\ i + 1 - (i - 1) = 2 /\ i + 2 - (i - 1) = 3
            /\ i # i + 1 /\ i + 2 # i + 1
        BY <1>0
      <4>4. /\ f[i] = [kind |-> "begin", name |-> n]
            /\ f[i + 2] = [kind |-> "end", name |-> n]
        BY <1>2 DEF BlockAt
      <4> QED BY <1>0, <3>3, <4>2, <4>3, <4>4
    <3> QED BY <1>0, <3>1, <3>2, <3>3
  <2> QED BY <2>7, <2>8
<1> QED BY <1>1, <1>2

\* A block appended to a file.
LEMMA AppendLines ==
  ASSUME NEW f \in Seq(Line), NEW n \in Names, NEW ip \in IPs
  PROVE  LET g == f \o Block(n, ip)
         IN /\ Len(g) = Len(f) + 3
            /\ \A j \in 1..Len(f) : g[j] = f[j]
            /\ g[Len(f) + 1] = [kind |-> "begin", name |-> n]
            /\ g[Len(f) + 2] = [kind |-> "entry", name |-> n, ip |-> ip]
            /\ g[Len(f) + 3] = [kind |-> "end", name |-> n]
            /\ Unnamed(f, n) => BlockAt(g, n, Len(f) + 1, ip)
<1> DEFINE b == Block(n, ip)
           g == f \o b
<1>0. Len(f) \in Nat
  BY LenProperties
<1>1. b \in Seq(Line) /\ Len(b) = 3
      /\ b[1] = [kind |-> "begin", name |-> n]
      /\ b[2] = [kind |-> "entry", name |-> n, ip |-> ip]
      /\ b[3] = [kind |-> "end", name |-> n]
  BY BlockType DEF Block
<1>g. g = f \o b
  OBVIOUS
<1> HIDE DEF b, g
<1>2. /\ Len(g) = Len(f) + 3
      /\ \A j \in 1..Len(f) + 3 : g[j] = IF j <= Len(f) THEN f[j] ELSE b[j - Len(f)]
  <2>1. b \in Seq(Line)
    BY <1>1
  <2>2. f \in Seq(Line)
    OBVIOUS
  <2>3. /\ Len(f \o b) = Len(f) + Len(b)
        /\ \A j \in 1..Len(f) + Len(b) : (f \o b)[j] = IF j <= Len(f) THEN f[j] ELSE b[j - Len(f)]
    BY ONLY <2>1, <2>2, ConcatProperties
  <2>4. Len(b) = 3
    BY <1>1
  <2> QED BY <1>g, <2>3, <2>4
<1>3. \A j \in 1..Len(f) : g[j] = f[j]
  BY <1>0, <1>2
<1>4. g[Len(f) + 1] = b[1] /\ g[Len(f) + 2] = b[2] /\ g[Len(f) + 3] = b[3]
  <2>1. Len(f) + 1 - Len(f) = 1 /\ Len(f) + 2 - Len(f) = 2 /\ Len(f) + 3 - Len(f) = 3
    BY <1>0
  <2> QED BY <1>0, <1>2, <2>1
<1>5. ASSUME Unnamed(f, n) PROVE BlockAt(g, n, Len(f) + 1, ip)
  <2>1. Len(f) + 1 + 1 = Len(f) + 2 /\ Len(f) + 1 + 2 = Len(f) + 3
        /\ Len(f) + 1 \in 1..Len(g) - 2
    BY <1>0, <1>2
  <2>2. \A j \in 1..Len(g) : j < Len(f) + 1 \/ j > Len(f) + 3 => j \in 1..Len(f)
    BY <1>0, <1>2
  <2>3. \A j \in 1..Len(f) : ~Named(g, n, j)
    BY <1>3, <1>5 DEF Unnamed, Named
  <2> QED BY <1>1, <1>4, <2>1, <2>2, <2>3 DEF BlockAt
<1>6. /\ g[Len(f) + 1] = [kind |-> "begin", name |-> n]
      /\ g[Len(f) + 2] = [kind |-> "entry", name |-> n, ip |-> ip]
      /\ g[Len(f) + 3] = [kind |-> "end", name |-> n]
  BY <1>1, <1>4
<1>7. Len(g) = Len(f) + 3
  BY <1>2
<1> QED BY <1>3, <1>5, <1>6, <1>7 DEF g, b

\* A block that is replaced is where it was, and so is every line of a name.
LEMMA ReplacedBlock ==
  ASSUME Longer = {}, NEW f \in Seq(Line), NEW n \in Names, NEW ip \in IPs,
         NEW i \in 1..Len(f) - 2, NEW old \in IPs, BlockAt(f, n, i, old)
  PROVE  LET g == ReplaceOrAppend(f, n, ip)
         IN /\ BlockAt(g, n, i, ip)
            /\ \A m \in Names, j \in 1..Len(f) : Named(g, m, j) <=> Named(f, m, j)
            /\ Named(f, n, i + 1) /\ ~IsUser(f[i + 1]) /\ ~IsUser(g[i + 1])
<1> DEFINE g == ReplaceOrAppend(f, n, ip)
<1>0. Len(f) \in Nat
  BY LenProperties
<1>1. /\ Len(g) = Len(f)
      /\ \A j \in 1..Len(f) : g[j] = IF j = i + 1
                                     THEN [kind |-> "entry", name |-> n, ip |-> ip] ELSE f[j]
  BY ReplaceLines
<1> HIDE DEF g
<1>2. i \in 1..Len(f) /\ i + 1 \in 1..Len(f) /\ i + 2 \in 1..Len(f)
      /\ i # i + 1 /\ i + 2 # i + 1
  BY <1>0
<1>3. g[i + 1] = [kind |-> "entry", name |-> n, ip |-> ip]
  BY <1>1, <1>2
<1>4. \A j \in 1..Len(f) : j # i + 1 => g[j] = f[j]
  BY <1>1
<1>5. Named(f, n, i + 1) /\ f[i + 1].name = n /\ ~IsUser(f[i + 1]) /\ ~IsUser(g[i + 1])
  <2>1. Named(f, n, i + 1)
    BY BlockNames
  <2>2. [kind |-> "entry", name |-> n, ip |-> ip] \in BlockLine
    BY DEF BlockLine
  <2> QED BY <1>3, <2>1, <2>2, HostsFileAssumption DEF Named, IsUser
<1>6. \A m \in Names, j \in 1..Len(f) : Named(g, m, j) <=> Named(f, m, j)
  BY <1>3, <1>4, <1>5 DEF Named
<1>7. BlockAt(g, n, i, ip)
  BY <1>1, <1>2, <1>3, <1>4, <1>6 DEF BlockAt
<1> QED BY <1>5, <1>6, <1>7 DEF g

WholeFile(f) == \A n \in Names : WholeIn(f, n)

\* An update of a file that is whole leaves it whole.
LEMMA ReplaceWhole ==
  ASSUME Longer = {}, NEW f \in Seq(Line), WholeFile(f), NEW n \in Names, NEW ip \in IPs
  PROVE  WholeFile(ReplaceOrAppend(f, n, ip))
<1> DEFINE g == ReplaceOrAppend(f, n, ip)
<1>0. Len(f) \in Nat /\ g \in Seq(Line)
  BY LenProperties, ReplaceType
<1>1. CASE Unnamed(f, n)
  <2>1. g = f \o Block(n, ip)
    BY <1>1, ReplaceLines
  <2>2. /\ Len(g) = Len(f) + 3
        /\ \A j \in 1..Len(f) : g[j] = f[j]
        /\ g[Len(f) + 1] = [kind |-> "begin", name |-> n]
        /\ g[Len(f) + 2] = [kind |-> "entry", name |-> n, ip |-> ip]
        /\ g[Len(f) + 3] = [kind |-> "end", name |-> n]
        /\ BlockAt(g, n, Len(f) + 1, ip)
    BY <1>1, <2>1, AppendLines
  <2> HIDE DEF g
  <2>3. ASSUME NEW m \in Names PROVE WholeIn(g, m)
    <3>1. CASE m = n
      <4>1. Len(f) + 1 \in 1..Len(g) - 2
        BY <1>0, <2>2
      <4> QED BY <1>0, <2>2, <3>1, <4>1, WholeLines
    <3>2. CASE m # n
      <4>1. \A j \in 1..Len(g) : j > Len(f) => ~Named(g, m, j)
        <5>1. \A j \in 1..Len(g) : j > Len(f) => j \in {Len(f) + 1, Len(f) + 2, Len(f) + 3}
          BY <1>0, <2>2
        <5>2. /\ ~Named(g, m, Len(f) + 1) /\ ~Named(g, m, Len(f) + 2) /\ ~Named(g, m, Len(f) + 3)
          BY <2>2, <3>2 DEF Named
        <5> QED BY <5>1, <5>2
      <4>2. \A j \in 1..Len(f) : Named(g, m, j) <=> Named(f, m, j)
        BY <2>2 DEF Named
      <4>3. CASE Unnamed(f, m)
        <5>1. Unnamed(g, m)
          BY <1>0, <4>1, <4>2, <4>3 DEF Unnamed
        <5> QED BY <1>0, <5>1, WholeLines
      <4>4. ASSUME NEW i \in 1..Len(f) - 2, NEW old \in IPs, BlockAt(f, m, i, old)
            PROVE  WholeIn(g, m)
        <5>1. i \in 1..Len(g) - 2 /\ i \in 1..Len(f) /\ i + 1 \in 1..Len(f) /\ i + 2 \in 1..Len(f)
          BY <1>0, <2>2
        <5>2. \A j \in 1..Len(g) : (j < i \/ j > i + 2) => ~Named(g, m, j)
          BY <1>0, <4>1, <4>2, <4>4 DEF BlockAt
        <5>3. BlockAt(g, m, i, old)
          BY <2>2, <4>4, <5>1, <5>2 DEF BlockAt
        <5> QED BY <1>0, <5>1, <5>3, WholeLines
      <4> QED BY <4>3, <4>4, WholeLines DEF WholeFile
    <3> QED BY <3>1, <3>2
  <2> QED BY <2>3 DEF WholeFile, g
<1>2. ASSUME NEW i \in 1..Len(f) - 2, NEW old \in IPs, BlockAt(f, n, i, old)
      PROVE  WholeFile(g)
  <2>1. /\ Len(g) = Len(f)
        /\ \A j \in 1..Len(f) : g[j] = IF j = i + 1
                                       THEN [kind |-> "entry", name |-> n, ip |-> ip] ELSE f[j]
    BY <1>2, ReplaceLines
  <2> HIDE DEF g
  <2>2. \A j \in 1..Len(f) : j # i + 1 => g[j] = f[j]
    BY <2>1
  <2>3. /\ BlockAt(g, n, i, ip)
        /\ \A m \in Names, j \in 1..Len(f) : Named(g, m, j) <=> Named(f, m, j)
        /\ Named(f, n, i + 1)
    BY <1>2, ReplacedBlock DEF g
  <2>4. ASSUME NEW m \in Names PROVE WholeIn(g, m)
    <3>1. CASE m = n
      BY <1>0, <2>1, <2>3, <3>1, WholeLines
    <3>2. CASE m # n
      <4>1. CASE Unnamed(f, m)
        <5>1. Unnamed(g, m)
          BY <2>1, <2>3, <4>1 DEF Unnamed
        <5> QED BY <1>0, <5>1, WholeLines
      <4>2. ASSUME NEW k \in 1..Len(f) - 2, NEW kip \in IPs, BlockAt(f, m, k, kip)
            PROVE  WholeIn(g, m)
        <5>1. k \in 1..Len(f) /\ k + 1 \in 1..Len(f) /\ k + 2 \in 1..Len(f)
          BY <1>0
        <5>2. k # i + 1 /\ k + 1 # i + 1 /\ k + 2 # i + 1
          <6>1. Named(f, m, k) /\ Named(f, m, k + 1) /\ Named(f, m, k + 2)
            BY <4>2, BlockNames
          <6> QED BY <2>3, <3>2, <6>1 DEF Named
        <5>3. g[k] = f[k] /\ g[k + 1] = f[k + 1] /\ g[k + 2] = f[k + 2]
          BY <2>2, <5>1, <5>2
        <5>4. BlockAt(g, m, k, kip)
          BY <2>1, <2>3, <4>2, <5>3 DEF BlockAt
        <5> QED BY <1>0, <2>1, <5>4, WholeLines
      <4> QED BY <4>1, <4>2, WholeLines DEF WholeFile
    <3> QED BY <3>1, <3>2
  <2> QED BY <2>4 DEF WholeFile
<1> QED BY <1>1, <1>2, WholeLines DEF WholeFile

\* What is left when a line is deleted.
LEMMA DeleteLines ==
  ASSUME NEW f \in Seq(Line), NEW k \in 1..Len(f)
  PROVE  LET g == RemoveAt(f, k)
         IN /\ g \in Seq(Line) /\ Len(g) = Len(f) - 1
            /\ \A j \in 1..Len(f) - 1 : g[j] = IF j < k THEN f[j] ELSE f[j + 1]
<1> DEFINE s == SubSeq(f, 1, k - 1)
           t == SubSeq(f, k + 1, Len(f))
           g == RemoveAt(f, k)
<1>0. Len(f) \in Nat
  BY LenProperties
<1>1. s \in Seq(Line) /\ Len(s) = k - 1 /\ \A j \in 1..k - 1 : s[j] = f[j]
  <2> DEFINE i == k - 1
  <2>1. i \in Nat /\ i <= Len(f)
    BY <1>0
  <2> HIDE DEF i
  <2>2. /\ SubSeq(f, 1, i) \in Seq(Line)
        /\ Len(SubSeq(f, 1, i)) = IF 1 <= i THEN i - 1 + 1 ELSE 0
        /\ \A j \in 1..i - 1 + 1 : SubSeq(f, 1, i)[j] = f[1 + j - 1]
    BY <2>1, Slice
  <2>3. \A j \in 1..i : 1 + j - 1 = j /\ j \in 1..i - 1 + 1
    BY <2>1
  <2> QED BY <2>1, <2>2, <2>3 DEF i
<1>2. t \in Seq(Line) /\ Len(t) = Len(f) - k /\ \A j \in 1..Len(f) - k : t[j] = f[j + k]
  <2> DEFINE i == k + 1
  <2>1. i \in Nat \ {0} /\ i <= Len(f) + 1 /\ k = i - 1
    BY <1>0
  <2> HIDE DEF i
  <2>2. /\ SubSeq(f, i, Len(f)) \in Seq(Line)
        /\ Len(SubSeq(f, i, Len(f))) = IF i <= Len(f) THEN Len(f) - i + 1 ELSE 0
        /\ \A j \in 1..Len(f) - i + 1 : SubSeq(f, i, Len(f))[j] = f[i + j - 1]
    BY <1>0, <2>1, Slice
  <2>3. \A j \in 1..Len(f) - (i - 1) : i + j - 1 = j + (i - 1) /\ j \in 1..Len(f) - i + 1
    BY <1>0, <2>1
  <2>4. Len(SubSeq(f, i, Len(f))) = Len(f) - (i - 1)
    BY <1>0, <2>1, <2>2
  <2> QED BY <2>1, <2>2, <2>3, <2>4 DEF i
<1>g. g = s \o t
  BY DEF RemoveAt
<1> HIDE DEF s, t, g
<1>3. /\ s \o t \in Seq(Line) /\ Len(s \o t) = Len(s) + Len(t)
      /\ \A j \in 1..Len(s) + Len(t) : (s \o t)[j] = IF j <= Len(s) THEN s[j] ELSE t[j - Len(s)]
  <2>1. s \in Seq(Line)
    BY <1>1
  <2>2. t \in Seq(Line)
    BY <1>2
  <2> QED BY ONLY <2>1, <2>2, ConcatProperties
<1>4. g \in Seq(Line) /\ Len(g) = Len(f) - 1
  BY <1>0, <1>1, <1>2, <1>3, <1>g
<1>5. ASSUME NEW j \in 1..Len(f) - 1 PROVE g[j] = IF j < k THEN f[j] ELSE f[j + 1]
  <2>1. g[j] = IF j <= k - 1 THEN s[j] ELSE t[j - (k - 1)]
    BY <1>0, <1>1, <1>2, <1>3, <1>g
  <2>2. CASE j < k
    BY <1>1, <2>1, <2>2
  <2>3. CASE ~(j < k)
    <3>1. j - (k - 1) \in 1..Len(f) - k /\ j - (k - 1) + k = j + 1
      BY <1>0, <2>3
    <3>2. t[j - (k - 1)] = f[j - (k - 1) + k]
      BY <1>2, <3>1
    <3> QED BY <2>1, <2>3, <3>1, <3>2
  <2> QED BY <2>2, <2>3
<1> QED BY <1>4, <1>5 DEF g

\* The user's deletion of a line of theirs leaves the blocks alone.
LEMMA DeleteWhole ==
  ASSUME NEW f \in Seq(Line), WholeFile(f), NEW k \in 1..Len(f), IsUser(f[k])
  PROVE  WholeFile(RemoveAt(f, k))
<1> DEFINE g == RemoveAt(f, k)
<1>0. Len(f) \in Nat
  BY LenProperties
<1>1. g \in Seq(Line) /\ Len(g) = Len(f) - 1
  BY DeleteLines
<1>2. \A j \in 1..Len(f) - 1 : g[j] = IF j < k THEN f[j] ELSE f[j + 1]
  BY DeleteLines
<1> HIDE DEF g
<1>3. ASSUME NEW m \in Names PROVE WholeIn(g, m)
  <2>1. \A j \in 1..Len(f) - 1 : Named(g, m, j) <=> IF j < k THEN Named(f, m, j) ELSE Named(f, m, j + 1)
    BY <1>0, <1>2 DEF Named
  <2>2. CASE Unnamed(f, m)
    <3>1. Unnamed(g, m)
      BY <1>0, <1>1, <2>1, <2>2 DEF Unnamed
    <3> QED BY <1>1, <3>1, WholeLines
  <2>3. ASSUME NEW i \in 1..Len(f) - 2, NEW ip \in IPs, BlockAt(f, m, i, ip)
        PROVE  WholeIn(g, m)
    <3>1. k # i /\ k # i + 1 /\ k # i + 2
      BY <2>3, BlockNames DEF Named
    <3>2. CASE k > i + 2
      <4>1. i \in 1..Len(g) - 2 /\ i < k /\ i + 1 < k /\ i + 2 < k
            /\ i \in 1..Len(f) - 1 /\ i + 1 \in 1..Len(f) - 1 /\ i + 2 \in 1..Len(f) - 1
        BY <1>0, <1>1, <3>2
      <4>2. g[i] = f[i] /\ g[i + 1] = f[i + 1] /\ g[i + 2] = f[i + 2]
        BY <1>2, <4>1
      <4>3. \A j \in 1..Len(g) : (j < i \/ j > i + 2) => ~Named(g, m, j)
        BY <1>0, <1>1, <2>1, <2>3, <3>2 DEF BlockAt
      <4>4. BlockAt(g, m, i, ip)
        BY <2>3, <4>1, <4>2, <4>3 DEF BlockAt
      <4> QED BY <1>1, <4>1, <4>4, WholeLines
    <3>3. CASE k < i
      <4> DEFINE h == i - 1
      <4>1. h \in 1..Len(g) - 2 /\ ~(h < k) /\ ~(h + 1 < k) /\ ~(h + 2 < k)
            /\ h \in 1..Len(f) - 1 /\ h + 1 \in 1..Len(f) - 1 /\ h + 2 \in 1..Len(f) - 1
            /\ h + 1 = i /\ h + 1 + 1 = i + 1 /\ h + 2 + 1 = i + 2
        BY <1>0, <1>1, <3>3
      <4> HIDE DEF h
      <4>2. g[h] = f[i] /\ g[h + 1] = f[i + 1] /\ g[h + 2] = f[i + 2]
        BY <1>2, <4>1
      <4>3. ASSUME NEW j \in 1..Len(g), j < h \/ j > h + 2 PROVE ~Named(g, m, j)
        <5>1. j \in 1..Len(f) - 1 /\ j \in 1..Len(f) /\ j + 1 \in 1..Len(f)
          BY <1>0, <1>1
        <5>2. (j < k => j < i) /\ (j + 1 < i \/ j + 1 > i + 2)
          BY <1>0, <3>3, <4>1, <4>3
        <5> QED BY <2>1, <2>3, <5>1, <5>2 DEF BlockAt
      <4>4. BlockAt(g, m, h, ip)
        BY <2>3, <4>1, <4>2, <4>3 DEF BlockAt
      <4> QED BY <1>1, <4>1, <4>4, WholeLines
    <3> QED BY <1>0, <3>1, <3>2, <3>3
  <2> QED BY <2>2, <2>3, WholeLines DEF WholeFile
<1> QED BY <1>3 DEF WholeFile, g

\* The file is whole, and so is every new version there is of it.
WholeInv == WholeFile(Content) /\ \A u \in Updaters : job[u] # NoJob => WholeFile(job[u].lines)

\* As long as no two updates of one name overlap, and if no name begins with
\* another, each name has at most one block in the file at every moment, and
\* that one complete (hosts.rs:51-63).
LEMMA WholeWhileApart == ASSUME Longer = {} PROVE Spec /\ []Apart => []WholeInv
<1>1. ASSUME Init PROVE WholeInv
  <2>1. Content \in Seq(UserLines) /\ Content \in Seq(Line)
    BY <1>1, TypesInit, ContentType
  <2>2. \A n \in Names : Unnamed(Content, n)
    BY <2>1, ElementOfSeq DEF Unnamed, Named, IsUser
  <2> QED BY <1>1, <2>1, <2>2, WholeLines DEF WholeInv, WholeFile, Init
<1>2. ASSUME TypeOK, WholeInv, [Promise!Next]_<<Content, job>> PROVE WholeInv'
  <2>1. Content \in Seq(Line) /\ DOMAIN Content = 1..Len(Content)
    BY <1>2, ContentType, LenProperties
  <2>2. job \in [Updaters -> [name : Names, lines : Seq(Line)] \cup {NoJob}]
    BY <1>2 DEF TypeOK
  <2>3. ASSUME NEW u \in Updaters, NEW n \in Names, NEW ip \in IPs, Promise!Make(u, n, ip)
        PROVE  WholeInv'
    <3>1. WholeFile(ReplaceOrAppend(Content, n, ip))
      BY <1>2, <2>1, ReplaceWhole DEF WholeInv
    <3>2. /\ job' = [job EXCEPT ![u] = [name |-> n, lines |-> ReplaceOrAppend(Content, n, ip)]]
          /\ Content' = Content
      BY <2>3 DEF Promise!Make
    <3>3. job'[u].lines = ReplaceOrAppend(Content, n, ip) /\ \A v \in Updaters \ {u} : job'[v] = job[v]
      BY <2>2, <3>2
    <3> QED BY <1>2, <3>1, <3>2, <3>3 DEF WholeInv
  <2>4. ASSUME NEW u \in Updaters, Promise!Commit(u) \/ Promise!GiveUp(u)
        PROVE  WholeInv'
    <3>1. /\ Content' = job[u].lines \/ Content' = Content
          /\ job[u] # NoJob /\ job' = [job EXCEPT ![u] = NoJob]
      BY <2>4 DEF Promise!Commit, Promise!GiveUp
    <3>2. \A v \in Updaters : job'[v] # NoJob => job'[v] = job[v]
      BY <2>2, <3>1
    <3> QED BY <1>2, <3>1, <3>2 DEF WholeInv
  <2>5. ASSUME NEW k \in DOMAIN Content, Promise!UserDeletes(k)
        PROVE  WholeInv'
    <3>1. IsUser(Content[k]) /\ Content' = RemoveAt(Content, k) /\ job' = job
      BY <2>5 DEF Promise!UserDeletes, Promise!RemoveAt, RemoveAt, IsUser
    <3>2. WholeFile(RemoveAt(Content, k))
      BY <1>2, <2>1, <3>1, DeleteWhole DEF WholeInv
    <3> QED BY <1>2, <3>1, <3>2 DEF WholeInv
  <2>6. CASE UNCHANGED <<Content, job>>
    BY <1>2, <2>6 DEF WholeInv
  <2> QED BY <1>2, <2>3, <2>4, <2>5, <2>6 DEF Promise!Next
<1>3. Init => Own
  BY InitRefines
<1>4. TypeOK /\ Apart /\ Own /\ [Next]_vars => Own' /\ [Promise!Next]_<<Content, job>>
  BY StepRefines
<1> QED BY <1>1, <1>2, <1>3, <1>4, TypeCorrect, PTL DEF Spec

\* So it is whenever no two processes update the block of one name: whatever
\* fails and whatever an earlier update has left behind.
THEOREM FileIsWhole == ASSUME Separate, Longer = {} PROVE Spec => []Whole
<1>1. TypeOK => Apart
  BY SeparateApart
<1>2. WholeInv => Whole
  BY DEF WholeInv, WholeFile, Whole
<1> QED BY <1>1, <1>2, TypeCorrect, WholeWhileApart, PTL

-----------------------------------------------------------------------------
(***************************************************************************)
(* What an update leaves alone.                                            *)
(***************************************************************************)

\* The new version is the old one with three lines of the name's replaced, or
\* with three lines more.
LEMMA InPlace ==
  ASSUME Longer = {}, NEW f \in Seq(Line), NEW n \in Names, WholeIn(f, n), NEW ip \in IPs
  PROVE  LET g == ReplaceOrAppend(f, n, ip)
         IN \E i \in 1..Len(f) + 1, k \in {0, 3} :
              /\ k = 0 => i = Len(f) + 1
              /\ \A j \in DOMAIN f : j \in i..i + k - 1 <=> ~IsUser(f[j]) /\ f[j].name = n
              /\ g = SubSeq(f, 1, i - 1) \o Block(n, ip) \o SubSeq(f, i + k, Len(f))
<1> DEFINE g == ReplaceOrAppend(f, n, ip)
           b == Block(n, ip)
           Placed(i, k) ==
             /\ k = 0 => i = Len(f) + 1
             /\ \A j \in DOMAIN f : j \in i..i + k - 1 <=> ~IsUser(f[j]) /\ f[j].name = n
             /\ g = SubSeq(f, 1, i - 1) \o b \o SubSeq(f, i + k, Len(f))
<1>0. Len(f) \in Nat /\ DOMAIN f = 1..Len(f) /\ b \in Seq(Line)
  BY LenProperties, BlockType
<1>1. CASE Unnamed(f, n)
  <2> DEFINE m == Len(f) + 1
  <2>1. m \in 1..Len(f) + 1 /\ m - 1 = Len(f) /\ m + 0 = m /\ m > Len(f) /\ m \in Nat
        /\ \A j \in 1..Len(f) : j \notin m..m + 0 - 1
    BY <1>0
  <2>2. g = f \o b
    BY <1>1, ReplaceLines
  <2>3. SubSeq(f, 1, Len(f)) = f /\ SubSeq(f, m, Len(f)) = <<>>
    <3>1. SubSeq(f, 1, Len(f)) = f
      BY SubSeqFull
    <3> QED BY <1>0, <2>1, <3>1, SubSeqEmpty
  <2>4. f \o b \o <<>> = f \o b
    <3>1. f \o b \in Seq(Line)
      BY <1>0, ConcatProperties
    <3> QED BY <3>1, ConcatEmptySeq
  <2>5. \A j \in 1..Len(f) : ~(~IsUser(f[j]) /\ f[j].name = n)
    BY <1>1 DEF Unnamed, Named
  <2> HIDE DEF m, g, b
  <2>6. Placed(m, 0)
    <3>1. SubSeq(f, 1, m - 1) = f /\ SubSeq(f, m + 0, Len(f)) = <<>>
      BY <2>1, <2>3
    <3>2. g = SubSeq(f, 1, m - 1) \o b \o SubSeq(f, m + 0, Len(f))
      BY <2>2, <2>4, <3>1
    <3> QED BY <1>0, <2>1, <2>5, <3>2 DEF m
  <2> QED BY <2>1, <2>6 DEF g, b
<1>2. ASSUME NEW i \in 1..Len(f) - 2, NEW old \in IPs, BlockAt(f, n, i, old)
      PROVE  \E i0 \in 1..Len(f) + 1, k \in {0, 3} : Placed(i0, k)
  <2>1. Find(f, "begin", n) = i /\ Find(f, "end", n) = i + 2
    BY <1>2, FindBlock
  <2>2. f[i + 2].name = n
    BY <1>2 DEF BlockAt
  <2>3. i # 0 /\ i + 2 # 0 /\ i \in 1..Len(f) + 1 /\ i + 3 = i + 2 + 1 /\ 3 # 0
        /\ \A j \in 1..Len(f) : j \in i..i + 3 - 1 <=> j \in {i, i + 1, i + 2}
        /\ \A l \in 1..Len(f) : l \in {i, i + 1, i + 2} \/ l < i \/ l > i + 2
    BY <1>0
  <2>4. g = SubSeq(f, 1, i - 1) \o b \o <<>> \o SubSeq(f, i + 2 + 1, Len(f))
    BY <2>1, <2>2, <2>3 DEF ReplaceOrAppend
  <2>5. \A j \in 1..Len(f) : j \in {i, i + 1, i + 2} <=> Named(f, n, j)
    <3>1. Named(f, n, i) /\ Named(f, n, i + 1) /\ Named(f, n, i + 2)
      BY <1>2, BlockNames
    <3> QED BY <1>2, <2>3, <3>1 DEF BlockAt
  <2> DEFINE s == SubSeq(f, 1, i - 1)
  <2>6. s \in Seq(Line)
    <3>1. i - 1 \in Nat /\ i - 1 <= Len(f)
      BY <1>0
    <3> QED BY <3>1, Slice
  <2>g. g = s \o b \o <<>> \o SubSeq(f, i + 2 + 1, Len(f))
    BY <2>4
  <2> HIDE DEF s, g, b
  <2>7. s \o b \o <<>> = s \o b
    <3>1. s \o b \in Seq(Line)
      BY <1>0, <2>6, ConcatProperties
    <3> QED BY <3>1, ConcatEmptySeq
  <2>8. g = s \o b \o SubSeq(f, i + 3, Len(f))
    BY <2>g, <2>3, <2>7
  <2>9. Placed(i, 3)
    BY <1>0, <2>3, <2>5, <2>8 DEF Named, s
  <2> QED BY <2>3, <2>9
<1> QED BY <1>1, <1>2, WholeLines

\* The second time it is the same.
LEMMA Idempotent ==
  ASSUME Longer = {}, NEW f \in Seq(Line), NEW n \in Names, WholeIn(f, n), NEW ip \in IPs
  PROVE  LET g == ReplaceOrAppend(f, n, ip) IN ReplaceOrAppend(g, n, ip) = g
<1> DEFINE g == ReplaceOrAppend(f, n, ip)
           h == ReplaceOrAppend(g, n, ip)
<1>1. g \in Seq(Line) /\ Len(g) \in Nat
  BY ReplaceType, LenProperties
<1>2. PICK i \in 1..Len(g) - 2 : BlockAt(g, n, i, ip)
  <2>0. Len(f) \in Nat
    BY LenProperties
  <2>1. CASE Unnamed(f, n)
    <3>1. g = f \o Block(n, ip)
      BY <2>1, ReplaceLines
    <3>2. BlockAt(g, n, Len(f) + 1, ip)
      BY <2>1, <3>1, AppendLines
    <3> QED BY <3>2 DEF BlockAt
  <2>2. ASSUME NEW i \in 1..Len(f) - 2, NEW old \in IPs, BlockAt(f, n, i, old)
        PROVE  \E j \in 1..Len(g) - 2 : BlockAt(g, n, j, ip)
    <3>1. BlockAt(g, n, i, ip)
      BY <2>2, ReplacedBlock
    <3> QED BY <3>1 DEF BlockAt
  <2> QED BY <2>1, <2>2, WholeLines
<1> HIDE DEF g
<1>3. /\ Len(h) = Len(g)
      /\ \A j \in 1..Len(g) : h[j] = IF j = i + 1
                                     THEN [kind |-> "entry", name |-> n, ip |-> ip] ELSE g[j]
  BY <1>1, <1>2, ReplaceLines
<1>4. g[i + 1] = [kind |-> "entry", name |-> n, ip |-> ip]
  BY <1>2 DEF BlockAt
<1>5. h \in Seq(Line)
  BY <1>1, ReplaceType
<1> HIDE DEF h
<1>6. \A j \in 1..Len(h) : h[j] = g[j]
  BY <1>3, <1>4
<1>7. h = g
  BY <1>1, <1>3, <1>5, <1>6, SeqEqual
<1> QED BY <1>7 DEF g, h

\* If no two processes update the block of one name, and no name begins with
\* another, then of any file there can be an update changes just the lines of
\* its name, where they are, and does nothing the second time
\* (replace_or_append, hosts.rs:70-98).
THEOREM UpdatesAreInPlace == ASSUME Separate, Longer = {} PROVE Spec => []UpdateInPlace
<1>1. TypeOK /\ WholeInv => UpdateInPlace
  <2> SUFFICES ASSUME TypeOK, WholeInv PROVE UpdateInPlace
    OBVIOUS
  <2>1. Content \in Seq(Line) /\ \A n \in Names : WholeIn(Content, n)
    BY ContentType DEF WholeInv, WholeFile
  <2> QED BY <2>1, InPlace, Idempotent DEF UpdateInPlace
<1>2. TypeOK => Apart
  BY SeparateApart
<1> QED BY <1>1, <1>2, TypeCorrect, WholeWhileApart, PTL

\* An update leaves every line outside its name's block.
LEMMA ReplaceRest ==
  ASSUME Longer = {}, NEW f \in Seq(Line), NEW n \in Names, WholeIn(f, n), NEW ip \in IPs
  PROVE  Rest(ReplaceOrAppend(f, n, ip), n) = Rest(f, n)
<1> DEFINE g == ReplaceOrAppend(f, n, ip)
<1>1. /\ Len(f) \in Nat /\ DOMAIN f = 1..Len(f)
      /\ Len(g) \in Nat /\ DOMAIN g = 1..Len(g)
  <2>1. g \in Seq(Line)
    BY ReplaceType
  <2> QED BY <2>1, LenProperties
<1>2. /\ Len(g) >= Len(f)
      /\ \A j \in 1..Len(f) : ~Named(f, n, j) => g[j] = f[j]
      /\ \A j \in 1..Len(f) : ~Named(g, n, j) => g[j] = f[j]
      /\ \A j \in 1..Len(g) : j > Len(f) => Named(g, n, j)
  <2>1. CASE Unnamed(f, n)
    <3>1. g = f \o Block(n, ip)
      BY <2>1, ReplaceLines
    <3>2. /\ Len(g) = Len(f) + 3
          /\ \A j \in 1..Len(f) : g[j] = f[j]
          /\ BlockAt(g, n, Len(f) + 1, ip)
      <4> HIDE DEF g
      <4> QED BY <2>1, <3>1, AppendLines
    <3>3. Named(g, n, Len(f) + 1) /\ Named(g, n, Len(f) + 1 + 1) /\ Named(g, n, Len(f) + 1 + 2)
      <4>1. g \in Seq(Line)
        BY ReplaceType
      <4> QED BY <3>2, <4>1, BlockNames
    <3> HIDE DEF g
    <3>4. \A j \in 1..Len(g) : j > Len(f) => j \in {Len(f) + 1, Len(f) + 1 + 1, Len(f) + 1 + 2}
      BY <1>1, <3>2
    <3> QED BY <1>1, <3>2, <3>3, <3>4
  <2>2. ASSUME NEW i \in 1..Len(f) - 2, NEW old \in IPs, BlockAt(f, n, i, old)
        PROVE  <1>2!1 /\ <1>2!2 /\ <1>2!3 /\ <1>2!4
    <3>1. /\ Len(g) = Len(f)
          /\ \A j \in 1..Len(f) : g[j] = IF j = i + 1
                                         THEN [kind |-> "entry", name |-> n, ip |-> ip] ELSE f[j]
      BY <2>2, ReplaceLines
    <3>2. /\ \A j \in 1..Len(f) : Named(g, n, j) <=> Named(f, n, j)
          /\ Named(f, n, i + 1)
      BY <2>2, ReplacedBlock
    <3> HIDE DEF g
    <3> QED BY <1>1, <3>1, <3>2
  <2> QED BY <2>1, <2>2, WholeLines
<1> HIDE DEF g
<1>3. /\ Rest(f, n) = {f[j] : j \in {i \in 1..Len(f) : ~Named(f, n, i)}}
      /\ Rest(g, n) = {g[j] : j \in {i \in 1..Len(g) : ~Named(g, n, i)}}
  BY <1>1 DEF Rest, Named
<1>4. ASSUME NEW j \in 1..Len(f), ~Named(f, n, j) PROVE j \in 1..Len(g) /\ g[j] = f[j] /\ ~Named(g, n, j)
  BY <1>1, <1>2, <1>4 DEF Named
<1>5. ASSUME NEW j \in 1..Len(g), ~Named(g, n, j) PROVE j \in 1..Len(f) /\ g[j] = f[j] /\ ~Named(f, n, j)
  <2>1. j \in 1..Len(f)
    BY <1>1, <1>2, <1>5
  <2> QED BY <1>2, <1>5, <2>1 DEF Named
<1> QED BY <1>3, <1>4, <1>5 DEF g

\* The user's deletion takes away a line of theirs, and brings none.
LEMMA DeleteRest ==
  ASSUME NEW f \in Seq(Line), NEW k \in 1..Len(f), IsUser(f[k]), NEW n \in Names
  PROVE  /\ Rest(RemoveAt(f, k), n) \subseteq Rest(f, n)
         /\ Rest(f, n) \ Rest(RemoveAt(f, k), n) \subseteq UserLines
<1> DEFINE g == RemoveAt(f, k)
<1>1. g \in Seq(Line) /\ Len(g) = Len(f) - 1 /\ Len(f) \in Nat
  BY DeleteLines, LenProperties
<1>2. \A j \in 1..Len(f) - 1 : g[j] = IF j < k THEN f[j] ELSE f[j + 1]
  BY DeleteLines
<1> HIDE DEF g
<1>3. DOMAIN f = 1..Len(f) /\ DOMAIN g = 1..Len(g)
  BY <1>1, LenProperties
<1>4. ASSUME NEW x \in Rest(g, n) PROVE x \in Rest(f, n)
  <2>1. PICK j \in 1..Len(f) - 1 : x = g[j] /\ (IsUser(g[j]) \/ g[j].name # n)
    BY <1>1, <1>3 DEF Rest
  <2>2. CASE j < k
    BY <1>1, <1>2, <1>3, <2>1, <2>2 DEF Rest
  <2>3. CASE ~(j < k)
    <3>1. j + 1 \in 1..Len(f) /\ x = f[j + 1]
      BY <1>1, <1>2, <2>1, <2>3
    <3> QED BY <1>3, <2>1, <3>1 DEF Rest
  <2> QED BY <2>2, <2>3
<1>5. ASSUME NEW x \in Rest(f, n), x \notin UserLines PROVE x \in Rest(g, n)
  <2>1. PICK j \in 1..Len(f) : x = f[j] /\ (IsUser(f[j]) \/ f[j].name # n)
    BY <1>3 DEF Rest
  <2>2. j # k
    BY <1>5, <2>1 DEF IsUser
  <2>3. CASE j < k
    <3>1. j \in 1..Len(f) - 1 /\ g[j] = f[j]
      BY <1>1, <1>2, <2>3
    <3> QED BY <1>1, <1>3, <2>1, <3>1 DEF Rest
  <2>4. CASE j > k
    <3>1. j - 1 \in 1..Len(f) - 1 /\ ~(j - 1 < k) /\ j - 1 + 1 = j
      BY <1>1, <2>4
    <3>2. g[j - 1] = f[j]
      BY <1>2, <3>1
    <3> QED BY <1>1, <1>3, <2>1, <3>1, <3>2 DEF Rest
  <2> QED BY <1>1, <2>2, <2>3, <2>4
<1> QED BY <1>4, <1>5 DEF g

\* Updates do not overlap.
Alone == \A u, v \in Updaters : job[u] # NoJob /\ job[v] # NoJob => u = v

\* The new version an update has is the file, but for the lines of its name
\* and those the user has deleted since it was read.
Fresh ==
  \A u \in Updaters : job[u] # NoJob =>
    LET old == Rest(Content, job[u].name)
        new == Rest(job[u].lines, job[u].name)
    IN old \subseteq new /\ new \ old \subseteq UserLines

LEMMA FreshStep ==
  ASSUME TypeOK, WholeInv, Alone, Alone', Longer = {}, Fresh, [Promise!Next]_<<Content, job>>
  PROVE  Fresh'
<1>1. Content \in Seq(Line) /\ DOMAIN Content = 1..Len(Content)
  BY ContentType, LenProperties
<1>2. job \in [Updaters -> [name : Names, lines : Seq(Line)] \cup {NoJob}]
  BY DEF TypeOK
<1>3. ASSUME NEW u \in Updaters, NEW n \in Names, NEW ip \in IPs, Promise!Make(u, n, ip)
      PROVE  Fresh'
  <2> DEFINE g == ReplaceOrAppend(Content, n, ip)
  <2>1. job' = [job EXCEPT ![u] = [name |-> n, lines |-> g]] /\ Content' = Content
    BY <1>3 DEF Promise!Make
  <2>2. Rest(g, n) = Rest(Content, n)
    BY <1>1, ReplaceRest DEF WholeInv, WholeFile
  <2> HIDE DEF g
  <2>3. job'[u].name = n /\ job'[u].lines = g /\ job'[u] # NoJob
    BY <1>2, <2>1, HostsFileAssumption
  <2>4. \A v \in Updaters : job'[v] # NoJob => v = u
    BY <2>3 DEF Alone
  <2> QED BY <2>1, <2>2, <2>3, <2>4 DEF Fresh
<1>4. ASSUME NEW u \in Updaters, Promise!Commit(u) \/ Promise!GiveUp(u)
      PROVE  Fresh'
  <2>1. job[u] # NoJob /\ job' = [job EXCEPT ![u] = NoJob]
    BY <1>4 DEF Promise!Commit, Promise!GiveUp
  <2>2. \A v \in Updaters : job'[v] = NoJob
    BY <1>2, <2>1 DEF Alone
  <2> QED BY <2>2 DEF Fresh
<1>5. ASSUME NEW k \in DOMAIN Content, Promise!UserDeletes(k)
      PROVE  Fresh'
  <2>1. IsUser(Content[k]) /\ Content' = RemoveAt(Content, k) /\ job' = job
    BY <1>5 DEF Promise!UserDeletes, Promise!RemoveAt, RemoveAt, IsUser
  <2>2. ASSUME NEW u \in Updaters, job[u] # NoJob
        PROVE  LET old == Rest(Content', job[u].name)
                   new == Rest(job[u].lines, job[u].name)
               IN old \subseteq new /\ new \ old \subseteq UserLines
    <3>1. job[u].name \in Names
      BY <1>2, <2>2
    <3>2. /\ Rest(Content', job[u].name) \subseteq Rest(Content, job[u].name)
          /\ Rest(Content, job[u].name) \ Rest(Content', job[u].name) \subseteq UserLines
      BY <1>1, <2>1, <3>1, DeleteRest
    <3> QED BY <2>2, <3>2 DEF Fresh
  <2> QED BY <2>1, <2>2 DEF Fresh
<1>6. CASE UNCHANGED <<Content, job>>
  BY <1>6 DEF Fresh
<1> QED BY <1>3, <1>4, <1>5, <1>6 DEF Promise!Next

\* Renaming puts the new version into place.
LEMMA RenamePuts ==
  ASSUME TypeOK, Own, NEW u \in Updaters, Rename(u)
  PROVE  Content' = job[u].lines /\ job[u] # NoJob
<1> DEFINE i == dir[Tmp(u)]
<1>1. /\ pc[u] = "rename" /\ i # NoFile
      /\ dir' = [dir EXCEPT ![Hosts] = i, ![Tmp(u)] = NoFile]
  BY DEF Rename
<1>2. /\ Tmp(u) \in Paths /\ Tmp(u) # Hosts /\ Hosts \in Paths /\ job[u] # NoJob
  BY <1>1, JobType DEF Paths
<1>3. i \in Inodes /\ i # dir[Hosts] /\ disk[i] = job[u].lines
  BY <1>1, <1>2 DEF Own, OneInode, OwnFile, TypeOK
<1>4. disk'[i] = disk[i]
  BY <1>3 DEF Rename
<1>5. dir'[Hosts] = i
  BY <1>1, <1>2 DEF TypeOK
<1> QED BY <1>1, <1>2, <1>3, <1>4, <1>5 DEF Content

\* As long as no two updates overlap, as with one client process, and if no
\* name begins with another, "subsequent updates replace only this block"
\* (README.md:112-113), whatever fails and whatever the user does meanwhile.
THEOREM OthersAreLeftAlone ==
  ASSUME Longer = {} PROVE Spec /\ []Alone => OnlyItsBlock
<1>1. Init => Fresh
  BY DEF Init, Fresh
<1>2. Init => Own
  BY InitRefines
<1>3. Alone => Apart
  BY DEF Alone, Apart
<1>4. TypeOK /\ Apart /\ Own /\ [Next]_vars => Own' /\ [Promise!Next]_<<Content, job>>
  BY StepRefines
<1>5. TypeOK /\ WholeInv /\ Alone /\ Alone' /\ Fresh /\ [Promise!Next]_<<Content, job>> => Fresh'
  BY FreshStep
<1> DEFINE Spares == \A u \in Updaters : Rename(u) =>
                       LET old == Rest(Content, job[u].name)
                           new == Rest(Content', job[u].name)
                       IN old \subseteq new /\ new \ old \subseteq UserLines
<1>6. TypeOK /\ Own /\ Fresh /\ [Next]_vars => [Spares]_vars
  BY RenamePuts DEF Fresh
<1>7. OnlyItsBlock <=> [][Spares]_vars
  BY DEF OnlyItsBlock
<1> HIDE DEF Spares
<1> QED BY <1>1, <1>2, <1>3, <1>4, <1>5, <1>6, <1>7, TypeCorrect, WholeWhileApart, PTL DEF Spec
=============================================================================
