------------------------------- MODULE HostsFile -------------------------------
(***************************************************************************)
(* The hosts file (client/src/hosts.rs): client processes that keep one    *)
(* block each in a file they share with the machine's user.  Every update  *)
(* reads the file, writes the new version to a temporary file and renames  *)
(* that over the old one.  The file is a sequence of lines; the markers    *)
(* are found as substrings, so the marker of a name is also found in the   *)
(* marker of a name that begins with it.                                   *)
(***************************************************************************)
EXTENDS Naturals, Sequences, FiniteSets, SequencesExt

CONSTANTS Updaters,   \* client processes
          Names,      \* hostnames of servers
          Serves,     \* updater -> the names its server has had
          Longer,     \* pairs <<m, n>>: name n begins with, and is longer than, m
          IPs,
          UserLines,  \* the user's own lines
          MaxFiles    \* bound: inodes, the hosts file's and the temporary files'

\* Paths and inodes; no path, and no inode.
Hosts == "hosts"
Paths == {Hosts} \cup Names
Inodes == 1..MaxFiles
NoFile == 0

BlockLine == [kind : {"begin", "end", "rest"}, name : Names]
               \cup [kind : {"entry"}, name : Names, ip : IPs]
Line == BlockLine \cup UserLines

IsUser(line) == line \in UserLines

NoJob == [name |-> "none", lines |-> <<>>]

ASSUME HostsFileAssumption ==
  /\ Serves \in [Updaters -> SUBSET Names]
  /\ Longer \subseteq {p \in Names \X Names : p[1] # p[2]}
  /\ MaxFiles \in Nat \ {0}
  /\ Hosts \notin Names /\ NoJob.name \notin Names
  /\ IsFiniteSet(UserLines) /\ BlockLine \cap UserLines = {}

VARIABLES disk,  \* inode -> the lines in it
          dir,   \* path -> its inode, or NoFile
          pc,    \* updater -> where update_hosts_entry is
          job,   \* updater -> the name to be updated, and the new content
          fd     \* updater -> the inode it has open

vars == <<disk, dir, pc, job, fd>>

\* Types; an update has a file open just while it writes it (hosts.rs:54-62),
\* and has its name and its new content for as long as it runs.
TypeOK ==
  /\ disk \in [Inodes -> Seq(Line)]
  /\ dir \in [Paths -> Inodes \cup {NoFile}]
  /\ pc \in [Updaters -> {"idle", "open", "write", "rename"}]
  /\ fd \in [Updaters -> Inodes \cup {NoFile}]
  /\ job \in [Updaters -> [name : Names, lines : Seq(Line)] \cup {NoJob}]
  /\ \A u \in Updaters :
       /\ fd[u] # NoFile <=> pc[u] = "write"
       /\ IF pc[u] = "idle" THEN job[u] = NoJob ELSE job[u].name \in Serves[u]

\* read_to_string, or "" for a file that is not there.
Content == IF dir[Hosts] = NoFile THEN <<>> ELSE disk[dir[Hosts]]

-----------------------------------------------------------------------------
\* replace_or_append.

Block(n, ip) == << [kind |-> "begin", name |-> n],
                   [kind |-> "entry", name |-> n, ip |-> ip],
                   [kind |-> "end", name |-> n] >>

\* The marker of n of this kind is found on the line.
Marks(line, kind, n) ==
  /\ ~IsUser(line) /\ line.kind = kind
  /\ line.name = n \/ <<n, line.name>> \in Longer

\* Where find() first meets it; 0 for None.
Find(f, kind, n) == SelectInSeq(f, LAMBDA line : Marks(line, kind, n))

\* Mutant: the old block is taken out and the new one appended.
RemoveAndAppend(f, n, ip) ==
  LET start == Find(f, "begin", n)
      stop  == Find(f, "end", n)
  IN IF start # 0 /\ stop # 0
     THEN SubSeq(f, 1, start - 1) \o SubSeq(f, stop + 1, Len(f)) \o Block(n, ip)
     ELSE f \o Block(n, ip)

\* From the first begin marker to the first end marker everything is replaced.
\* What follows the end marker on its line stays, on a line of its own.
ReplaceOrAppend(f, n, ip) ==
  LET start == Find(f, "begin", n)
      stop  == Find(f, "end", n)
      rest  == IF f[stop].name = n THEN <<>> ELSE << [kind |-> "rest", name |-> f[stop].name] >>
  IN IF start # 0 /\ stop # 0
     THEN SubSeq(f, 1, start - 1) \o Block(n, ip) \o rest \o SubSeq(f, stop + 1, Len(f))
     ELSE f \o Block(n, ip)

-----------------------------------------------------------------------------
\* update_hosts_entry, call by call.

\* An ip_update for n arrives: the file is read and the new content made.
Read(u, n, ip) ==
  /\ pc[u] = "idle"
  /\ n \in Serves[u]
  /\ pc' = [pc EXCEPT ![u] = "open"]
  /\ job' = [job EXCEPT ![u] = [name |-> n, lines |-> ReplaceOrAppend(Content, n, ip)]]
  /\ UNCHANGED <<disk, dir, fd>>

\* Mutant: as if the temporary file had the same name for every host.
OneTmp(u) == CHOOSE n \in Names : TRUE

\* The temporary file is named after the hostname, not after the process.
Tmp(u) == job[u].name

Unused(i) == (\A p \in Paths : dir[p] # i) /\ (\A u \in Updaters : fd[u] # i)

\* Mutant: open without truncate.
Kept(lines) == lines

\* What open with truncate leaves of a file.
Truncated(lines) == <<>>

\* A temporary file left behind is used again.
OpenTmp(u) ==
  /\ pc[u] = "open"
  /\ \E i \in Inodes :
       /\ IF dir[Tmp(u)] # NoFile THEN i = dir[Tmp(u)]
          ELSE Unused(i) /\ \A j \in 1..i - 1 : ~Unused(j)
       /\ disk' = [disk EXCEPT ![i] = Truncated(@)]
       /\ dir' = [dir EXCEPT ![Tmp(u)] = i]
       /\ fd' = [fd EXCEPT ![u] = i]
  /\ pc' = [pc EXCEPT ![u] = "write"]
  /\ UNCHANGED job

\* The first n lines are written over whatever the file holds.
Put(u, n) ==
  disk' = [disk EXCEPT ![fd[u]] = SubSeq(job[u].lines, 1, n) \o SubSeq(@, n + 1, Len(@))]

\* Mutant: the file is not closed before it is renamed.
WriteAndKeepOpen(u) ==
  /\ pc[u] = "write"
  /\ Put(u, Len(job[u].lines))
  /\ pc' = [pc EXCEPT ![u] = "rename"]
  /\ UNCHANGED <<dir, job, fd>>

\* write_all, flush and close.
WriteTmp(u) ==
  /\ pc[u] = "write"
  /\ Put(u, Len(job[u].lines))
  /\ fd' = [fd EXCEPT ![u] = NoFile]
  /\ pc' = [pc EXCEPT ![u] = "rename"]
  /\ UNCHANGED <<dir, job>>

\* update_hosts_entry is left, the process going on or not.
Return(u) ==
  /\ pc' = [pc EXCEPT ![u] = "idle"]
  /\ job' = [job EXCEPT ![u] = NoJob]
  /\ fd' = [fd EXCEPT ![u] = NoFile]

\* rename succeeds: the new version is the file, and nobody has the old one.
Rename(u) ==
  /\ pc[u] = "rename"
  /\ dir[Tmp(u)] # NoFile
  /\ dir' = [dir EXCEPT ![Hosts] = dir[Tmp(u)], ![Tmp(u)] = NoFile]
  /\ Return(u)
  /\ disk' = [i \in Inodes |-> IF i = dir[Hosts] /\ \A v \in Updaters : fd[v] # i
                               THEN <<>> ELSE disk[i]]

\* A call fails, or the process dies.  Bound: a file that is left incomplete
\* is left half written.  (A rename also fails when another process has moved
\* the temporary file.)
Abandon(u) ==
  /\ pc[u] # "idle"
  /\ \/ UNCHANGED disk
     \/ pc[u] = "write" /\ Put(u, Len(job[u].lines) \div 2)
  /\ Return(u)
  /\ UNCHANGED dir

\* The user deletes a line of theirs with an editor, at any moment.
UserDeletes(i) ==
  /\ IsUser(Content[i])
  /\ disk' = [disk EXCEPT ![dir[Hosts]] = RemoveAt(@, i)]
  /\ UNCHANGED <<dir, pc, job, fd>>

-----------------------------------------------------------------------------
Init ==
  /\ \E i \in {NoFile, 1}, f \in SetToAllKPermutations(UserLines) :
       /\ i = NoFile => f = <<>>
       /\ disk = [j \in Inodes |-> IF j = i THEN f ELSE <<>>]
       /\ dir = [p \in Paths |-> IF p = Hosts THEN i ELSE NoFile]
  /\ pc = [u \in Updaters |-> "idle"]
  /\ job = [u \in Updaters |-> NoJob]
  /\ fd = [u \in Updaters |-> NoFile]

Update(u) ==
  \/ \E n \in Names, ip \in IPs : Read(u, n, ip)
  \/ OpenTmp(u) \/ WriteTmp(u) \/ Rename(u) \/ Abandon(u)

Next == (\E u \in Updaters : Update(u)) \/ (\E i \in 1..Len(Content) : UserDeletes(i))

Spec == Init /\ [][Next]_vars

-----------------------------------------------------------------------------
\* The lines of f outside the blocks of name n.
Rest(f, n) == {f[j] : j \in {i \in DOMAIN f : IsUser(f[i]) \/ f[i].name # n}}

\* n has no line in f, or one block and nothing else.
WholeIn(f, n) ==
  \/ \A j \in DOMAIN f : IsUser(f[j]) \/ f[j].name # n
  \/ \E i \in 1..Len(f) - 2, ip \in IPs :
       /\ SubSeq(f, i, i + 2) = Block(n, ip)
       /\ \A j \in DOMAIN f \ (i..i + 2) : IsUser(f[j]) \/ f[j].name # n

\* The file is whole at every moment: each name has at most one block, and
\* that one complete, whatever call failed, in whatever order two processes'
\* calls came, and whatever an earlier update has left behind
\* (update_hosts_entry, hosts.rs:51-63).
Whole == \A n \in Names : WholeIn(Content, n)

\* "The function is atomic on Linux/macOS" (hosts.rs:33): the file changes only
\* as module AtomicFile says, whatever fails and whoever else is at work on it.
Promise == INSTANCE AtomicFile WITH file <- Content, Edited <- ReplaceOrAppend
Atomic == Promise!Spec

\* Of any file there can be, replace_or_append replaces the three lines of its
\* name's block by the new block, or appends that when the name has no line;
\* every other line stays, in its order, and the second time nothing changes.
UpdateInPlace ==
  \A n \in Names, ip \in IPs :
    LET f == Content
        g == ReplaceOrAppend(f, n, ip)
    IN /\ \E i \in 1..Len(f) + 1, k \in {0, 3} :
            /\ k = 0 => i = Len(f) + 1
            /\ \A j \in DOMAIN f : j \in i..i + k - 1 <=> ~IsUser(f[j]) /\ f[j].name = n
            /\ g = SubSeq(f, 1, i - 1) \o Block(n, ip) \o SubSeq(f, i + k, Len(f))
       /\ ReplaceOrAppend(g, n, ip) = g

\* "Subsequent updates replace only this block, leaving the rest of the file
\* untouched" (README.md:112-113): renaming the new version into place takes no
\* line away but those of the name that was updated, and brings none but those
\* and a line the user deleted while the update ran.
OnlyItsBlock ==
  [][\A u \in Updaters : Rename(u) =>
       LET old == Rest(Content, job[u].name)
           new == Rest(Content', job[u].name)
       IN old \subseteq new /\ new \ old \subseteq UserLines]_vars
=============================================================================
