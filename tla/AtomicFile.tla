------------------------------ MODULE AtomicFile -------------------------------
(***************************************************************************)
(* What update_hosts_entry promises of the hosts file ("atomic",           *)
(* client/src/hosts.rs:33), without temporary files, inodes or failing     *)
(* calls: an update makes a new version of the file as it is at one moment *)
(* and, at a later one, puts all of it into place or nothing.  It is no    *)
(* promise that the file has not changed in between: of two updates that   *)
(* overlap, the later undoes the earlier one's block, and an edit of the   *)
(* user's.                                                                 *)
(***************************************************************************)
EXTENDS Sequences, SequencesExt

CONSTANTS Updaters, Names, IPs, UserLines,
          NoJob,
          Edited(_, _, _)  \* the version made of a file for a name and its address

VARIABLES file,  \* the lines of the hosts file
          job    \* updater -> the name it updates and its new version, or NoJob

Init == job = [u \in Updaters |-> NoJob]

Make(u, n, ip) ==
  /\ job[u] = NoJob
  /\ job' = [job EXCEPT ![u] = [name |-> n, lines |-> Edited(file, n, ip)]]
  /\ UNCHANGED file

Commit(u) ==
  /\ job[u] # NoJob
  /\ file' = job[u].lines
  /\ job' = [job EXCEPT ![u] = NoJob]

GiveUp(u) ==
  /\ job[u] # NoJob
  /\ job' = [job EXCEPT ![u] = NoJob]
  /\ UNCHANGED file

UserDeletes(i) ==
  /\ file[i] \in UserLines
  /\ file' = RemoveAt(file, i)
  /\ UNCHANGED job

Next ==
  \/ \E u \in Updaters :
       \/ \E n \in Names, ip \in IPs : Make(u, n, ip)
       \/ Commit(u) \/ GiveUp(u)
  \/ \E i \in DOMAIN file : UserDeletes(i)

Spec == Init /\ [][Next]_<<file, job>>
=============================================================================
