------------------------------ MODULE Replication ------------------------------
(***************************************************************************)
(* What dnsless promises about addresses, without server, connections or   *)
(* failures: the address changes form a log, and every hosts file holds an *)
(* entry of that log, or nothing yet.  A hosts file only moves forward: it *)
(* may miss changes, but it never shows an address that was not announced, *)
(* never goes back, and is never rewritten for a change it already shows.  *)
(***************************************************************************)
EXTENDS Naturals, Sequences

CONSTANTS Clients, IPs, NoIp

VARIABLES log,     \* the addresses announced, oldest first
          replica  \* client -> the address it shows, and its place in the log

repVars == <<log, replica>>

RepInit ==
  /\ log = <<>>
  /\ replica = [c \in Clients |-> [ip |-> NoIp, ver |-> 0]]

Publish(ip) ==
  /\ log' = Append(log, ip)
  /\ UNCHANGED replica

Deliver(c, v) ==
  /\ v > replica[c].ver
  /\ replica' = [replica EXCEPT ![c] = [ip |-> log[v], ver |-> v]]
  /\ UNCHANGED log

RepNext ==
  \/ \E ip \in IPs : Publish(ip)
  \/ \E c \in Clients, v \in DOMAIN log : Deliver(c, v)

RepSpec == RepInit /\ [][RepNext]_repVars

-----------------------------------------------------------------------------
\* What a hosts file shows is an entry of the log, or nothing yet.
Consistent ==
  \A c \in Clients :
    /\ replica[c].ver \in 0..Len(log)
    /\ replica[c].ip = IF replica[c].ver = 0 THEN NoIp ELSE log[replica[c].ver]

\* The log only grows, and a hosts file only goes on in it.
Forward ==
  [][/\ Len(log') >= Len(log) /\ \A v \in DOMAIN log : log'[v] = log[v]
     /\ \A c \in Clients : replica'[c].ver >= replica[c].ver]_repVars
=============================================================================
