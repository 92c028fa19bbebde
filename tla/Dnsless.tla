-------------------------------- MODULE Dnsless --------------------------------
(***************************************************************************)
(* The server, its clients and the connections between them.               *)
(***************************************************************************)
EXTENDS Server, Client

CONSTANT Stalled  \* clients whose process may stop running, without ending

ASSUME StalledAssumption == Stalled \subseteq Clients

vars == <<tcpVars, serverVars, clientVars>>

Init == TcpInit /\ ServerInit /\ ClientInit

Network ==
  \E k \in Conn : GiveUp(k) \/ \E n \in 0..Buffer : Sever(k, n)

Next ==
  \/ ServerNext /\ UNCHANGED clientVars
  \/ ClientNext /\ UNCHANGED serverVars
  \/ Network    /\ UNCHANGED <<serverVars, clientVars>>

Spec == Init /\ [][Next]_vars

-----------------------------------------------------------------------------
(***************************************************************************)
(* Fairness.  Threads that can run do run, and a kernel that holds lines   *)
(* nobody will read gives up in the end.  The accept thread needs strong   *)
(* fairness: the mutex it waits for is free only between broadcasts.  A    *)
(* dead server is started again.  A stalled client need not take a step,   *)
(* and no failure and no change of address has to happen.                  *)
(***************************************************************************)
Fairness ==
  /\ WF_vars(MainThread /\ UNCHANGED clientVars)
  /\ WF_vars(ServerStart /\ UNCHANGED clientVars)
  /\ \A k \in Conn : /\ SF_vars(Register(k) /\ UNCHANGED clientVars)
                     /\ WF_vars(GiveUp(k) /\ UNCHANGED <<serverVars, clientVars>>)
  /\ \A c \in Clients \ Stalled :
       WF_vars(ClientStep(c) /\ UNCHANGED <<serverVars, faults>>)

FairSpec == Spec /\ Fairness

-----------------------------------------------------------------------------
(***************************************************************************)
(* Safety.                                                                 *)
(***************************************************************************)
\* The types of all variables, of the kernels, the server and the clients.
TypeOK == TcpTypeOK /\ ServerTypeOK /\ ClientTypeOK

\* Lines c has parsed or can still parse on its connection, from the last
\* one it parsed on.
Stream(c) ==
  IF msg[c] = NoMessage THEN chan[Current(c)]
                        ELSE <<msg[c]>> \o chan[Current(c)]

\* n may come right after m: an announcement follows everything up to the one
\* before it, and no other line skips one.
Follows(m, n) == n.ver = IF n.type = "ip_update" THEN m.ver + 1 ELSE m.ver

\* A client that is connected misses no announcement: on one connection the
\* lines carry consecutive announcements, whatever was severed, whoever else
\* was dropped from the list meanwhile, and however often heartbeats came in
\* between (broadcast, lib.rs:65-73; handle_stream, lib.rs:34-100).
NoGap ==
  \A c \in Clients : sock[c] # 0 =>
    \A i \in 1..Len(Stream(c)) - 1 : Follows(Stream(c)[i], Stream(c)[i + 1])

\* Nobody on the list is left out: a registered connection that still carries
\* everything written to it, and has carried anything, ends with the newest
\* announcement, or with the one before while the broadcast still owes it.
NobodyForgotten ==
  \A c \in Clients :
    LET k == Current(c) IN
    (k \in Registered /\ stuck[k] = 0 /\ Stream(c) # <<>>) =>
      Stream(c)[Len(Stream(c))].ver = Written(k)

\* What a client has yet to apply is newer than what its hosts file shows, on
\* whatever connection and after whatever failure: a reconnected client is
\* never sent an announcement its previous connection delivered.
OnlyNews ==
  \A c \in Clients :
    /\ cpc[c] = "apply" => msg[c].ver > hosts[c].ver
    /\ sock[c] # 0 => \A i \in 1..Len(chan[Current(c)]) :
         chan[Current(c)][i].type = "ip_update" => chan[Current(c)][i].ver > hosts[c].ver

\* The server takes a client off its list only when it has lost it: one whose
\* connection works stays on it for as long as the server runs, however slowly
\* it reads, whoever else fails, and whatever becomes of its earlier connections
\* (server/src/lib.rs:65-73).
LiveKept ==
  [][\A k \in Registered \ cut : (Held(k) /\ listening') => k \in Registered']_vars

\* The system keeps the promise of module Replication.
Abstract == INSTANCE Replication WITH log <- announced, replica <- hosts
Replicates == Abstract!RepSpec

-----------------------------------------------------------------------------
(***************************************************************************)
(* The inductive invariant that NoGap, NobodyForgotten, OnlyNews and       *)
(* Replicates rest on, in named parts (proved in module DnslessProofs).    *)
(***************************************************************************)

\* broadcast's two lists hold each open connection once, and only a broadcast
\* has any left to visit; there is something to announce when it is due.
ListOK ==
  /\ IsInjective(clients) /\ IsInjective(todo)
  /\ Range(clients) \cap Range(todo) = {}
  /\ Registered \subseteq serverEnd
  /\ todo # <<>> => spc \in {"announcing", "beating"}
  /\ spc \in {"announce", "announcing"} => announced # <<>>

\* What is left of a connection when one of its ends, or both, are closed, and
\* what a connection is before the accept thread has seen it.
ConnOK(k) ==
  /\ ~Held(k) => (chan[k] = <<>> /\ k \notin cut)
  /\ k \notin serverEnd => stuck[k] = 0
  /\ (Held(k) /\ k \notin cut) => stuck[k] = 0
  /\ k \in serverEnd \ Registered =>
       (chan[k] = <<>> /\ stuck[k] = 0 /\ (Held(k) => msg[k[1]] = NoMessage))

\* A client has a connection, and a message from it, just while it reads.
EndsOK ==
  /\ \A c \in Clients :
       /\ (sock[c] # 0) <=> (cpc[c] \in {"read", "apply"})
       /\ sock[c] = 0 => msg[c] = NoMessage
  /\ \A k \in Conn : ConnOK(k)

\* A line tells the truth: its ver is one its connection has been sent, and an
\* ip_update carries the address of that announcement.
Truthful(m, k) ==
  /\ m.ver <= Written(k)
  /\ m.type = "ip_update" => (m.ver \in DOMAIN announced /\ m.ip = announced[m.ver])

\* n comes later than m on a connection.
Later(m, n) == m.ver <= n.ver /\ (n.type = "ip_update" => m.ver < n.ver)

\* The lines in the channel of c's connection: truthful, news to the hosts
\* file, in order, each following the one before.
ChanOK(c) ==
  LET s == chan[Current(c)] IN
  /\ \A i \in 1..Len(s) : Truthful(s[i], Current(c))
  /\ \A i \in 1..Len(s) : s[i].type = "ip_update" => s[i].ver > hosts[c].ver
  /\ \A i, j \in 1..Len(s) : i < j => Later(s[i], s[j])
  /\ \A i \in 1..Len(s) - 1 : Follows(s[i], s[i + 1])

\* The message in the client's hands: the channel goes on from it.
MsgOK(c) ==
  LET s == chan[Current(c)] IN
  msg[c] # NoMessage =>
    /\ Truthful(msg[c], Current(c))
    /\ \A i \in 1..Len(s) : Later(msg[c], s[i])
    /\ s # <<>> => Follows(msg[c], s[1])

\* Where the last line of a working registered connection is.
TailOK(c) ==
  LET k == Current(c) IN
  (k \in Registered /\ stuck[k] = 0) =>
    /\ chan[k] # <<>> => chan[k][Len(chan[k])].ver = Written(k)
    /\ (chan[k] = <<>> /\ msg[c] # NoMessage) => msg[c].ver = Written(k)

\* The hosts file is never ahead of the connection, and behind the message
\* about to be applied.
HostsOK(c) ==
  /\ hosts[c].ver <= Written(Current(c))
  /\ cpc[c] = "apply" => (msg[c].type = "ip_update" /\ msg[c].ver > hosts[c].ver)

ClientOK(c) ==
  /\ HostsOK(c)
  /\ TailOK(c)
  /\ sock[c] # 0 => (ChanOK(c) /\ MsgOK(c))

\* The types, the list, the ends of every connection, and every client: each
\* action keeps these together, and none of the properties by itself.
IInv ==
  /\ TypeOK
  /\ ListOK
  /\ EndsOK
  /\ \A c \in Clients : ClientOK(c)

-----------------------------------------------------------------------------
(***************************************************************************)
(* Liveness.                                                               *)
(***************************************************************************)
\* c is about to write announcement v, or a later one, to its hosts file.
Hears(c, v) == cpc[c] = "apply" /\ msg[c].ver >= v

\* A client that broadcast is about to tell of announcement v reads it, unless
\* its connection is severed or ends first.  It takes that no other client on
\* the list, dead, severed or slow, stops the broadcast for good
\* (README.md:6-7; broadcast, lib.rs:64-73).
Notified ==
  \A k \in Conn, v \in 1..MaxAnnounce + MaxFaults :
    (spc = "announcing" /\ k \in Range(todo) /\ Len(announced) = v)
      ~> (Hears(k[1], v) \/ k \in cut \/ ~Held(k))

\* If nothing fails, that client's hosts file comes to show announcement v or a
\* later one.  update_hosts_entry is called once for each line
\* (client/src/lib.rs:72-93), so the update a failed call loses is not made up
\* for until the address changes again.
Delivered ==
  \A k \in Conn, v \in 1..MaxAnnounce + MaxFaults :
    (spc = "announcing" /\ k \in Range(todo) /\ Len(announced) = v)
      ~> (hosts[k[1]].ver >= v \/ k \in cut \/ ~Held(k) \/ faults > 0)

\* A registered connection that lost its client, or no longer reaches it, is
\* dropped from the list, though the address never changes again: heartbeats
\* find it (lib.rs:203-205 with 65-73).
DeadDropped ==
  \A k \in Conn :
    (k \in Registered /\ (~Held(k) \/ k \in cut)) ~> k \notin Registered

\* A client without a connection, or on one the server has closed, gets back
\* on the server's list, unless its new connection is severed in turn
\* (client/src/lib.rs:113-157, server/src/lib.rs:77-95).
Rejoins ==
  \A c \in Clients :
    (Current(c) \notin serverEnd \cup cut) ~> (Current(c) \in Registered \cup cut)

\* A client that stays on the server's list, over a connection that works, has
\* the address the server settles on in its hosts file: "keeps the local hosts
\* file up to date" (client/src/lib.rs:1-2).
UpToDate ==
  \A c \in Clients, ip \in IPs :
    <>[](nic = ip /\ Current(c) \in Registered \ cut) => <>[](hosts[c].ip = ip)

\* However long another client has not been reading, a client on the list
\* over a connection that works reads an announcement the server has decided
\* on: the server "automatically notifies every connected client"
\* (README.md:6-7).
NotifiesEveryClient ==
  \A c \in Clients \ Stalled, v \in 1..MaxAnnounce + MaxFaults :
    (spc = "announce" /\ Current(c) \in Registered \ cut /\ Len(announced) = v)
      ~> (Hears(c, v) \/ Current(c) \notin Registered \ cut)

\* A client on a severed connection leaves it: heartbeats are sent "so the
\* client can detect a dropped connection quickly" (common/src/lib.rs:16-17).
DetectsDrop ==
  \A c \in Clients : (Current(c) \in cut) ~> (Current(c) \notin cut)
=============================================================================
