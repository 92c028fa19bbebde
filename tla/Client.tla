-------------------------------- MODULE Client --------------------------------
(***************************************************************************)
(* The client (client/src/lib.rs): one thread that connects, reads lines   *)
(* until the connection ends, sleeps and connects again.  An ip_update is   *)
(* applied to the hosts file; a heartbeat does nothing.  The hosts file is *)
(* one entry here; module HostsFile has the file itself.                   *)
(***************************************************************************)
EXTENDS Tcp

VARIABLES cpc,   \* client -> where its thread is
          msg,   \* client -> the last message parsed on this connection
          hosts  \* client -> the address its hosts file has, and its ver

clientVars == <<cpc, msg, hosts>>

\* "connect"  about to call TcpStream::connect
\* "read"     in handle_stream, waiting for a line
\* "apply"    in update_hosts_entry
\* "sleep"    thread::sleep(reconnect_delay)
ClientPC == {"connect", "read", "apply", "sleep"}

Entry == [ip : IPs \cup {NoIp}, ver : Nat]

NoMessage == [type |-> "none", ip |-> NoIp, ver |-> 0]

ClientTypeOK ==
  /\ cpc \in [Clients -> ClientPC]
  /\ msg \in [Clients -> Line \cup {NoMessage}]
  /\ hosts \in [Clients -> Entry]

ClientInit ==
  /\ cpc = [c \in Clients |-> "connect"]
  /\ msg = [c \in Clients |-> NoMessage]
  /\ hosts = [c \in Clients |-> [ip |-> NoIp, ver |-> 0]]

Connect(c, k) ==
  /\ cpc[c] = "connect"
  /\ k[1] = c
  /\ Open(k)
  /\ cpc' = [cpc EXCEPT ![c] = "read"]
  /\ UNCHANGED <<listening, chan, stuck, cut, reset, faults, msg, hosts>>

\* Nobody listens, or the server cannot be reached.
ConnectFail(c) ==
  /\ cpc[c] = "connect"
  /\ IF listening THEN Fault ELSE UNCHANGED faults
  /\ cpc' = [cpc EXCEPT ![c] = "sleep"]
  /\ UNCHANGED <<listening, serverEnd, sock, chan, stuck, cut, reset, msg, hosts>>

Wake(c) ==
  /\ cpc[c] = "sleep"
  /\ cpc' = [cpc EXCEPT ![c] = "connect"]
  /\ UNCHANGED <<tcpVars, msg, hosts>>

\* The next line.  One that does not parse is skipped.
ReadLine(c) ==
  LET k == Current(c)
      line == Head(chan[k])
  IN /\ cpc[c] = "read"
     /\ chan[k] # <<>>
     /\ chan' = [chan EXCEPT ![k] = Tail(@)]
     /\ msg' = IF line.type = "truncated" THEN msg ELSE [msg EXCEPT ![c] = line]
     /\ cpc' = [cpc EXCEPT ![c] = IF line.type = "ip_update" THEN "apply" ELSE "read"]
     /\ UNCHANGED <<listening, serverEnd, sock, stuck, cut, reset, faults, hosts>>

\* Mutant: an entry is replaced, but never appended.
ApplyOver(c) ==
  /\ cpc[c] = "apply"
  /\ hosts' = [hosts EXCEPT ![c] = IF @.ver > 0 THEN [ip |-> msg[c].ip, ver |-> msg[c].ver] ELSE @]
  /\ cpc' = [cpc EXCEPT ![c] = "read"]
  /\ UNCHANGED <<tcpVars, msg>>

Apply(c) ==
  /\ cpc[c] = "apply"
  /\ hosts' = [hosts EXCEPT ![c] = [ip |-> msg[c].ip, ver |-> msg[c].ver]]
  /\ cpc' = [cpc EXCEPT ![c] = "read"]
  /\ UNCHANGED <<tcpVars, msg>>

\* update_hosts_entry fails: an event is sent and the update forgotten.
ApplyFail(c) ==
  /\ cpc[c] = "apply"
  /\ Fault
  /\ cpc' = [cpc EXCEPT ![c] = "read"]
  /\ UNCHANGED <<listening, serverEnd, sock, chan, stuck, cut, reset, msg, hosts>>

\* handle_stream returns and its stream is dropped.
Leave(c, pc) ==
  /\ CloseClient(c)
  /\ cpc' = [cpc EXCEPT ![c] = pc]
  /\ msg' = [msg EXCEPT ![c] = NoMessage]
  /\ UNCHANGED <<listening, serverEnd, reset, hosts>>

\* Mutant: a read of nothing is taken for an empty line.
EofIgnored(c) ==
  /\ cpc[c] = "read"
  /\ chan[Current(c)] = <<>>
  /\ Current(c) \notin serverEnd \cup cut
  /\ UNCHANGED <<tcpVars, clientVars>>

\* End of file: the server has closed its end and every line has been read.
\* On a connection that was severed the client never learns of it.
Eof(c) ==
  /\ cpc[c] = "read"
  /\ chan[Current(c)] = <<>>
  /\ Current(c) \notin serverEnd \cup cut
  /\ Leave(c, "sleep")
  /\ UNCHANGED faults

ReadError(c) ==
  /\ cpc[c] = "read"
  /\ Fault
  /\ Leave(c, "sleep")

\* The process dies on a connection and is started again.  (Without one it has
\* nothing to lose: Wake.)
ClientCrash(c) ==
  /\ cpc[c] \in {"read", "apply"}
  /\ Fault
  /\ Leave(c, "connect")

ClientStep(c) ==
  \/ \E k \in Conn : Connect(c, k)
  \/ ConnectFail(c) \/ Wake(c) \/ ReadLine(c) \/ Apply(c) \/ ApplyFail(c)
  \/ Eof(c) \/ ReadError(c)

ClientNext == \E c \in Clients : ClientStep(c) \/ ClientCrash(c)
=============================================================================
