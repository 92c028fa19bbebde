--------------------------------- MODULE Tcp ---------------------------------
(***************************************************************************)
(* The TCP connections between the server and its clients, as server and   *)
(* client use them: std::net's bind, accept, connect, write_all, lines and *)
(* drop on top of the kernel.  The server never reads anything from a      *)
(* client and the client never writes, so a connection carries lines one   *)
(* way only.  None of this code is in the repository.                      *)
(*                                                                         *)
(* The two ends of a connection live and die separately.  Each client has  *)
(* at most one socket; the server may still hold the ends of connections   *)
(* the client has long left.                                               *)
(***************************************************************************)
EXTENDS Naturals, Sequences

CONSTANTS Clients,    \* the client processes
          IPs,        \* the addresses the monitored interface may have
          NoIp,       \* no address (Option::None, or nothing detected)
          MaxConns,   \* bound: connections of one client that exist at once
          Buffer,     \* bound: lines the kernels buffer for one connection
          MaxFaults   \* bound: failures in one behaviour

ASSUME TcpAssumption ==
  /\ NoIp \notin IPs
  /\ MaxConns \in Nat \ {0}
  /\ Buffer \in Nat \ {0}
  /\ MaxFaults \in Nat

VARIABLES listening,  \* the server's listener is bound
          serverEnd,  \* connections whose server end is open
          sock,       \* client -> its connection's number, 0 if it has none
          chan,       \* connection -> lines its client can still read
          stuck,      \* connection -> lines written that nobody will read
          cut,        \* connections severed with neither end being told
          reset,      \* connections the server's kernel has given up
          faults      \* failures that may still happen

tcpVars == <<listening, serverEnd, sock, chan, stuck, cut, reset, faults>>

Conn == Clients \X (1..MaxConns)

\* One line of the wire protocol.  "truncated" is a line the server died in
\* the middle of.  ver is a history tag no code reads: how many announcements
\* the server had made, the one in this line included.
Line == [type : {"ip_update", "heartbeat", "truncated"},
         ip   : IPs \cup {NoIp},
         ver  : Nat]

\* The client end of k is open.
Held(k) == sock[k[1]] = k[2]

\* The connection client c is on.
Current(c) == <<c, sock[c]>>

\* Neither end of k is open: its number can be used again.
Free(k) == k \notin serverEnd /\ ~Held(k)

TcpTypeOK ==
  /\ listening \in BOOLEAN
  /\ serverEnd \in SUBSET Conn
  /\ sock \in [Clients -> 0..MaxConns]
  /\ chan \in [Conn -> Seq(Line)]
  /\ stuck \in [Conn -> Nat]
  /\ cut \in SUBSET Conn
  /\ reset \in SUBSET Conn
  /\ faults \in 0..MaxFaults

TcpInit ==
  /\ listening = TRUE
  /\ serverEnd = {}
  /\ sock = [c \in Clients |-> 0]
  /\ chan = [k \in Conn |-> <<>>]
  /\ stuck = [k \in Conn |-> 0]
  /\ cut = {}
  /\ reset = {}
  /\ faults = MaxFaults

\* One of the failures this behaviour may have.
Fault == faults > 0 /\ faults' = faults - 1

-----------------------------------------------------------------------------
\* Calls.  Each fixes the variables it changes; its caller leaves the rest.

\* connect() succeeds: the server's kernel completes the handshake and queues
\* the connection for accept().
Open(k) ==
  /\ listening
  /\ Free(k)
  /\ serverEnd' = serverEnd \cup {k}
  /\ sock' = [sock EXCEPT ![k[1]] = k[2]]

\* Client c drops its TcpStream: whatever it has not read will never be.
CloseClient(c) ==
  /\ sock' = [sock EXCEPT ![c] = 0]
  /\ chan' = [chan EXCEPT ![Current(c)] = <<>>]
  /\ stuck' = [stuck EXCEPT ![Current(c)] =
                 IF Current(c) \in serverEnd THEN @ + Len(chan[Current(c)]) ELSE 0]
  /\ cut' = cut \ {Current(c)}

\* The server closes the ends in S; what is in flight may still be read.
CloseServer(S) ==
  /\ serverEnd' = serverEnd \ S
  /\ stuck' = [k \in Conn |-> IF k \in S THEN 0 ELSE stuck[k]]
  /\ reset' = reset \ S

\* write_all of one line succeeds: there is room in the kernels' buffers.
Write(k, line) ==
  /\ k \notin reset
  /\ Len(chan[k]) + stuck[k] < Buffer
  /\ IF Held(k) /\ k \notin cut
     THEN chan' = [chan EXCEPT ![k] = Append(@, line)] /\ UNCHANGED stuck
     ELSE stuck' = [stuck EXCEPT ![k] = @ + 1] /\ UNCHANGED chan

\* The connections in S stop carrying packets; of each at most the first n
\* unread lines have reached the client.
SeverAll(S, n) ==
  /\ cut' = cut \cup S
  /\ chan' = [k \in Conn |-> IF k \in S /\ n < Len(chan[k])
                             THEN SubSeq(chan[k], 1, n) ELSE chan[k]]
  /\ stuck' = [k \in Conn |-> IF k \in S /\ n < Len(chan[k])
                              THEN stuck[k] + Len(chan[k]) - n ELSE stuck[k]]

\* Connections that can be severed: both ends open, not severed yet.
Severable == {k \in serverEnd : Held(k) /\ k \notin cut}

-----------------------------------------------------------------------------
\* Steps of the kernels and of the network.

\* The server's kernel gives a connection up when lines it holds are never
\* acknowledged (the client's kernel answers RST, or retransmissions time out),
\* or when a full one cannot be probed.  Of a client that is there and merely
\* does not read, the probes are answered.
GiveUp(k) ==
  /\ k \in serverEnd \ reset
  /\ stuck[k] > 0 \/ (k \in cut /\ Len(chan[k]) >= Buffer)
  /\ reset' = reset \cup {k}
  /\ UNCHANGED <<listening, serverEnd, sock, chan, stuck, cut, faults>>

\* A connection breaks without either end being told.
Sever(k, n) ==
  /\ k \in Severable
  /\ Fault
  /\ SeverAll({k}, n)
  /\ UNCHANGED <<listening, serverEnd, sock, reset>>
=============================================================================
