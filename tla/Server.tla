-------------------------------- MODULE Server --------------------------------
(***************************************************************************)
(* The server (server/src/lib.rs): the main thread polls the interface,    *)
(* announces a changed address and sends heartbeats; the accept thread     *)
(* registers connections.  They share clients: Arc<Mutex<Vec<ClientConn>>>, *)
(* and broadcast holds the mutex from its first write to its last.         *)
(*                                                                         *)
(* retain_mut goes through the Vec once, in order: clients \o todo is the   *)
(* Vec, clients what has been kept and todo what is yet to be visited.     *)
(***************************************************************************)
EXTENDS Tcp, Functions

CONSTANT MaxAnnounce  \* bound: the interface is left alone after so many

ASSUME ServerAssumption == MaxAnnounce \in Nat

VARIABLES nic,        \* the address of the monitored interface, or NoIp
          lastIp,     \* last_ip of run_with_events
          announced,  \* history: the addresses announced, oldest first
          spc,        \* where the main thread is
          clients,    \* the registered connections, in order ...
          todo        \* ... followed by those broadcast has not reached yet

serverVars == <<nic, lastIp, announced, spc, clients, todo>>

\* "detect"      about to call detect_ip
\* "announce"    last_ip is set, broadcast(IpUpdate) not entered
\* "announcing"  in broadcast(IpUpdate), the mutex held
\* "sleep"       thread::sleep(poll_interval)
\* "beating"     in broadcast(Heartbeat), the mutex held
\* "down"        no server process
ServerPC == {"detect", "announce", "announcing", "sleep", "beating", "down"}

ServerTypeOK ==
  /\ nic \in IPs \cup {NoIp}
  /\ lastIp \in IPs \cup {NoIp}
  /\ announced \in Seq(IPs)
  /\ spc \in ServerPC
  /\ clients \in Seq(Conn)
  /\ todo \in Seq(Conn)

ServerInit ==
  /\ nic \in IPs \cup {NoIp}
  /\ lastIp = NoIp
  /\ announced = <<>>
  /\ spc = "detect"
  /\ clients = <<>>
  /\ todo = <<>>

\* The connections in the Vec.
Registered == Range(clients) \cup Range(todo)

LockFree == spc \in {"detect", "announce", "sleep"}

-----------------------------------------------------------------------------
\* The main thread.

\* Mutant: a failed detection taken for an address.
DetectUnchecked ==
  /\ spc = "detect"
  /\ nic # lastIp
  /\ lastIp' = nic
  /\ announced' = Append(announced, nic)
  /\ spc' = "announce"
  /\ UNCHANGED <<tcpVars, nic, clients, todo>>

DetectChanged ==
  /\ spc = "detect"
  /\ nic # NoIp /\ nic # lastIp
  /\ lastIp' = nic
  /\ announced' = Append(announced, nic)
  /\ spc' = "announce"
  /\ UNCHANGED <<tcpVars, nic, clients, todo>>

\* The address is the one announced last, or none could be detected: either
\* way nothing but an event comes of it and last_ip stays.
DetectNothing ==
  /\ spc = "detect"
  /\ nic \in {NoIp, lastIp}
  /\ spc' = "sleep"
  /\ UNCHANGED <<tcpVars, nic, lastIp, announced, clients, todo>>

\* Mutant: broadcast works on a copy and pushes the survivors onto the list.
StartOnCopy ==
  /\ \/ spc = "announce" /\ spc' = "announcing"
     \/ spc = "sleep"    /\ spc' = "beating"
  /\ todo' = clients
  /\ UNCHANGED <<tcpVars, nic, lastIp, announced, clients>>

\* Mutant: no heartbeats.
StartUpdatesOnly ==
  \/ /\ spc = "announce" /\ spc' = "announcing"
     /\ todo' = clients
     /\ clients' = <<>>
     /\ UNCHANGED <<tcpVars, nic, lastIp, announced>>
  \/ /\ spc = "sleep" /\ spc' = "detect"
     /\ UNCHANGED <<tcpVars, nic, lastIp, announced, clients, todo>>

\* broadcast takes the mutex and starts on the list.
StartBroadcast ==
  /\ \/ spc = "announce" /\ spc' = "announcing"
     \/ spc = "sleep"    /\ spc' = "beating"
  /\ todo' = clients
  /\ clients' = <<>>
  /\ UNCHANGED <<tcpVars, nic, lastIp, announced>>

\* Announcements k's client has been sent if it read k from its start: all,
\* but for the one broadcast still owes it.
Written(k) ==
  IF spc = "announce" \/ (spc = "announcing" /\ k \in Range(todo))
  THEN Len(announced) - 1
  ELSE Len(announced)

\* Mutant: the address is detected again for the line.
DetectedAgain ==
  IF spc = "announcing"
  THEN [type |-> "ip_update", ip |-> nic, ver |-> Len(announced)]
  ELSE [type |-> "heartbeat", ip |-> NoIp, ver |-> Len(announced)]

\* The line being broadcast.
Broadcasting ==
  IF spc = "announcing"
  THEN [type |-> "ip_update", ip |-> announced[Len(announced)], ver |-> Len(announced)]
  ELSE [type |-> "heartbeat", ip |-> NoIp, ver |-> Len(announced)]

\* Mutant: a non-blocking write, a full connection being skipped.
SendOrSkip ==
  /\ todo # <<>>
  /\ \/ Write(Head(todo), Broadcasting)
     \/ /\ Len(chan[Head(todo)]) + stuck[Head(todo)] >= Buffer
        /\ UNCHANGED <<chan, stuck>>
  /\ clients' = Append(clients, Head(todo))
  /\ todo' = Tail(todo)
  /\ UNCHANGED <<listening, serverEnd, sock, cut, reset, faults,
                 nic, lastIp, announced, spc>>

\* retain_mut keeps a connection it could write to ...
SendLine ==
  /\ todo # <<>>
  /\ Write(Head(todo), Broadcasting)
  /\ clients' = Append(clients, Head(todo))
  /\ todo' = Tail(todo)
  /\ UNCHANGED <<listening, serverEnd, sock, cut, reset, faults,
                 nic, lastIp, announced, spc>>

\* Mutant: broadcast returns at the first connection it cannot write to.
DropAndReturn ==
  /\ todo # <<>>
  /\ Head(todo) \in reset
  /\ CloseServer({Head(todo)})
  /\ clients' = clients \o Tail(todo)
  /\ todo' = <<>>
  /\ UNCHANGED <<listening, sock, chan, cut, faults, nic, lastIp, announced, spc>>

\* Mutant: as if the write were given up on a client that is slow to read.
DropSlow ==
  /\ todo # <<>>
  /\ Head(todo) \in reset \/ Len(chan[Head(todo)]) + stuck[Head(todo)] >= Buffer
  /\ CloseServer({Head(todo)})
  /\ todo' = Tail(todo)
  /\ UNCHANGED <<listening, sock, chan, cut, faults,
                 nic, lastIp, announced, spc, clients>>

\* ... and drops one it could not.  The reader thread's half goes with it: it
\* gets the same error.
Drop ==
  /\ todo # <<>>
  /\ Head(todo) \in reset
  /\ CloseServer({Head(todo)})
  /\ todo' = Tail(todo)
  /\ UNCHANGED <<listening, sock, chan, cut, faults,
                 nic, lastIp, announced, spc, clients>>

\* The list is through: broadcast returns and the mutex is free.
EndBroadcast ==
  /\ todo = <<>>
  /\ \/ spc = "announcing" /\ spc' = "sleep"
     \/ spc = "beating"    /\ spc' = "detect"
  /\ UNCHANGED <<tcpVars, nic, lastIp, announced, clients, todo>>

-----------------------------------------------------------------------------
\* The accept thread.  Nothing is written to a connection it registers.

\* Mutant: the list is extended without the mutex.
RegisterUnlocked(k) ==
  /\ spc # "down"
  /\ k \in serverEnd \ Registered
  /\ IF LockFree THEN clients' = Append(clients, k) /\ UNCHANGED todo
                 ELSE todo' = Append(todo, k) /\ UNCHANGED clients
  /\ UNCHANGED <<tcpVars, nic, lastIp, announced, spc>>

Register(k) ==
  /\ LockFree
  /\ k \in serverEnd \ Registered
  /\ clients' = Append(clients, k)
  /\ UNCHANGED <<tcpVars, nic, lastIp, announced, spc, todo>>

\* try_clone fails: the stream is dropped.
RejectClone(k) ==
  /\ listening
  /\ k \in serverEnd \ Registered
  /\ Fault
  /\ CloseServer({k})
  /\ UNCHANGED <<listening, sock, chan, cut, serverVars>>

-----------------------------------------------------------------------------
\* The process and the interface.

\* The part of a line that a dying server got onto the connection.
Partial(k) == [type |-> "truncated", ip |-> NoIp, ver |-> Written(k)]

\* The process dies and its kernel closes every end.  A client it was writing
\* to may be left with part of a line.
ServerCrash ==
  /\ spc # "down"
  /\ Fault
  /\ spc' = "down"
  /\ listening' = FALSE
  /\ lastIp' = NoIp
  /\ clients' = <<>>
  /\ todo' = <<>>
  /\ CloseServer(serverEnd)
  /\ \/ UNCHANGED chan
     \/ LET k == Head(todo) IN
        /\ todo # <<>>
        /\ Held(k) /\ k \notin cut /\ Len(chan[k]) + stuck[k] < Buffer
        /\ chan' = [chan EXCEPT ![k] = Append(@, Partial(k))]
  /\ UNCHANGED <<sock, cut, nic, announced>>

ServerStart ==
  /\ spc = "down"
  /\ spc' = "detect"
  /\ listening' = TRUE
  /\ UNCHANGED <<serverEnd, sock, chan, stuck, cut, reset, faults,
                 nic, lastIp, announced, clients, todo>>

\* The interface gets another address, or loses the one it has.  Connections
\* made over the old address may stop carrying packets.
NicChange(ip, S, n) ==
  /\ Len(announced) < MaxAnnounce
  /\ ip # nic
  /\ nic' = ip
  /\ SeverAll(S, n)
  /\ UNCHANGED <<listening, serverEnd, sock, reset, faults,
                 lastIp, announced, spc, clients, todo>>

-----------------------------------------------------------------------------
MainThread ==
  \/ DetectChanged \/ DetectNothing
  \/ StartBroadcast \/ SendLine \/ Drop \/ EndBroadcast

AcceptThread == \E k \in Conn : Register(k) \/ RejectClone(k)

ServerNext ==
  \/ MainThread \/ AcceptThread \/ ServerCrash \/ ServerStart
  \/ \E ip \in IPs \cup {NoIp}, S \in SUBSET Severable, n \in 0..Buffer : NicChange(ip, S, n)
=============================================================================
