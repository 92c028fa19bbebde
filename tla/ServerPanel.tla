------------------------------ MODULE ServerPanel ------------------------------
(***************************************************************************)
(* What an observer of the server is shown.  The server's two threads send *)
(* events (server/src/lib.rs, Broadcaster::send): each is first put on the *)
(* channel of the native UI, then, under the admin server's mutex, written *)
(* to the browser (server/src/admin.rs).  An observer folds the events it  *)
(* gets into a ServerState (ui/src/state.rs).                              *)
(*                                                                         *)
(* The threads are those of module Server, with their sends; of the        *)
(* connections there is left whether the server's kernel has lost them.    *)
(***************************************************************************)
EXTENDS Naturals, SequencesExt

CONSTANTS Peers,        \* the clients' addresses and ports
          IPs, NoIp,
          NoPeer,
          Layouts,      \* lists of interfaces get_if_addrs may return
          Interface,    \* the name that is configured, or AutoDetect
          AutoDetect,   \* "", no name configured
          Port, AdminPort,  \* as configured
          LastPort,     \* u16::MAX
          LogCapacity,  \* LOG_CAPACITY of ui/src/state.rs
          MaxQueue,     \* bound: events the native UI has not processed
          MaxInbox,     \* bound: those a connection to the browser has room for
          MaxAnnounce   \* bound: the interfaces are left alone after so many

\* An address of an interface; what is not IPv4 has no ip here.
IfAddr == [name : STRING, loopback : BOOLEAN, v4 : BOOLEAN, ip : IPs \cup {NoIp}]

ASSUME ServerPanelAssumption ==
  /\ NoIp \notin IPs /\ NoPeer \notin Peers
  /\ Layouts \subseteq Seq(IfAddr)
  /\ \A ifaces \in Layouts : \A i \in DOMAIN ifaces : ifaces[i].v4 => ifaces[i].ip \in IPs
  /\ LastPort \in Nat /\ {Port, AdminPort} \subseteq 0..LastPort
  /\ LogCapacity \in Nat \ {0} /\ MaxQueue \in Nat \ {0} /\ MaxInbox \in Nat \ {0}
  /\ MaxAnnounce \in Nat

VARIABLES layout,       \* the interfaces there are now
          lastIp,       \* as in module Server ...
          announced, mpc, clients, todo,
          backlog,      \* connections the accept thread has not taken
          lost,         \* connections a write will fail on
          apc, acc,     \* where the accept thread is, and with which connection
          pending,      \* thread -> the event it has yet to give to the browser
          queue, panel, \* the native UI's channel and its ServerState
          listeners,    \* those the admin server could bind
          web, inbox,   \* the browser's page, and what is on its way there,
          wpanel        \* and the page's ServerState

ipVars == <<layout, lastIp, announced>>
listVars == <<mpc, clients, todo>>
acceptVars == <<backlog, lost, apc, acc>>
eventVars == <<pending, queue>>
shownVars == <<panel, listeners, web, inbox, wpanel>>
vars == <<ipVars, listVars, acceptVars, eventVars, shownVars>>

Event == [type : {"listening", "connected", "disconnected", "ip_changed",
                  "poll_unchanged", "heartbeat_sent", "error"},
          peer : Peers \cup {NoPeer},
          ip   : IPs \cup {NoIp}]

Plain(type) == [type |-> type, peer |-> NoPeer, ip |-> NoIp]
OfPeer(type, p) == [Plain(type) EXCEPT !.peer = p]
OfIp(type, ip) == [Plain(type) EXCEPT !.ip = ip]

NoEvent == Plain("none")

-----------------------------------------------------------------------------
\* ServerState, but for its log and the configuration it repeats.

Panel == [bound : BOOLEAN, ip : IPs \cup {NoIp}, clients : SUBSET Peers, history : Seq(IPs)]

EmptyPanel == [bound |-> FALSE, ip |-> NoIp, clients |-> {}, history |-> <<>>]

\* Mutant: as if a poll that finds the same address were no news to anybody.
IpOnChange(p, ev) == IF ev.type = "ip_changed" THEN ev.ip ELSE p.ip

IpAfter(p, ev) == IF ev.type \in {"ip_changed", "poll_unchanged"} THEN ev.ip ELSE p.ip

\* Mutant: the test of retain the wrong way round.
RetainPeer(p, ev) ==
  CASE ev.type = "connected" -> p.clients \cup {ev.peer}
    [] ev.type = "disconnected" -> p.clients \cap {ev.peer}
    [] OTHER -> p.clients

ClientsAfter(p, ev) ==
  CASE ev.type = "connected" -> p.clients \cup {ev.peer}
    [] ev.type = "disconnected" -> p.clients \ {ev.peer}
    [] OTHER -> p.clients

\* Mutant: as if the newest entries were the ones to go.
CappedOldest(s) == IF Len(s) > LogCapacity THEN SubSeq(s, 1, LogCapacity) ELSE s

\* drain(0..extra) leaves the newest entries.
Capped(s) ==
  IF Len(s) > LogCapacity THEN SubSeq(s, Len(s) - LogCapacity + 1, Len(s)) ELSE s

\* apply_server_event.
Apply(p, ev) ==
  [bound   |-> p.bound \/ ev.type = "listening",
   ip      |-> IpAfter(p, ev),
   clients |-> ClientsAfter(p, ev),
   history |-> IF ev.type = "ip_changed" THEN Capped(Append(p.history, ev.ip)) ELSE p.history]

-----------------------------------------------------------------------------
\* detect_ip: the first address that will do, or NoIp for an Err.

Suits(iface) ==
  /\ ~iface.loopback
  /\ iface.v4
  /\ Interface \in {AutoDetect, iface.name}

DetectIp(ifaces) ==
  LET i == SelectInSeq(ifaces, Suits) IN IF i = 0 THEN NoIp ELSE ifaces[i].ip

Detected == [ifaces \in Layouts |-> DetectIp(ifaces)]

Nic == Detected[layout]

Registered == ToSet(clients) \cup ToSet(todo)

LockFree == mpc \notin {"announcing", "beating"}

\* Types; the accept thread has a connection in hand just between accepting it
\* and announcing it, and only connections there are can be lost.
TypeOK ==
  /\ layout \in Layouts /\ lastIp \in IPs \cup {NoIp} /\ announced \in Seq(IPs)
  /\ mpc \in {"detect", "announce", "announcing", "sleep", "beating"}
  /\ clients \in Seq(Peers) /\ todo \in Seq(Peers) /\ backlog \subseteq Peers
  /\ lost \subseteq backlog \cup Registered \cup {acc}
  /\ apc \in {"accept", "push", "send"} /\ acc \in Peers \cup {NoPeer}
  /\ apc = "accept" <=> acc = NoPeer
  /\ pending \in [{"main", "accept"} -> Event \cup {NoEvent}]
  /\ queue \in Seq(Event) /\ panel \in Panel /\ wpanel \in Panel
  /\ listeners \in SUBSET {"ws", "http"}
  /\ web \in {"off", "page", "on", "frozen"} /\ inbox \in Seq(Event)

HttpPort == IF AdminPort = LastPort THEN LastPort ELSE AdminPort + 1  \* saturating_add

\* What AdminServer::spawn can bind after the server's own port, other processes
\* having taken some: a listener that cannot bind is left out.
Bound(taken) ==
  {l \in {"ws", "http"} :
     /\ AdminPort # 0
     /\ l = "ws"   => AdminPort \notin taken \cup {Port}
     /\ l = "http" => HttpPort \notin taken \cup {Port, AdminPort}}

Init ==
  /\ layout \in Layouts /\ lastIp = NoIp /\ announced = <<>>
  /\ mpc = "detect" /\ clients = <<>> /\ todo = <<>>
  /\ backlog = {} /\ lost = {} /\ apc = "accept" /\ acc = NoPeer
  /\ pending = [t \in {"main", "accept"} |-> NoEvent]
  /\ queue = <<Plain("listening")>> /\ panel = EmptyPanel
  /\ \E taken \in SUBSET {AdminPort, HttpPort} : listeners = Bound(taken)
  /\ web = "off" /\ inbox = <<>> /\ wpanel = EmptyPanel

-----------------------------------------------------------------------------
\* Broadcaster::send.

\* Thread t is not in the middle of a send.
Ready(t) == pending[t] = NoEvent

\* tx.send; the browser is next.
Send(t, ev) ==
  /\ Ready(t)
  /\ Len(queue) < MaxQueue
  /\ queue' = Append(queue, ev)
  /\ pending' = [pending EXCEPT ![t] = ev]

\* ws.send: the connection to the page takes the event, to be read there later.
WsSend(ev) ==
  /\ Len(inbox) < MaxInbox
  /\ inbox' = Append(inbox, ev)

\* Mutant: as if a send that failed were tried again.
AdminSendAgain(t) ==
  /\ ~Ready(t)
  /\ web # "frozen"
  /\ pending' = [pending EXCEPT ![t] = NoEvent]
  /\ IF web = "on" THEN WsSend(pending[t]) ELSE UNCHANGED inbox
  /\ UNCHANGED <<ipVars, listVars, acceptVars, queue, panel, listeners, web, wpanel>>

\* Mutant: as if a thread that finds the other one sending went without.
AdminSendOrSkip(t) ==
  /\ ~Ready(t)
  /\ pending' = [pending EXCEPT ![t] = NoEvent]
  /\ IF web = "on" /\ \A u \in DOMAIN pending \ {t} : Ready(u)
     THEN WsSend(pending[t]) ELSE UNCHANGED inbox
  /\ UNCHANGED <<ipVars, listVars, acceptVars, queue, panel, listeners, web, wpanel>>

\* admin.broadcast: a connection that has gone is dropped.  When one is full,
\* because the browser does not read, ws.send does not return, and the thread
\* has the admin mutex until it does.
AdminSend(t) ==
  /\ ~Ready(t)
  /\ pending' = [pending EXCEPT ![t] = NoEvent]
  /\ IF web = "on" THEN WsSend(pending[t]) ELSE UNCHANGED inbox
  /\ UNCHANGED <<ipVars, listVars, acceptVars, queue, panel, listeners, web, wpanel>>

-----------------------------------------------------------------------------
\* The main thread.

\* Mutant: as if a failed detection were an address.
DetectUnchecked ==
  /\ mpc = "detect"
  /\ Nic # lastIp
  /\ lastIp' = Nic
  /\ announced' = Append(announced, Nic)
  /\ mpc' = "announce"
  /\ Send("main", OfIp("ip_changed", Nic))
  /\ UNCHANGED <<layout, clients, todo, acceptVars, shownVars>>

DetectChanged ==
  /\ mpc = "detect"
  /\ Nic # NoIp /\ Nic # lastIp
  /\ lastIp' = Nic
  /\ announced' = Append(announced, Nic)
  /\ mpc' = "announce"
  /\ Send("main", OfIp("ip_changed", Nic))
  /\ UNCHANGED <<layout, clients, todo, acceptVars, shownVars>>

\* Mutant: as if a failed detection were reported like the address it is not.
DetectNothingShown ==
  /\ mpc = "detect"
  /\ Nic \in {NoIp, lastIp}
  /\ mpc' = "sleep"
  /\ Send("main", OfIp("poll_unchanged", Nic))
  /\ UNCHANGED <<ipVars, clients, todo, acceptVars, shownVars>>

DetectNothing ==
  /\ mpc = "detect"
  /\ Nic \in {NoIp, lastIp}
  /\ mpc' = "sleep"
  /\ Send("main", IF Nic = NoIp THEN Plain("error") ELSE OfIp("poll_unchanged", Nic))
  /\ UNCHANGED <<ipVars, clients, todo, acceptVars, shownVars>>

StartBroadcast ==
  /\ Ready("main")
  /\ \/ mpc = "announce" /\ mpc' = "announcing"
     \/ mpc = "sleep"    /\ mpc' = "beating"
  /\ todo' = clients
  /\ clients' = <<>>
  /\ UNCHANGED <<ipVars, acceptVars, eventVars, shownVars>>

WriteLine ==
  /\ Ready("main")
  /\ todo # <<>> /\ Head(todo) \notin lost
  /\ clients' = Append(clients, Head(todo))
  /\ todo' = Tail(todo)
  /\ UNCHANGED <<ipVars, mpc, acceptVars, eventVars, shownVars>>

\* The event is sent from within the loop, the clients' mutex held.
Drop ==
  /\ todo # <<>> /\ Head(todo) \in lost
  /\ Send("main", OfPeer("disconnected", Head(todo)))
  /\ todo' = Tail(todo)
  /\ lost' = lost \ {Head(todo)}
  /\ UNCHANGED <<ipVars, mpc, clients, backlog, apc, acc, shownVars>>

\* broadcast returns ...
EndUpdate ==
  /\ Ready("main")
  /\ mpc = "announcing" /\ todo = <<>>
  /\ mpc' = "sleep"
  /\ UNCHANGED <<ipVars, clients, todo, acceptVars, eventVars, shownVars>>

\* ... and a heartbeat is reported.
EndHeartbeat ==
  /\ mpc = "beating" /\ todo = <<>>
  /\ mpc' = "detect"
  /\ Send("main", Plain("heartbeat_sent"))
  /\ UNCHANGED <<ipVars, clients, todo, acceptVars, shownVars>>

-----------------------------------------------------------------------------
\* The accept thread.

Accept(p) ==
  /\ apc = "accept" /\ Ready("accept")
  /\ p \in backlog
  /\ backlog' = backlog \ {p}
  /\ apc' = "push" /\ acc' = p
  /\ UNCHANGED <<ipVars, listVars, lost, eventVars, shownVars>>

\* try_clone fails: the connection is dropped and nobody told.
RejectClone ==
  /\ apc = "push"
  /\ apc' = "accept" /\ acc' = NoPeer
  /\ lost' = lost \ {acc}
  /\ UNCHANGED <<ipVars, listVars, backlog, eventVars, shownVars>>

Push ==
  /\ apc = "push" /\ LockFree
  /\ clients' = Append(clients, acc)
  /\ apc' = "send"
  /\ UNCHANGED <<ipVars, mpc, todo, backlog, lost, acc, eventVars, shownVars>>

\* Mutant: as if the event were given up when the main thread is broadcasting.
AnnounceOrSkip ==
  /\ apc = "send"
  /\ IF LockFree THEN Send("accept", OfPeer("connected", acc)) ELSE UNCHANGED eventVars
  /\ apc' = "accept" /\ acc' = NoPeer
  /\ UNCHANGED <<ipVars, listVars, backlog, lost, shownVars>>

\* The clients' mutex has been released when the event is sent.
AnnounceClient ==
  /\ apc = "send"
  /\ Send("accept", OfPeer("connected", acc))
  /\ apc' = "accept" /\ acc' = NoPeer
  /\ UNCHANGED <<ipVars, listVars, backlog, lost, shownVars>>

AcceptError ==
  /\ apc = "accept"
  /\ Send("accept", Plain("error"))
  /\ UNCHANGED <<ipVars, listVars, acceptVars, shownVars>>

-----------------------------------------------------------------------------
\* The observers.

\* The native UI takes an event from its channel.
Drain ==
  /\ queue # <<>>
  /\ panel' = Apply(panel, Head(queue))
  /\ queue' = Tail(queue)
  /\ UNCHANGED <<ipVars, listVars, acceptVars, pending, listeners, web, inbox, wpanel>>

\* The browser is used: its page goes from one of these states to another.
Browse(from, to) ==
  /\ web \in from /\ web' = to
  /\ UNCHANGED <<ipVars, listVars, acceptVars, eventVars, panel, listeners>>

\* A page as it is when it has been loaded.
NewPage == inbox' = <<>> /\ wpanel' = EmptyPanel

\* The HTTP server has served the page, which opens its one connection.  (What
\* is served when a file cannot be is not a page.)
OpenPage == "http" \in listeners /\ Browse({"off"}, "page") /\ NewPage

\* The port the page connects to, whatever is configured.
PagePort == 8080

\* The handshake is done and the connection on the admin server's list.
WebJoin ==
  /\ "ws" \in listeners /\ AdminPort = PagePort
  /\ Browse({"page"}, "on")
  /\ UNCHANGED <<inbox, wpanel>>

\* The page's onmessage, sooner or later or never.
OnMessage ==
  /\ inbox # <<>>
  /\ wpanel' = Apply(wpanel, Head(inbox))
  /\ inbox' = Tail(inbox)
  /\ UNCHANGED <<ipVars, listVars, acceptVars, eventVars, panel, listeners, web>>

\* The connection could not be made, or ends, and what is on its way is lost
\* (what the page still gets after the server has given up, it may as well have
\* got before); the page shows what it has and does not connect again.
Freeze ==
  /\ Browse({"page", "on"}, "frozen")
  /\ inbox' = <<>>
  /\ UNCHANGED wpanel

ClosePage == Browse({"page", "on", "frozen"}, "off") /\ NewPage

Browser == OpenPage \/ WebJoin \/ OnMessage \/ Freeze \/ ClosePage

-----------------------------------------------------------------------------
\* The environment.  Bound: no client gets the address and port of one the
\* server still has a connection from, and peer_addr does not fail (all clients
\* it fails for are announced as one, 0.0.0.0:0).

ClientArrives(p) ==
  /\ p \notin backlog \cup Registered \cup {acc}
  /\ backlog' = backlog \cup {p}
  /\ UNCHANGED <<ipVars, listVars, lost, apc, acc, eventVars, shownVars>>

\* The server's kernel gives the connection up.
Lose(p) ==
  /\ p \in backlog \cup Registered \/ (apc = "push" /\ p = acc)
  /\ p \notin lost
  /\ lost' = lost \cup {p}
  /\ UNCHANGED <<ipVars, listVars, backlog, apc, acc, eventVars, shownVars>>

NicChange(ifaces) ==
  /\ Len(announced) < MaxAnnounce
  /\ ifaces # layout
  /\ layout' = ifaces
  /\ UNCHANGED <<lastIp, announced, listVars, acceptVars, eventVars, shownVars>>

-----------------------------------------------------------------------------
MainThread ==
  \/ DetectChanged \/ DetectNothing \/ StartBroadcast \/ WriteLine \/ Drop
  \/ EndUpdate \/ EndHeartbeat \/ AdminSend("main")

Next ==
  \/ MainThread
  \/ \E p \in Peers : Accept(p) \/ ClientArrives(p) \/ Lose(p)
  \/ RejectClone \/ Push \/ AnnounceClient \/ AcceptError \/ AdminSend("accept")
  \/ Drain \/ Browser
  \/ \E ifaces \in Layouts : NicChange(ifaces)

Spec == Init /\ [][Next]_vars

\* The threads, the native UI and a page's one connection attempt run.  Strong
\* fairness, because the mutex Push waits for is free only between two
\* broadcasts, because a browser may be slow to read, and because (by
\* MaxQueue) a full channel has room only between the UI's and the other
\* thread's steps.
Fairness ==
  /\ SF_vars(MainThread)
  /\ SF_vars(Push \/ AnnounceClient \/ AdminSend("accept"))
  /\ WF_vars(Drain)
  /\ WF_vars(WebJoin \/ (web = "page" /\ Freeze))

FairSpec == Spec /\ Fairness

-----------------------------------------------------------------------------
\* With nothing left in its channel the native UI shows the address the server
\* has announced last, and the newest announcements, oldest first, however the
\* two threads' events came between each other (lib.rs:177-182; state.rs:106-124).
NativeAgrees ==
  queue = <<>> => /\ panel.bound
                  /\ panel.ip = lastIp
                  /\ IsSuffix(panel.history, announced)
                  /\ Len(panel.history) = Min({Len(announced), LogCapacity})

\* The announcements the native UI has been told of: all but those that are in
\* its channel.
Told == Len(announced) - Cardinality({i \in DOMAIN queue : queue[i].type = "ip_changed"})

\* At every moment, and not just when its channel is empty, it is a hosts file of
\* module Replication: the address it shows was announced, each announcement
\* takes the place of the one before, and no poll that finds the address
\* unchanged sets it back (lib.rs:171-188; state.rs:106-127).
Abstract == INSTANCE Replication
              WITH Clients <- {"native"}, log <- announced,
                   replica <- [u \in {"native"} |-> [ip |-> panel.ip, ver |-> Told]]
Replicates == Abstract!RepSpec

\* And it lists every client that is on the server's list and has been
\* announced, however the accept thread's "connected" events came between the
\* main thread's "disconnected" ones, and however often a client came back
\* (lib.rs:91-95 against 203-205; state.rs:96-105).
NativeListsClients == queue = <<>> => Registered \ {acc} \subseteq panel.clients

\* The announcements a connected page has been told of: all but the one in the
\* main thread's hands, if there is one, and those on their way to the page.
WebTold ==
  Len(announced) - (IF pending["main"].type = "ip_changed" THEN 1 ELSE 0)
                 - Cardinality({i \in DOMAIN inbox : inbox[i].type = "ip_changed"})

\* Whenever a page was opened, whatever it missed before, however late it reads
\* and wherever its connection broke off, its address and its history are those
\* after one and the same announcement: no other address, and of the
\* announcements up to that one the last, none left out between them.  While
\* the connection lasts it is the newest one that is neither on its way to the
\* page nor still to be sent (lib.rs:177-182; admin.rs:65-73; web app.rs:64-77;
\* state.rs:106-127).
WebAgrees ==
  \E n \in 0..Len(announced) :
    /\ web = "on" => n = WebTold
    /\ wpanel.ip \in {NoIp, IF n = 0 THEN NoIp ELSE announced[n]}
    /\ IsSuffix(wpanel.history, SubSeq(announced, 1, n))

\* A browser reads what it is sent, or closes the page.
Reads == WF_vars(OnMessage)

\* "The server keeps running" (admin.rs:34-35), whatever becomes of the web UI:
\* it goes on polling, however browsers come, are slow to read, break off and
\* go, unless one of them stops reading for ever (ws.send under the mutex,
\* admin.rs:71-72).
KeepsPolling == Reads => []<>(mpc = "detect")

\* A client on the list comes to be shown, unless its connection is lost
\* (lib.rs:91-95; state.rs:96-101).
LiveShown ==
  Reads => \A p \in Peers :
    (p \in Registered) ~> (p \in panel.clients \/ p \in lost \/ p \notin Registered)

\* A client whose arrival has been announced, and whose connection is lost,
\* ceases to be shown though the address never changes: the heartbeats find it
\* out, unless it comes back first (lib.rs:65-68 with 203-205; state.rs:102-105).
LostUnshown ==
  Reads => \A p \in Peers :
    (p \in Registered \cap lost /\ acc # p) ~> (p \notin panel.clients \/ p \in backlog \cup {acc})

\* "A browser that connected after startup learns the address"
\* (state.rs:126-127), whenever its page was opened, provided it reads what it
\* is sent: if the interface keeps the address announced last, the page comes
\* to show that.
WebLearnsIp ==
  (Reads /\ <>[](web \in {"page", "on"} /\ Nic = lastIp /\ Nic # NoIp))
    => <>[](wpanel.ip = lastIp)

\* The panel lists the "currently connected clients" (state.rs:42): one the
\* server has dropped ceases to be shown, or it has connected again.
NoGhost ==
  \A p \in Peers : (p \in panel.clients \ Registered) ~> (p \notin panel.clients \ Registered)
=============================================================================
