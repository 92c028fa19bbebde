--------------------------- MODULE ServerPanelProofs ---------------------------
(***************************************************************************)
(* Proofs about module ServerPanel, for any clients, addresses, interfaces *)
(* and bounds.                                                             *)
(***************************************************************************)
EXTENDS ServerPanel, Lemmas

-----------------------------------------------------------------------------
(***************************************************************************)
(* Interfaces.                                                             *)
(***************************************************************************)

\* What SelectInSeq comes to: the address of the first interface that suits, or
\* NoIp if none does.
LEMMA DetectsTheFirst ==
  ASSUME NEW ifaces \in Layouts
  PROVE  \/ DetectIp(ifaces) = NoIp /\ \A i \in DOMAIN ifaces : ~Suits(ifaces[i])
         \/ \E i \in DOMAIN ifaces :
              /\ Suits(ifaces[i]) /\ \A j \in DOMAIN ifaces : j < i => ~Suits(ifaces[j])
              /\ DetectIp(ifaces) = ifaces[i].ip /\ ifaces[i].ip \in IPs
<1> DEFINE I == {i \in 1..Len(ifaces) : Suits(ifaces[i])}
<1>1. SelectInSeq(ifaces, Suits) = IF I # {} THEN Min(I) ELSE 0
  BY DEF SelectInSeq
<1>2. Len(ifaces) \in Nat /\ DOMAIN ifaces = 1..Len(ifaces)
  BY LenProperties, ServerPanelAssumption
<1>3. CASE I # {}
  <2>1. Min(I) \in I /\ \A j \in I : Min(I) <= j
    <3>1. I \in SUBSET Nat
      BY <1>2
    <3> HIDE DEF I
    <3> QED BY <1>3, <3>1, Least
  <2> DEFINE i == Min(I)
  <2>2. i \in DOMAIN ifaces /\ i # 0 /\ Suits(ifaces[i])
    BY <1>2, <2>1
  <2>3. \A j \in DOMAIN ifaces : j < i => ~Suits(ifaces[j])
    <3> SUFFICES ASSUME NEW j \in DOMAIN ifaces, Suits(ifaces[j]) PROVE ~(j < i)
      OBVIOUS
    <3>1. j \in I
      BY <1>2
    <3>2. i <= j /\ i \in Nat /\ j \in Nat
      BY <1>2, <2>1, <3>1
    <3> HIDE DEF i
    <3> QED BY <3>2
  <2>4. ifaces[i].ip \in IPs
    BY <2>2, ServerPanelAssumption DEF Suits
  <2>5. DetectIp(ifaces) = ifaces[i].ip
    <3> HIDE DEF I
    <3> QED BY <1>1, <1>3, <2>2 DEF DetectIp
  <2> HIDE DEF i
  <2> QED BY <2>2, <2>3, <2>4, <2>5
<1>4. CASE I = {}
  BY <1>1, <1>2, <1>4 DEF DetectIp
<1> QED BY <1>3, <1>4

\* It returns an address, or fails.
LEMMA DetectType ==
  ASSUME NEW ifaces \in Layouts PROVE DetectIp(ifaces) \in IPs \cup {NoIp}
BY DetectsTheFirst

\* The order in which the system lists the interfaces is of no consequence if
\* all those that suit have one address, as when the configured name is that of
\* an interface with a single IPv4 address: two polls of them then announce no
\* change (ip_detector.rs:17-26).
THEOREM OrderOfNoConsequence ==
  ASSUME NEW a \in Layouts, NEW b \in Layouts, ToSet(a) = ToSet(b),
         \A f, g \in ToSet(a) : Suits(f) /\ Suits(g) => f.ip = g.ip
  PROVE  DetectIp(a) = DetectIp(b)
<1>1. ASSUME NEW c \in Layouts, NEW d \in Layouts, ToSet(c) = ToSet(d), DetectIp(c) = NoIp
      PROVE  DetectIp(d) = NoIp
  <2>1. \A i \in DOMAIN c : ~Suits(c[i])
    BY <1>1, DetectsTheFirst, ServerPanelAssumption
  <2>2. \A f \in ToSet(c) : ~Suits(f)
    BY <2>1 DEF ToSet
  <2>3. \A i \in DOMAIN d : ~Suits(d[i])
    BY <1>1, <2>2 DEF ToSet
  <2> QED BY <2>3, DetectsTheFirst
<1>2. CASE DetectIp(a) = NoIp \/ DetectIp(b) = NoIp
  BY <1>1, <1>2
<1>3. CASE DetectIp(a) # NoIp /\ DetectIp(b) # NoIp
  <2>1. PICK i \in DOMAIN a : Suits(a[i]) /\ DetectIp(a) = a[i].ip
    BY <1>3, DetectsTheFirst
  <2>2. PICK j \in DOMAIN b : Suits(b[j]) /\ DetectIp(b) = b[j].ip
    BY <1>3, DetectsTheFirst
  <2>3. a[i] \in ToSet(a) /\ b[j] \in ToSet(a)
    BY DEF ToSet
  <2> QED BY <2>1, <2>2, <2>3
<1> QED BY <1>2, <1>3

-----------------------------------------------------------------------------
(***************************************************************************)
(* Types.                                                                  *)
(***************************************************************************)

\* What is on a list to which an element is appended, or of which the first
\* one is taken.
LEMMA AppendedSet ==
  ASSUME NEW s, NEW s1, NEW e, Appended(s1, s, e) PROVE ToSet(s1) = ToSet(s) \cup {e}
BY DEF Appended, ToSet

LEMMA TakenSet ==
  ASSUME NEW s, NEW s1, Taken(s1, s) PROVE ToSet(s) = ToSet(s1) \cup {s[1]}
<1>1. \A i \in DOMAIN s : i = 1 \/ (i - 1 \in DOMAIN s1 /\ s1[i - 1] = s[i])
  BY DEF Taken
<1>2. \A i \in DOMAIN s1 : i + 1 \in DOMAIN s /\ s1[i] = s[i + 1]
  BY DEF Taken
<1>3. 1 \in DOMAIN s
  BY DEF Taken
<1> QED BY <1>1, <1>2, <1>3 DEF ToSet

\* An event that has what is taken from it.
Sound(ev) == /\ ev.type = "ip_changed" => ev.ip \in IPs
             /\ ev.type = "connected" => ev.peer \in Peers

\* A panel that has applied an event is a panel.
LEMMA ApplyType ==
  ASSUME NEW p \in Panel, NEW ev \in Event, Sound(ev) PROVE Apply(p, ev) \in Panel
<1>1. IpAfter(p, ev) \in IPs \cup {NoIp} /\ (p.bound \/ ev.type = "listening") \in BOOLEAN
  BY DEF IpAfter, Panel, Event
<1>2. ClientsAfter(p, ev) \in SUBSET Peers
  BY DEF ClientsAfter, Panel, Sound
<1> DEFINE h == IF ev.type = "ip_changed" THEN Capped(Append(p.history, ev.ip)) ELSE p.history
<1>3. h \in Seq(IPs)
  <2>1. p.history \in Seq(IPs)
    BY DEF Panel
  <2>2. CASE ev.type = "ip_changed"
    <3>1. Append(p.history, ev.ip) \in Seq(IPs)
      BY <2>1, <2>2 DEF Sound
    <3>2. \A s \in Seq(IPs) : Capped(s) \in Seq(IPs)
      <4> SUFFICES ASSUME NEW s \in Seq(IPs) PROVE Capped(s) \in Seq(IPs)
        OBVIOUS
      <4>1. Capped(s) = LastOf(s, LogCapacity)
        BY DEF Capped, LastOf
      <4> QED BY <4>1, LastOfProperties, ServerPanelAssumption
    <3> QED BY <2>2, <3>1, <3>2
  <2>3. CASE ev.type # "ip_changed"
    BY <2>1, <2>3
  <2> QED BY <2>2, <2>3
<1> HIDE DEF h
<1>4. Apply(p, ev) = [bound   |-> p.bound \/ ev.type = "listening", ip |-> IpAfter(p, ev),
                      clients |-> ClientsAfter(p, ev), history |-> h]
  BY DEF Apply, h
<1> QED BY <1>1, <1>2, <1>3, <1>4 DEF Panel

Threads == {"main", "accept"}

\* The types of what the events are kept in.
EventTypes ==
  /\ pending \in [Threads -> Event \cup {NoEvent}]
  /\ queue \in Seq(Event)
  /\ \A i \in DOMAIN queue : Sound(queue[i])
  /\ \A t \in Threads : Sound(pending[t])

\* The types of what the panels are.
PanelTypes ==
  /\ panel \in Panel /\ wpanel \in Panel
  /\ listeners \in SUBSET {"ws", "http"}
  /\ web \in {"off", "page", "on", "frozen"}
  /\ inbox \in Seq(Event)
  /\ \A i \in DOMAIN inbox : Sound(inbox[i])

\* The types of the interfaces and of the addresses taken from them.
IpTypes ==
  layout \in Layouts /\ lastIp \in IPs \cup {NoIp} /\ announced \in Seq(IPs)

\* The types of what the connections are kept in; just a broadcast has
\* something to do; and when its arrival is to be announced, a connection is on
\* the list, or has been dropped from it.
ConnTypes ==
  /\ mpc \in {"detect", "announce", "announcing", "sleep", "beating"}
  /\ clients \in Seq(Peers) /\ todo \in Seq(Peers) /\ backlog \subseteq Peers
  /\ LockFree => todo = <<>>
  /\ apc \in {"accept", "push", "send"} /\ acc \in Peers \cup {NoPeer}
  /\ apc = "accept" <=> acc = NoPeer
  /\ lost \subseteq backlog \cup Registered \cup {acc}
  /\ apc # "push" => lost \subseteq backlog \cup Registered

Types == EventTypes /\ PanelTypes /\ IpTypes /\ ConnTypes

\* The initial states have the types.
LEMMA TypesInit == Init => Types
<1> SUFFICES ASSUME Init PROVE Types
  OBVIOUS
<1>1. EventTypes
  <2>1. Plain("listening") \in Event /\ Sound(Plain("listening")) /\ Sound(NoEvent)
    BY DEF Plain, Event, Sound, NoEvent
  <2>2. queue \in Seq(Event) /\ DOMAIN queue = {1} /\ queue[1] = Plain("listening")
    BY <2>1 DEF Init
  <2> QED BY <2>1, <2>2 DEF Init, EventTypes, Threads
<1>2. EmptyPanel \in Panel
  BY EmptySeq DEF EmptyPanel, Panel
<1>3. PanelTypes
  BY <1>2, EmptySeq DEF Init, PanelTypes, Bound
<1>4. IpTypes /\ clients \in Seq(Peers) /\ todo \in Seq(Peers)
  BY EmptySeq DEF Init, IpTypes
<1> QED BY <1>1, <1>3, <1>4, ServerPanelAssumption DEF Init, Types, ConnTypes

\* What a send makes of the queue.
LEMMA SendEvent ==
  ASSUME EventTypes, NEW t \in Threads, NEW ev \in Event, Sound(ev), Send(t, ev)
  PROVE  EventTypes' /\ Appended(queue', queue, ev)
<1>1. queue \in Seq(Event) /\ queue' = Append(queue, ev)
  BY DEF EventTypes, Send
<1>2. Appended(queue', queue, ev) /\ queue' \in Seq(Event)
  BY <1>1, AppendAppends
<1>3. \A i \in DOMAIN queue' : Sound(queue'[i])
  BY <1>2 DEF EventTypes, Appended
<1>4. pending' \in [Threads -> Event \cup {NoEvent}] /\ \A u \in Threads : Sound(pending'[u])
  BY DEF EventTypes, Send
<1> QED BY <1>2, <1>3, <1>4 DEF EventTypes

\* An action that leaves the channels and the panels alone.
LEMMA QuietTypes ==
  ASSUME Types, UNCHANGED <<ipVars, eventVars, shownVars>>
  PROVE  EventTypes' /\ PanelTypes' /\ IpTypes'
BY DEF Types, EventTypes, PanelTypes, IpTypes, ipVars, eventVars, shownVars

\* What the connection to the browser is given has a type.
LEMMA AdminTypes ==
  ASSUME Types, NEW t \in Threads, AdminSend(t) PROVE Types'
<1>1. pending[t] \in Event /\ Sound(pending[t]) /\ Sound(NoEvent)
  BY DEF AdminSend, Ready, Types, EventTypes, Sound, NoEvent, Plain
<1>2. inbox' \in Seq(Event) /\ \A i \in DOMAIN inbox' : Sound(inbox'[i])
  <2>1. CASE web = "on"
    <3>1. Appended(inbox', inbox, pending[t]) /\ inbox' \in Seq(Event)
      <4>1. inbox' = Append(inbox, pending[t]) /\ inbox \in Seq(Event)
        BY <2>1 DEF AdminSend, WsSend, Types, PanelTypes
      <4> QED BY <1>1, <4>1, AppendAppends
    <3> QED BY <1>1, <3>1 DEF Types, PanelTypes, Appended
  <2>2. CASE web # "on"
    BY <2>2 DEF AdminSend, Types, PanelTypes
  <2> QED BY <2>1, <2>2
<1>3. EventTypes'
  BY <1>1 DEF AdminSend, Types, EventTypes
<1> QED BY <1>2, <1>3 DEF AdminSend, Types, PanelTypes, IpTypes, ConnTypes, LockFree,
        Registered, ipVars, listVars, acceptVars

\* The main thread's steps keep the types.
LEMMA MainTypes ==
  ASSUME Types, MainThread PROVE Types'
<1> USE DEF Threads
<1>0. Nic \in IPs \cup {NoIp}
  BY DetectType DEF Types, IpTypes, Nic, Detected
<1>1. CASE DetectChanged
  <2> DEFINE ev == OfIp("ip_changed", Nic)
  <2>1. Nic \in IPs /\ Send("main", ev)
    BY <1>0, <1>1 DEF DetectChanged
  <2>2. ev \in Event /\ Sound(ev)
    BY <2>1 DEF OfIp, Plain, Event, Sound
  <2> HIDE DEF ev
  <2>3. EventTypes'
    BY <2>1, <2>2, SendEvent DEF Types
  <2>4. IpTypes'
    BY <1>1, <2>1 DEF DetectChanged, Types, IpTypes
  <2> QED BY <1>1, <2>3, <2>4
          DEF DetectChanged, Types, PanelTypes, ConnTypes, LockFree, Registered, acceptVars,
              shownVars
<1>2. CASE DetectNothing
  <2> DEFINE ev == IF Nic = NoIp THEN Plain("error") ELSE OfIp("poll_unchanged", Nic)
  <2>1. ev \in Event /\ Sound(ev) /\ Send("main", ev)
    BY <1>0, <1>2 DEF DetectNothing, OfIp, Plain, Event, Sound
  <2> HIDE DEF ev
  <2>2. EventTypes'
    BY <2>1, SendEvent DEF Types
  <2> QED BY <1>2, <2>2 DEF DetectNothing, Types, PanelTypes, IpTypes, ConnTypes,
          LockFree, Registered, ipVars, acceptVars, shownVars
<1>3. CASE StartBroadcast
  <2>1. EventTypes' /\ PanelTypes' /\ IpTypes'
    BY <1>3, QuietTypes DEF StartBroadcast
  <2>2. clients' \in Seq(Peers) /\ todo' \in Seq(Peers)
    BY <1>3, EmptySeq DEF StartBroadcast, Types, ConnTypes
  <2>3. todo = <<>> /\ ~LockFree'
    BY <1>3 DEF StartBroadcast, LockFree, Types, ConnTypes
  <2>4. Registered' = Registered
    BY <1>3, <2>3 DEF StartBroadcast, Registered, ToSet
  <2> QED BY <1>3, <2>1, <2>2, <2>3, <2>4 DEF StartBroadcast, Types, ConnTypes, acceptVars
<1>4. CASE WriteLine
  <2>1. EventTypes' /\ PanelTypes' /\ IpTypes'
    BY <1>4, QuietTypes DEF WriteLine
  <2>2. Taken(todo', todo) /\ todo' \in Seq(Peers) /\ Head(todo) = todo[1] /\ todo[1] \in Peers
    BY <1>4, TailTakes DEF WriteLine, Types, ConnTypes
  <2>3. Appended(clients', clients, todo[1]) /\ clients' \in Seq(Peers)
    BY <1>4, <2>2, AppendAppends DEF WriteLine, Types, ConnTypes
  <2>4. Registered' = Registered
    <3>1. ToSet(todo) = ToSet(todo') \cup {todo[1]}
      BY <2>2, TakenSet
    <3>2. ToSet(clients') = ToSet(clients) \cup {todo[1]}
      BY <2>3, AppendedSet
    <3> QED BY <3>1, <3>2 DEF Registered
  <2> QED BY <1>4, <2>1, <2>2, <2>3, <2>4
          DEF WriteLine, LockFree, Types, ConnTypes, acceptVars
<1>5. CASE Drop
  <2>1. Taken(todo', todo) /\ todo' \in Seq(Peers) /\ Head(todo) = todo[1] /\ todo[1] \in Peers
    BY <1>5, TailTakes DEF Drop, Types, ConnTypes
  <2> DEFINE ev == OfPeer("disconnected", Head(todo))
  <2>2. ev \in Event /\ Sound(ev) /\ Send("main", ev)
    BY <1>5, <2>1 DEF Drop, OfPeer, Plain, Event, Sound
  <2> HIDE DEF ev
  <2>3. EventTypes'
    BY <2>2, SendEvent DEF Types
  <2>4. ToSet(todo) = ToSet(todo') \cup {todo[1]}
    BY <2>1, TakenSet
  <2> QED BY <1>5, <2>1, <2>3, <2>4 DEF Drop, LockFree, Types, PanelTypes, IpTypes,
          ConnTypes, Registered, ipVars, shownVars
<1>6. CASE EndUpdate
  <2>1. EventTypes' /\ PanelTypes' /\ IpTypes'
    BY <1>6, QuietTypes DEF EndUpdate
  <2> QED BY <1>6, <2>1 DEF EndUpdate, Types, ConnTypes, Registered, acceptVars
<1>7. CASE EndHeartbeat
  <2> DEFINE ev == Plain("heartbeat_sent")
  <2>1. ev \in Event /\ Sound(ev) /\ Send("main", ev)
    BY <1>7 DEF EndHeartbeat, Plain, Event, Sound
  <2> HIDE DEF ev
  <2>2. EventTypes'
    BY <2>1, SendEvent DEF Types
  <2> QED BY <1>7, <2>2 DEF EndHeartbeat, Types, PanelTypes, IpTypes, ConnTypes,
          Registered, ipVars, acceptVars, shownVars
<1>8. CASE AdminSend("main")
  BY <1>8, AdminTypes
<1> QED BY <1>1, <1>2, <1>3, <1>4, <1>5, <1>6, <1>7, <1>8 DEF MainThread

\* The accept thread's steps keep the types.
LEMMA AcceptTypes ==
  ASSUME Types,
         (\E p \in Peers : Accept(p)) \/ RejectClone \/ Push \/ AnnounceClient \/ AcceptError
           \/ AdminSend("accept")
  PROVE  Types'
<1> USE DEF Threads
<1>1. ASSUME NEW p \in Peers, Accept(p) PROVE Types'
  <2>1. EventTypes' /\ PanelTypes' /\ IpTypes'
    BY <1>1, QuietTypes DEF Accept
  <2> QED BY <1>1, <2>1, ServerPanelAssumption
          DEF Accept, Types, ConnTypes, LockFree, Registered, listVars
<1>2. CASE RejectClone
  <2>1. EventTypes' /\ PanelTypes' /\ IpTypes'
    BY <1>2, QuietTypes DEF RejectClone
  <2> QED BY <1>2, <2>1 DEF RejectClone, Types, ConnTypes, LockFree, Registered, listVars
<1>3. CASE Push
  <2>1. EventTypes' /\ PanelTypes' /\ IpTypes'
    BY <1>3, QuietTypes DEF Push, ipVars
  <2>2. acc \in Peers
    BY <1>3 DEF Push, Types, ConnTypes
  <2>3. Appended(clients', clients, acc) /\ clients' \in Seq(Peers)
    BY <1>3, <2>2, AppendAppends DEF Push, Types, ConnTypes
  <2>4. ToSet(clients') = ToSet(clients) \cup {acc}
    BY <2>3, AppendedSet
  <2> QED BY <1>3, <2>1, <2>3, <2>4 DEF Push, Types, ConnTypes, LockFree, Registered
<1>4. CASE AnnounceClient
  <2> DEFINE ev == OfPeer("connected", acc)
  <2>1. acc \in Peers /\ Send("accept", ev)
    BY <1>4 DEF AnnounceClient, Types, ConnTypes
  <2>2. ev \in Event /\ Sound(ev)
    BY <2>1 DEF OfPeer, Plain, Event, Sound
  <2> HIDE DEF ev
  <2>3. EventTypes'
    BY <2>1, <2>2, SendEvent DEF Types
  <2> QED BY <1>4, <2>3 DEF AnnounceClient, Types, PanelTypes, IpTypes, ConnTypes, LockFree,
          Registered, ipVars, listVars, shownVars
<1>5. CASE AcceptError
  <2> DEFINE ev == Plain("error")
  <2>1. ev \in Event /\ Sound(ev) /\ Send("accept", ev)
    BY <1>5 DEF AcceptError, Plain, Event, Sound
  <2> HIDE DEF ev
  <2>2. EventTypes'
    BY <2>1, SendEvent DEF Types
  <2> QED BY <1>5, <2>2 DEF AcceptError, Types, PanelTypes, IpTypes, ConnTypes, LockFree,
          Registered, ipVars, listVars, acceptVars, shownVars
<1>6. CASE AdminSend("accept")
  BY <1>6, AdminTypes
<1> QED BY <1>1, <1>2, <1>3, <1>4, <1>5, <1>6

\* The other steps keep the types.
LEMMA OtherTypes ==
  ASSUME Types,
         (\E p \in Peers : ClientArrives(p) \/ Lose(p)) \/ Drain \/ Browser
           \/ (\E ifaces \in Layouts : NicChange(ifaces)) \/ UNCHANGED vars
  PROVE  Types'
<1>1. ASSUME NEW p \in Peers, ClientArrives(p) PROVE Types'
  <2>1. EventTypes' /\ PanelTypes' /\ IpTypes'
    BY <1>1, QuietTypes DEF ClientArrives
  <2> QED BY <1>1, <2>1 DEF ClientArrives, Types, ConnTypes, LockFree, Registered, listVars
<1>2. ASSUME NEW p \in Peers, Lose(p) PROVE Types'
  <2>1. EventTypes' /\ PanelTypes' /\ IpTypes'
    BY <1>2, QuietTypes DEF Lose
  <2> QED BY <1>2, <2>1 DEF Lose, Types, ConnTypes, LockFree, Registered, listVars
<1>3. CASE Drain
  <2>1. /\ Taken(queue', queue) /\ queue' \in Seq(Event)
        /\ Head(queue) = queue[1] /\ queue[1] \in Event
    BY <1>3, TailTakes DEF Drain, Types, EventTypes
  <2>2. Sound(queue[1]) /\ \A i \in DOMAIN queue' : Sound(queue'[i])
    BY <2>1 DEF Taken, Types, EventTypes
  <2>3. panel' \in Panel
    BY <1>3, <2>1, <2>2, ApplyType DEF Drain, Types, PanelTypes
  <2> QED BY <1>3, <2>1, <2>2, <2>3 DEF Drain, Types, EventTypes, PanelTypes, IpTypes,
          ConnTypes, LockFree, Registered, ipVars, listVars, acceptVars
<1>4. CASE OnMessage
  <2>1. /\ Taken(inbox', inbox) /\ inbox' \in Seq(Event)
        /\ Head(inbox) = inbox[1] /\ inbox[1] \in Event
    BY <1>4, TailTakes DEF OnMessage, Types, PanelTypes
  <2>2. Sound(inbox[1]) /\ \A i \in DOMAIN inbox' : Sound(inbox'[i])
    BY <2>1 DEF Taken, Types, PanelTypes
  <2>3. wpanel' \in Panel
    BY <1>4, <2>1, <2>2, ApplyType DEF OnMessage, Types, PanelTypes
  <2> QED BY <1>4, <2>1, <2>2, <2>3 DEF OnMessage, Types, EventTypes, PanelTypes, IpTypes,
          ConnTypes, LockFree, Registered, ipVars, listVars, acceptVars, eventVars
<1>5. CASE OpenPage \/ WebJoin \/ Freeze \/ ClosePage
  <2>1. EmptyPanel \in Panel /\ <<>> \in Seq(Event) /\ DOMAIN <<>> = {}
    BY EmptySeq DEF EmptyPanel, Panel
  <2>2. PanelTypes'
    BY <1>5, <2>1 DEF OpenPage, WebJoin, Freeze, ClosePage, NewPage, Browse, Types, PanelTypes
  <2> QED BY <1>5, <2>2 DEF OpenPage, WebJoin, Freeze, ClosePage, Browse, Types, EventTypes,
          IpTypes, ConnTypes, LockFree, Registered, ipVars, listVars, acceptVars, eventVars
<1>6. ASSUME NEW ifaces \in Layouts, NicChange(ifaces) PROVE Types'
  BY <1>6 DEF NicChange, Types, EventTypes, PanelTypes, IpTypes, ConnTypes, LockFree,
     Registered, listVars, acceptVars, eventVars, shownVars
<1>7. CASE UNCHANGED vars
  BY <1>7 DEF vars, Types, EventTypes, PanelTypes, IpTypes, ConnTypes, LockFree, Registered,
     ipVars, listVars, acceptVars, eventVars, shownVars
<1> QED BY <1>1, <1>2, <1>3, <1>4, <1>5, <1>6, <1>7 DEF Browser

\* The types hold in every reachable state.
LEMMA TypesHold == Spec => []Types
<1>1. Types /\ [Next]_vars => Types'
  BY MainTypes, AcceptTypes, OtherTypes DEF Next
<1> QED BY <1>1, TypesInit, PTL DEF Spec

\* Every variable keeps its type, and just connections that the server has,
\* or has yet to take, can be lost.
THEOREM TypeCorrect == Spec => []TypeOK
<1>1. Types => TypeOK
  BY DEF Types, EventTypes, PanelTypes, IpTypes, ConnTypes, Threads, TypeOK
<1> QED BY <1>1, TypesHold, PTL

-----------------------------------------------------------------------------
(***************************************************************************)
(* What the native UI will show.                                           *)
(***************************************************************************)

Polled == {"ip_changed", "poll_unchanged"}

\* The panel will have heard of the bind, of the address announced last, and of
\* every announcement, when it has applied the events of the queue.
AgreeInv ==
  /\ panel.bound \/ \E i \in DOMAIN queue : queue[i].type = "listening"
  /\ Latest(panel.ip, queue, Polled, lastIp)
  /\ \E g : Counts(g, panel.history, queue, announced, LogCapacity, "ip_changed")

\* Anything but the announcement of an address is sent.
LEMMA AgreeOther ==
  ASSUME Types, AgreeInv, NEW t \in Threads, NEW ev \in Event, Sound(ev), Send(t, ev),
         ev.type # "ip_changed", ev.type = "poll_unchanged" => ev.ip = lastIp,
         UNCHANGED <<panel, lastIp, announced>>
  PROVE  AgreeInv'
<1>1. Appended(queue', queue, ev)
  BY SendEvent DEF Types
<1>2. panel.bound \/ \E i \in DOMAIN queue' : queue'[i].type = "listening"
  BY <1>1 DEF AgreeInv, Appended
<1>3. Latest(panel.ip, queue', Polled, lastIp)
  <2>1. IF ev.type \in Polled THEN ev.ip = lastIp ELSE lastIp = lastIp
    BY DEF Polled
  <2> QED BY <1>1, <2>1, LatestSend DEF AgreeInv
<1>4. \E g : Counts(g, panel.history, queue', announced, LogCapacity, "ip_changed")
  <2>1. PICK g : Counts(g, panel.history, queue, announced, LogCapacity, "ip_changed")
    BY DEF AgreeInv
  <2>2. Len(announced) \in Nat
    BY DEF Types, IpTypes
  <2> QED BY <1>1, <2>1, <2>2, CountOther, ServerPanelAssumption
<1> QED BY <1>2, <1>3, <1>4 DEF AgreeInv

\* An address is announced.
LEMMA AgreeChanged ==
  ASSUME Types, AgreeInv, DetectChanged PROVE AgreeInv'
<1> USE DEF Threads
<1>0. Nic \in IPs
  BY DetectType DEF DetectChanged, Types, IpTypes, Nic, Detected
<1> DEFINE ev == OfIp("ip_changed", Nic)
<1>1. /\ ev \in Event /\ Sound(ev) /\ Send("main", ev)
      /\ ev.type = "ip_changed" /\ ev.ip = Nic
  BY <1>0 DEF DetectChanged, OfIp, Plain, Event, Sound
<1> HIDE DEF ev
<1>2. Appended(queue', queue, ev)
  BY <1>1, SendEvent DEF Types
<1>3. lastIp' = Nic /\ announced' = Append(announced, Nic) /\ panel' = panel
  BY DEF DetectChanged, shownVars
<1>4. panel.bound \/ \E i \in DOMAIN queue' : queue'[i].type = "listening"
  BY <1>2 DEF AgreeInv, Appended
<1>5. Latest(panel.ip, queue', Polled, Nic)
  <2>1. IF ev.type \in Polled THEN ev.ip = Nic ELSE Nic = lastIp
    BY <1>1 DEF Polled
  <2> QED BY <1>2, <2>1, LatestSend DEF AgreeInv
<1>6. \E g : Counts(g, panel.history, queue', announced', LogCapacity, "ip_changed")
  <2>1. PICK g : Counts(g, panel.history, queue, announced, LogCapacity, "ip_changed")
    BY DEF AgreeInv
  <2>2. Appended(announced', announced, ev.ip)
    BY <1>0, <1>1, <1>3, AppendAppends DEF Types, IpTypes
  <2> QED BY <1>1, <1>2, <2>1, <2>2, CountReport, ServerPanelAssumption
<1> QED BY <1>3, <1>4, <1>5, <1>6 DEF AgreeInv

\* The UI takes an event.
LEMMA AgreeDrain ==
  ASSUME Types, AgreeInv, Drain PROVE AgreeInv'
<1>1. /\ Taken(queue', queue) /\ Head(queue) = queue[1] /\ queue[1] \in Event
      /\ 1 \in DOMAIN queue
  <2>1. Taken(queue', queue) /\ Head(queue) = queue[1] /\ queue[1] \in Event
    BY TailTakes DEF Drain, Types, EventTypes
  <2> QED BY <2>1 DEF Taken
<1>2. /\ panel'.bound = (panel.bound \/ queue[1].type = "listening")
      /\ panel'.ip = IF queue[1].type \in Polled THEN queue[1].ip ELSE panel.ip
      /\ panel'.history = IF queue[1].type = "ip_changed"
                          THEN Capped(Append(panel.history, queue[1].ip)) ELSE panel.history
      /\ lastIp' = lastIp /\ announced' = announced
  BY <1>1 DEF Drain, Apply, IpAfter, Polled, ipVars
<1>3. panel'.bound \/ \E i \in DOMAIN queue' : queue'[i].type = "listening"
  <2>1. \A i \in DOMAIN queue : i = 1 \/ (i - 1 \in DOMAIN queue' /\ queue'[i - 1] = queue[i])
    BY <1>1 DEF Taken
  <2> QED BY <1>2, <2>1 DEF AgreeInv
<1>4. Latest(panel'.ip, queue', Polled, lastIp)
  BY <1>1, <1>2, LatestDrain DEF AgreeInv
<1>5. \E g : Counts(g, panel'.history, queue', announced, LogCapacity, "ip_changed")
  <2>1. PICK g : Counts(g, panel.history, queue, announced, LogCapacity, "ip_changed")
    BY DEF AgreeInv
  <2>2. panel.history \in Seq(IPs) /\ announced \in Seq(IPs)
    BY DEF Types, PanelTypes, IpTypes, Panel
  <2>3. Applied(panel'.history, panel.history, queue[1], LogCapacity, "ip_changed")
    <3>1. queue[1].type = "ip_changed" => queue[1].ip \in IPs
      BY <1>1 DEF Types, EventTypes, Sound
    <3>2. \A s : Capped(s) = LastOf(s, LogCapacity)
      BY DEF Capped, LastOf
    <3> QED BY <1>2, <2>2, <3>1, <3>2, LastOfAppend, ServerPanelAssumption DEF Applied
  <2>4. LogCapacity \in Nat \ {0} /\ Len(panel.history) \in Nat /\ Len(announced) \in Nat
    BY <2>2, ServerPanelAssumption
  <2> QED BY ONLY <1>1, <2>1, <2>3, <2>4, CountDrain
<1> QED BY <1>2, <1>3, <1>4, <1>5 DEF AgreeInv

\* Every step of Next keeps AgreeInv.
LEMMA AgreeNext ==
  ASSUME Types, AgreeInv, [Next]_vars PROVE AgreeInv'
<1> USE DEF Threads
<1>1. CASE DetectChanged
  BY <1>1, AgreeChanged
<1>2. CASE DetectNothing
  <2> DEFINE ev == IF Nic = NoIp THEN Plain("error") ELSE OfIp("poll_unchanged", Nic)
  <2>1. Nic \in IPs \cup {NoIp}
    BY DetectType DEF Types, IpTypes, Nic, Detected
  <2>2. /\ ev \in Event /\ Sound(ev) /\ Send("main", ev) /\ ev.type # "ip_changed"
        /\ ev.type = "poll_unchanged" => ev.ip = lastIp
    BY <1>2, <2>1 DEF DetectNothing, OfIp, Plain, Event, Sound
  <2> HIDE DEF ev
  <2>3. UNCHANGED <<panel, lastIp, announced>>
    BY <1>2 DEF DetectNothing, ipVars, shownVars
  <2> QED BY <2>2, <2>3, AgreeOther
<1>3. CASE Drop
  <2> DEFINE ev == OfPeer("disconnected", Head(todo))
  <2>1. Head(todo) \in Peers
    BY <1>3, TailTakes DEF Drop, Types, ConnTypes
  <2>2. /\ ev \in Event /\ Sound(ev) /\ Send("main", ev)
        /\ ev.type \notin {"ip_changed", "poll_unchanged"}
    BY <1>3, <2>1 DEF Drop, OfPeer, Plain, Event, Sound
  <2> HIDE DEF ev
  <2>3. UNCHANGED <<panel, lastIp, announced>>
    BY <1>3 DEF Drop, ipVars, shownVars
  <2> QED BY <2>2, <2>3, AgreeOther
<1>4. CASE EndHeartbeat
  BY <1>4, AgreeOther DEF EndHeartbeat, Plain, Event, Sound, ipVars, shownVars
<1>5. CASE AnnounceClient
  <2> DEFINE ev == OfPeer("connected", acc)
  <2>1. acc \in Peers
    BY <1>5 DEF AnnounceClient, Types, ConnTypes
  <2>2. /\ ev \in Event /\ Sound(ev) /\ Send("accept", ev)
        /\ ev.type \notin {"ip_changed", "poll_unchanged"}
    BY <1>5, <2>1 DEF AnnounceClient, OfPeer, Plain, Event, Sound
  <2> HIDE DEF ev
  <2>3. UNCHANGED <<panel, lastIp, announced>>
    BY <1>5 DEF AnnounceClient, ipVars, shownVars
  <2> QED BY <2>2, <2>3, AgreeOther
<1>6. CASE AcceptError
  BY <1>6, AgreeOther DEF AcceptError, Plain, Event, Sound, ipVars, shownVars
<1>7. CASE Drain
  BY <1>7, AgreeDrain
<1>8. CASE UNCHANGED <<panel, queue, lastIp, announced>>
  BY <1>8 DEF AgreeInv
<1>9. \/ StartBroadcast \/ WriteLine \/ EndUpdate \/ (\E t \in Threads : AdminSend(t))
      \/ (\E p \in Peers : Accept(p) \/ ClientArrives(p) \/ Lose(p)) \/ RejectClone \/ Push
      \/ Browser \/ (\E ifaces \in Layouts : NicChange(ifaces)) \/ UNCHANGED vars
      => UNCHANGED <<panel, queue, lastIp, announced>>
  BY DEF StartBroadcast, WriteLine, EndUpdate, AdminSend, Accept, ClientArrives, Lose,
     RejectClone, Push, Browser, OpenPage, WebJoin, OnMessage, Freeze, ClosePage, Browse,
     NicChange, vars, ipVars, listVars, acceptVars, eventVars, shownVars
<1> QED BY <1>1, <1>2, <1>3, <1>4, <1>5, <1>6, <1>7, <1>8, <1>9 DEF Next, MainThread

\* With nothing left in its channel the native UI shows that the port is bound,
\* the address announced last and the newest announcements, however the events
\* of the two threads came between each other.
THEOREM NativeAlwaysAgrees == Spec => []NativeAgrees
<1>1. Init => AgreeInv
  <2> SUFFICES ASSUME Init PROVE AgreeInv
    OBVIOUS
  <2>1. /\ Len(queue) = 1 /\ DOMAIN queue = {1} /\ queue[1].type = "listening"
        /\ panel.ip = NoIp /\ panel.history = <<>> /\ lastIp = NoIp /\ announced = <<>>
    BY DEF Init, Plain, EmptyPanel
  <2>2. Latest(panel.ip, queue, Polled, lastIp)
    BY <2>1 DEF Latest, Polled
  <2>3. \E g : Counts(g, <<>>, queue, <<>>, LogCapacity, "ip_changed")
    <3>1. \A i \in 1..Len(queue) : queue[i].type # "ip_changed"
      BY <2>1
    <3>2. Len(queue) \in Nat /\ LogCapacity \in Nat \ {0}
      BY <2>1, ServerPanelAssumption
    <3> QED BY ONLY <3>1, <3>2, CountNothing
  <2> QED BY <2>1, <2>2, <2>3 DEF AgreeInv
<1>2. Types /\ AgreeInv => NativeAgrees
  <2> SUFFICES ASSUME Types, AgreeInv, queue = <<>>
               PROVE  /\ panel.bound
                      /\ panel.ip = lastIp
                      /\ IsSuffix(panel.history, announced)
                      /\ Len(panel.history) = Min({Len(announced), LogCapacity})
    BY DEF NativeAgrees
  <2>1. panel.bound /\ panel.ip = lastIp
    BY DEF AgreeInv, Latest
  <2>2. PICK g : Counts(g, panel.history, <<>>, announced, LogCapacity, "ip_changed")
    BY DEF AgreeInv
  <2>3. panel.history \in Seq(IPs) /\ announced \in Seq(IPs) /\ Len(announced) \in Nat
    BY DEF Types, PanelTypes, IpTypes, Panel
  <2>4. /\ IsSuffix(panel.history, announced)
        /\ Len(panel.history) = IF Len(announced) < LogCapacity THEN Len(announced) ELSE LogCapacity
    BY <2>2, <2>3, CountAll, ServerPanelAssumption
  <2>5. {Len(announced), LogCapacity} \in SUBSET Nat
    BY <2>3, ServerPanelAssumption
  <2>6. Min({Len(announced), LogCapacity})
          = IF Len(announced) < LogCapacity THEN Len(announced) ELSE LogCapacity
    <3> DEFINE m == Min({Len(announced), LogCapacity})
    <3>1. /\ m \in {Len(announced), LogCapacity}
          /\ \A k \in {Len(announced), LogCapacity} : m <= k
      BY <2>5, Least
    <3> HIDE DEF m
    <3>2. m <= Len(announced) /\ m <= LogCapacity /\ (m = Len(announced) \/ m = LogCapacity)
      BY <3>1
    <3>3. Len(announced) \in Nat /\ LogCapacity \in Nat
      BY <2>5
    <3> QED BY <3>2, <3>3 DEF m
  <2> QED BY <2>1, <2>4, <2>6
<1>3. Types /\ AgreeInv /\ [Next]_vars => AgreeInv'
  BY AgreeNext
<1> QED BY <1>1, <1>2, <1>3, TypesHold, PTL DEF Spec

-----------------------------------------------------------------------------
(***************************************************************************)
(* What a page shows.                                                      *)
(***************************************************************************)

\* How many of the announcements the main thread is done with.
Given == IF pending["main"].type = "ip_changed" THEN Len(announced) - 1 ELSE Len(announced)

\* What the threads have yet to give to the browser.
PendingInv ==
  /\ lastIp = At(announced, Len(announced), NoIp)
  /\ pending["main"].type \in Polled => announced # <<>> /\ pending["main"].ip = lastIp
  /\ pending["accept"].type \notin Polled

\* The page has been told of the first t[0] announcements: it shows this
\* address, the last of them, or none if it has been told of none, and in its
\* history the last of them; what is on its way goes on from there and, while
\* the connection lasts, as far as the main thread has got.
PageShows(t, shown) ==
  /\ Follows(t, shown, inbox, announced, NoIp, "ip_changed", "poll_unchanged")
  /\ wpanel.ip \in {NoIp, shown}
  /\ Trailing(wpanel.history, announced, t[0])
  /\ web = "on" => /\ t[Len(inbox)] = Given
                   /\ t[0] + Cardinality(Places(inbox, "ip_changed")) = Given

\* A page that is not connected yet shows nothing, and nothing is on its way to
\* one that is not connected.
PageInv ==
  /\ web # "on" => inbox = <<>>
  /\ web \in {"off", "page"} => wpanel = EmptyPanel
  /\ \E t, shown : PageShows(t, shown)

WebInv == PendingInv /\ PageInv

\* What is there to be given, when it has a type.
LEMMA GivenType ==
  ASSUME Types, WebInv
  PROVE  /\ Given \in 0..Len(announced) /\ Len(announced) \in Nat
         /\ wpanel.history \in Seq(IPs) /\ Len(wpanel.history) \in Nat
         /\ Len(inbox) \in Nat /\ DOMAIN inbox = 1..Len(inbox)
         /\ Cardinality(Places(inbox, "ip_changed")) \in Nat
<1>1. Len(announced) \in Nat /\ (announced # <<>> => Len(announced) # 0)
  BY EmptySeq DEF Types, IpTypes
<1>2. wpanel.history \in Seq(IPs)
  BY DEF Types, PanelTypes, Panel
<1>3. Len(inbox) \in Nat /\ DOMAIN inbox = 1..Len(inbox)
  BY LenProperties DEF Types, PanelTypes
<1>4. Cardinality(Places(inbox, "ip_changed")) \in Nat
  BY <1>3, PlacesFinite
<1>5. Given \in 0..Len(announced)
  BY <1>1 DEF Given, WebInv, PendingInv, Polled
<1> QED BY <1>1, <1>2, <1>3, <1>4, <1>5

\* With nothing on its way, a page may have been told of any number n.
LEMMA NothingOnItsWay ==
  ASSUME NEW r, Len(r) \in Nat, NEW n \in 0..Len(r)
  PROVE  /\ \E t : /\ Follows(t, At(r, n, NoIp), <<>>, r, NoIp, "ip_changed", "poll_unchanged")
                   /\ t[0] = n /\ t[Len(<<>>)] = n
         /\ Cardinality(Places(<<>>, "ip_changed")) = 0
<1> DEFINE t == [i \in 0..0 |-> n]
<1>1. Len(<<>>) = 0 /\ t[0] = n
  OBVIOUS
<1>2. Follows(t, At(r, n, NoIp), <<>>, r, NoIp, "ip_changed", "poll_unchanged")
  BY <1>1 DEF Follows
<1> HIDE DEF t
<1>3. Places(<<>>, "ip_changed") = {}
  BY DEF Places
<1> QED BY <1>1, <1>2, <1>3, FS_EmptySet

\* Anything but the announcement of an address is sent.
LEMMA WebOther ==
  ASSUME Types, WebInv, NEW t \in Threads, NEW ev \in Event, Send(t, ev),
         ev.type # "ip_changed", t = "accept" => ev.type \notin Polled,
         ev.type = "poll_unchanged" => ev.ip = lastIp /\ lastIp # NoIp,
         UNCHANGED <<lastIp, announced, web, inbox, wpanel>>
  PROVE  WebInv'
<1>1. /\ pending[t] = NoEvent /\ pending' = [pending EXCEPT ![t] = ev]
      /\ pending \in [Threads -> Event \cup {NoEvent}]
  BY DEF Send, Ready, Types, EventTypes
<1>2. NoEvent.type # "ip_changed"
  BY DEF NoEvent, Plain
<1>3. \A u \in Threads : pending'[u] = IF u = t THEN ev ELSE pending[u]
  BY <1>1
<1>4. lastIp # NoIp => announced # <<>>
  BY DEF WebInv, PendingInv, At
<1>5. PendingInv'
  BY <1>3, <1>4 DEF WebInv, PendingInv, Threads, Polled
<1>6. Given' = Given
  BY <1>1, <1>2, <1>3 DEF Given, Threads
<1>7. PageInv'
  BY <1>6 DEF WebInv, PageInv, PageShows
<1> QED BY <1>5, <1>7 DEF WebInv

\* An address is announced.
LEMMA WebChanged ==
  ASSUME Types, WebInv, DetectChanged PROVE WebInv'
<1> DEFINE ev == OfIp("ip_changed", Nic)
<1>0. Nic \in IPs
  BY DetectType DEF DetectChanged, Types, IpTypes, Nic, Detected
<1>1. /\ pending["main"] = NoEvent /\ pending' = [pending EXCEPT !["main"] = ev]
      /\ pending \in [Threads -> Event \cup {NoEvent}]
      /\ ev.type = "ip_changed" /\ ev.ip = Nic
  BY DEF DetectChanged, Send, Ready, Types, EventTypes, OfIp, Plain
<1> HIDE DEF ev
<1>2. lastIp' = Nic /\ announced' = Append(announced, Nic) /\ UNCHANGED <<web, inbox, wpanel>>
  BY DEF DetectChanged, shownVars
<1>3. pending'["main"] = ev /\ pending'["accept"] = pending["accept"]
  BY <1>1 DEF Threads
<1>4. Appended(announced', announced, Nic) /\ announced' \in Seq(IPs)
  BY <1>0, <1>2, AppendAppends DEF Types, IpTypes
<1>5. announced' # <<>> /\ announced'[Len(announced')] = Nic
      /\ Len(announced') = Len(announced) + 1 /\ Len(announced) \in Nat
  BY <1>4 DEF Appended
<1>6. PendingInv'
  BY <1>1, <1>2, <1>3, <1>5 DEF WebInv, PendingInv, At
<1>7. Given = Len(announced) /\ Given' = Given
  BY <1>1, <1>3, <1>5 DEF Given, NoEvent, Plain
<1>8. PICK t, shown : PageShows(t, shown)
  BY DEF WebInv, PageInv
<1>9. Follows(t, shown, inbox, announced', NoIp, "ip_changed", "poll_unchanged")
  <2>1. /\ Follows(t, shown, inbox, announced, NoIp, "ip_changed", "poll_unchanged")
        /\ Len(inbox) \in Nat
    BY <1>8, GivenType DEF PageShows
  <2> QED BY ONLY <1>4, <2>1, FollowsMore
<1>10. Trailing(wpanel.history, announced', t[0])
  <2>1. /\ t[0] \in 0..Len(announced) /\ Len(wpanel.history) \in Nat
        /\ Trailing(wpanel.history, announced, t[0])
    BY <1>8, GivenType DEF PageShows, Follows
  <2>2. t[0] \in Nat /\ t[0] <= Len(announced)
    BY <1>5, <2>1
  <2> QED BY ONLY <1>4, <2>1, <2>2, TrailingMore
<1>11. PageShows(t, shown)'
  BY <1>2, <1>7, <1>8, <1>9, <1>10 DEF PageShows
<1>12. PageInv'
  BY <1>2, <1>11 DEF WebInv, PageInv
<1> QED BY <1>6, <1>12 DEF WebInv

\* The connection to the browser is given an event.
LEMMA WebAdmin ==
  ASSUME Types, WebInv, NEW u \in Threads, AdminSend(u) PROVE WebInv'
<1> DEFINE ev == pending[u]
<1>1. /\ ev \in Event /\ pending \in [Threads -> Event \cup {NoEvent}]
      /\ pending' = [pending EXCEPT ![u] = NoEvent]
      /\ inbox' = IF web = "on" THEN Append(inbox, ev) ELSE inbox
      /\ UNCHANGED <<lastIp, announced, web, wpanel>>
  BY DEF AdminSend, WsSend, Ready, Types, EventTypes, ipVars
<1>2. \A w \in Threads : pending'[w] = IF w = u THEN NoEvent ELSE pending[w]
  BY <1>1
<1>3. NoEvent.type = "none"
  BY DEF NoEvent, Plain
<1>4. PendingInv'
  BY <1>1, <1>2, <1>3 DEF WebInv, PendingInv, Threads, Polled
<1>5. /\ Given \in 0..Len(announced) /\ Len(announced) \in Nat
      /\ Len(inbox) \in Nat /\ Cardinality(Places(inbox, "ip_changed")) \in Nat
  BY GivenType
<1>6. ev.type \in Polled => /\ u = "main" /\ announced # <<>>
                            /\ ev.ip = announced[Len(announced)] /\ Len(announced) # 0
  <2>1. ev.type \in Polled => u = "main" /\ announced # <<>> /\ ev.ip = lastIp
    BY DEF WebInv, PendingInv, Threads
  <2>2. announced # <<>> => Len(announced) # 0
    BY EmptySeq DEF Types, IpTypes
  <2> QED BY <2>1, <2>2 DEF WebInv, PendingInv, At
<1>7. /\ Given' = IF ev.type = "ip_changed" THEN Given + 1 ELSE Given
      /\ ev.type \in Polled => Given' = Len(announced)
  BY <1>1, <1>2, <1>3, <1>5, <1>6 DEF Given, Threads, Polled
<1>8. PICK t, shown : PageShows(t, shown)
  BY DEF WebInv, PageInv
<1>9. CASE web = "on"
  <2> DEFINE n == Given'
  <2>1. Appended(inbox', inbox, ev)
    BY <1>1, <1>9, AppendAppends DEF Types, PanelTypes
  <2>2. /\ Follows(t, shown, inbox, announced, NoIp, "ip_changed", "poll_unchanged")
        /\ t[Len(inbox)] = Given /\ t[0] + Cardinality(Places(inbox, "ip_changed")) = Given
    BY <1>8, <1>9 DEF PageShows
  <2>3. n \in 0..Len(announced)
    BY <1>5, <1>7 DEF Polled
  <2>4. /\ n = IF ev.type = "ip_changed" THEN t[Len(inbox)] + 1 ELSE t[Len(inbox)]
        /\ ev.type \in {"ip_changed", "poll_unchanged"} => n # 0 /\ ev.ip = announced[n]
    BY <1>6, <1>7, <2>2 DEF Polled
  <2> HIDE DEF n, ev
  <2>5. PICK v : /\ Follows(v, shown, inbox', announced, NoIp, "ip_changed", "poll_unchanged")
                 /\ v[0] = t[0] /\ v[Len(inbox')] = n
    BY ONLY Len(announced) \in Nat, <1>5, <2>1, <2>2, <2>3, <2>4, FollowsSend
  <2>6. v[0] + Cardinality(Places(inbox', "ip_changed")) = n
    <3>1. t[0] \in Nat
      BY <1>5, <2>2 DEF Follows
    <3>2. Cardinality(Places(inbox', "ip_changed"))
            = IF ev.type = "ip_changed" THEN Cardinality(Places(inbox, "ip_changed")) + 1
                                        ELSE Cardinality(Places(inbox, "ip_changed"))
      BY <2>1, PlacesAppended
    <3>3. n = IF ev.type = "ip_changed" THEN Given + 1 ELSE Given
      BY <2>2, <2>4
    <3>4. v[0] = t[0] /\ t[0] + Cardinality(Places(inbox, "ip_changed")) = Given
      BY <2>2, <2>5
    <3>5. Given \in Nat /\ Cardinality(Places(inbox, "ip_changed")) \in Nat
      BY <1>5
    <3> QED BY ONLY <3>1, <3>2, <3>3, <3>4, <3>5
  <2>7. PageShows(v, shown)'
    BY <1>1, <1>8, <2>5, <2>6 DEF PageShows, n
  <2> QED BY <1>1, <1>4, <1>9, <2>7 DEF WebInv, PageInv
<1>10. CASE web # "on"
  <2>1. PageShows(t, shown)'
    BY <1>1, <1>8, <1>10 DEF PageShows
  <2> QED BY <1>1, <1>4, <1>10, <2>1 DEF WebInv, PageInv
<1> QED BY <1>9, <1>10

\* The page reads an event.
LEMMA WebReads ==
  ASSUME Types, WebInv, OnMessage PROVE WebInv'
<1>1. /\ Taken(inbox', inbox) /\ Head(inbox) = inbox[1] /\ inbox[1] \in Event
      /\ UNCHANGED <<pending, lastIp, announced, web>> /\ web = "on"
  <2>1. Taken(inbox', inbox) /\ Head(inbox) = inbox[1] /\ inbox[1] \in Event
    BY TailTakes DEF OnMessage, Types, PanelTypes
  <2> QED BY <2>1 DEF OnMessage, WebInv, PageInv, ipVars, eventVars
<1>2. PendingInv' /\ Given' = Given
  BY <1>1 DEF WebInv, PendingInv, Given
<1>3. PICK t, shown : PageShows(t, shown)
  BY DEF WebInv, PageInv
<1> DEFINE ev == inbox[1]
<1>4. /\ wpanel'.ip = IF ev.type \in {"ip_changed", "poll_unchanged"} THEN ev.ip ELSE wpanel.ip
      /\ wpanel'.history = IF ev.type = "ip_changed"
                           THEN Capped(Append(wpanel.history, ev.ip)) ELSE wpanel.history
  BY <1>1 DEF OnMessage, Apply, IpAfter
<1>5. PICK shown1 :
        shown1 = IF ev.type \in {"ip_changed", "poll_unchanged"} THEN ev.ip ELSE shown
  OBVIOUS
<1>6. wpanel'.ip \in {NoIp, shown1}
  BY <1>3, <1>4, <1>5 DEF PageShows
<1>7. Follows(t, shown, inbox, announced, NoIp, "ip_changed", "poll_unchanged")
  BY <1>3 DEF PageShows
<1> DEFINE F(v) == Follows(v, shown1, inbox', announced, NoIp, "ip_changed", "poll_unchanged")
<1>8. /\ \E v : F(v) /\ v[0] = t[1] /\ v[Len(inbox')] = t[Len(inbox)]
      /\ t[0] \in 0..Len(announced) /\ t[1] \in 0..Len(announced)
      /\ t[1] = IF ev.type = "ip_changed" THEN t[0] + 1 ELSE t[0]
      /\ ev.type = "ip_changed" => ev.ip = announced[t[1]]
  BY ONLY <1>1, <1>5, <1>7, FollowsDrain
<1>9. PICK v : F(v) /\ v[0] = t[1] /\ v[Len(inbox')] = t[Len(inbox)]
  BY <1>8
<1>10. /\ wpanel.history \in Seq(IPs) /\ Len(wpanel.history) \in Nat
       /\ Len(announced) \in Nat /\ Given \in Nat
       /\ Cardinality(Places(inbox, "ip_changed")) \in Nat
  BY GivenType
<1>11. Trailing(wpanel'.history, announced, t[1])
  <2>1. Trailing(wpanel.history, announced, t[0]) /\ t[0] \in Nat
    BY <1>3, <1>8, <1>10 DEF PageShows
  <2>2. CASE ev.type = "ip_changed"
    <3>1. \A s : Capped(s) = LastOf(s, LogCapacity)
      BY DEF Capped, LastOf
    <3>2. ev.ip \in IPs /\ LogCapacity \in Nat \ {0}
      <4>1. 1 \in DOMAIN inbox
        BY <1>1 DEF Taken
      <4> QED BY <2>2, <4>1, ServerPanelAssumption DEF Types, PanelTypes, Sound
    <3>3. Pushed(wpanel'.history, wpanel.history, announced[t[0] + 1], LogCapacity)
      <4>1. /\ wpanel'.history = LastOf(Append(wpanel.history, ev.ip), LogCapacity)
            /\ ev.ip = announced[t[0] + 1]
        BY <1>4, <1>8, <2>2, <3>1
      <4> HIDE DEF ev
      <4> QED BY <1>10, <3>2, <4>1, LastOfAppend
    <3>4. t[1] = t[0] + 1
      BY <1>8, <2>2
    <3> QED BY <1>10, <2>1, <3>2, <3>3, <3>4, TrailingPush
  <2>3. CASE ev.type # "ip_changed"
    BY <1>4, <1>8, <2>1, <2>3
  <2> QED BY <2>2, <2>3
<1>12. v[0] + Cardinality(Places(inbox', "ip_changed")) = Given
  <2>1. t[0] + Cardinality(Places(inbox, "ip_changed")) = Given
    BY <1>1, <1>3 DEF PageShows
  <2>2. Cardinality(Places(inbox', "ip_changed"))
          = IF ev.type = "ip_changed" THEN Cardinality(Places(inbox, "ip_changed")) - 1
                                      ELSE Cardinality(Places(inbox, "ip_changed"))
    BY <1>1, PlacesTaken
  <2>3. t[0] \in Nat
    BY <1>8, <1>10
  <2> HIDE DEF ev
  <2> QED BY <1>8, <1>9, <1>10, <2>1, <2>2, <2>3
<1>13. v[Len(inbox')] = Given
  BY <1>1, <1>3, <1>9 DEF PageShows
<1>14. PageShows(v, shown1)'
  BY <1>1, <1>2, <1>6, <1>9, <1>11, <1>12, <1>13 DEF PageShows
<1> QED BY <1>1, <1>2, <1>14 DEF WebInv, PageInv

\* The browser is used.
LEMMA WebBrowse ==
  ASSUME Types, WebInv, Browser PROVE WebInv'
<1>1. CASE OnMessage
  BY <1>1, WebReads
<1>2. ASSUME OpenPage \/ WebJoin \/ Freeze \/ ClosePage PROVE WebInv'
  <2>1. UNCHANGED <<pending, lastIp, announced>>
    BY <1>2 DEF OpenPage, WebJoin, Freeze, ClosePage, Browse, ipVars, eventVars
  <2>2. PendingInv' /\ Given' = Given
    BY <2>1 DEF WebInv, PendingInv, Given
  <2>3. EmptyPanel.ip = NoIp /\ EmptyPanel.history = <<>>
    BY DEF EmptyPanel
  <2>4. Given \in 0..Len(announced) /\ Len(announced) \in Nat
    BY GivenType
  <2>5. CASE wpanel' = EmptyPanel /\ inbox' = <<>>
    <3>0. PICK shown : shown = At(announced, Given, NoIp)
      OBVIOUS
    <3>1. PICK t : /\ Follows(t, shown, <<>>, announced, NoIp, "ip_changed", "poll_unchanged")
                   /\ t[0] = Given /\ t[Len(<<>>)] = Given
                   /\ Cardinality(Places(<<>>, "ip_changed")) = 0
      BY ONLY <2>4, <3>0, NothingOnItsWay
    <3>2. Trailing(<<>>, announced, Given)
      BY <2>4 DEF Trailing
    <3>3. PageShows(t, shown)'
      BY <2>1, <2>2, <2>3, <2>4, <2>5, <3>1, <3>2 DEF PageShows
    <3> QED BY <2>2, <2>5, <3>3 DEF WebInv, PageInv
  <2>6. CASE wpanel' = wpanel /\ inbox' = <<>> /\ web' = "frozen"
    <3>1. PICK t, shown : PageShows(t, shown)
      BY DEF WebInv, PageInv
    <3> DEFINE n == t[0]
    <3>2. n \in 0..Len(announced) /\ shown = At(announced, n, NoIp)
      <4>1. 0 \in 0..Len(inbox)
        BY GivenType
      <4> QED BY <3>1, <4>1 DEF PageShows, Follows
    <3> HIDE DEF n
    <3>3. PICK v : /\ Follows(v, At(announced, n, NoIp), <<>>, announced, NoIp, "ip_changed",
                              "poll_unchanged")
                   /\ v[0] = n
      BY ONLY <2>4, <3>2, NothingOnItsWay
    <3>4. PageShows(v, shown)'
      BY <2>1, <2>6, <3>1, <3>2, <3>3 DEF PageShows, n
    <3> QED BY <2>2, <2>6, <3>4 DEF WebInv, PageInv
  <2>7. \/ wpanel' = EmptyPanel /\ inbox' = <<>>
        \/ wpanel' = wpanel /\ inbox' = <<>> /\ web' = "frozen"
    BY <1>2 DEF OpenPage, WebJoin, Freeze, ClosePage, NewPage, Browse, WebInv, PageInv
  <2> QED BY <2>5, <2>6, <2>7
<1> QED BY <1>1, <1>2 DEF Browser

\* Every step of Next keeps WebInv.
LEMMA WebNext ==
  ASSUME Types, WebInv, [Next]_vars PROVE WebInv'
<1> USE DEF Threads
<1>1. CASE DetectChanged
  BY <1>1, WebChanged
<1>2. CASE DetectNothing
  <2> DEFINE ev == IF Nic = NoIp THEN Plain("error") ELSE OfIp("poll_unchanged", Nic)
  <2>1. Nic \in IPs \cup {NoIp}
    BY DetectType DEF Types, IpTypes, Nic, Detected
  <2>2. /\ ev \in Event /\ Send("main", ev) /\ ev.type # "ip_changed"
        /\ ev.type = "poll_unchanged" => ev.ip = lastIp /\ lastIp # NoIp
    BY <1>2, <2>1 DEF DetectNothing, OfIp, Plain, Event
  <2> HIDE DEF ev
  <2>3. UNCHANGED <<lastIp, announced, web, inbox, wpanel>>
    BY <1>2 DEF DetectNothing, ipVars, shownVars
  <2> QED BY <2>2, <2>3, WebOther
<1>3. CASE Drop
  <2> DEFINE ev == OfPeer("disconnected", Head(todo))
  <2>1. Head(todo) \in Peers
    BY <1>3, TailTakes DEF Drop, Types, ConnTypes
  <2>2. ev \in Event /\ Send("main", ev) /\ ev.type \notin Polled /\ ev.type # "ip_changed"
    BY <1>3, <2>1 DEF Drop, OfPeer, Plain, Event, Polled
  <2> HIDE DEF ev
  <2>3. UNCHANGED <<lastIp, announced, web, inbox, wpanel>>
    BY <1>3 DEF Drop, ipVars, shownVars
  <2> QED BY <2>2, <2>3, WebOther DEF Polled
<1>4. CASE EndHeartbeat
  BY <1>4, WebOther DEF EndHeartbeat, Plain, Event, Polled, ipVars, shownVars
<1>5. CASE AnnounceClient
  <2> DEFINE ev == OfPeer("connected", acc)
  <2>1. acc \in Peers
    BY <1>5 DEF AnnounceClient, Types, ConnTypes
  <2>2. ev \in Event /\ Send("accept", ev) /\ ev.type \notin Polled /\ ev.type # "ip_changed"
    BY <1>5, <2>1 DEF AnnounceClient, OfPeer, Plain, Event, Polled
  <2> HIDE DEF ev
  <2>3. UNCHANGED <<lastIp, announced, web, inbox, wpanel>>
    BY <1>5 DEF AnnounceClient, ipVars, shownVars
  <2> QED BY <2>2, <2>3, WebOther DEF Polled
<1>6. CASE AcceptError
  BY <1>6, WebOther DEF AcceptError, Plain, Event, Polled, ipVars, shownVars
<1>7. CASE \E t \in Threads : AdminSend(t)
  BY <1>7, WebAdmin
<1>8. CASE Browser
  BY <1>8, WebBrowse
<1>9. CASE UNCHANGED <<pending, lastIp, announced, web, inbox, wpanel>>
  BY <1>9 DEF WebInv, PendingInv, PageInv, PageShows, Given
<1>10. \/ StartBroadcast \/ WriteLine \/ EndUpdate \/ Drain
       \/ (\E p \in Peers : Accept(p) \/ ClientArrives(p) \/ Lose(p)) \/ RejectClone \/ Push
       \/ (\E ifaces \in Layouts : NicChange(ifaces)) \/ UNCHANGED vars
       => UNCHANGED <<pending, lastIp, announced, web, inbox, wpanel>>
  BY DEF StartBroadcast, WriteLine, EndUpdate, Drain, Accept, ClientArrives, Lose,
     RejectClone, Push, NicChange, vars, ipVars, listVars, acceptVars, eventVars, shownVars
<1> QED BY <1>1, <1>2, <1>3, <1>4, <1>5, <1>6, <1>7, <1>8, <1>9, <1>10 DEF Next, MainThread

\* At every moment, however late it reads what it is sent and wherever its
\* connection broke off, a page's address and history are those after one and
\* the same announcement: no other address, and of the announcements up to that
\* one the last, with none left out; while the connection lasts it is the newest
\* that is neither on its way nor still in the main thread's hands.
THEOREM WebAlwaysAgrees == Spec => []WebAgrees
<1>1. Init => WebInv
  <2> SUFFICES ASSUME Init PROVE WebInv
    OBVIOUS
  <2>1. /\ announced = <<>> /\ Len(<<>>) = 0 /\ lastIp = NoIp /\ web = "off"
        /\ wpanel = EmptyPanel /\ inbox = <<>>
        /\ pending["main"].type = "none" /\ pending["accept"].type = "none"
    BY DEF Init, NoEvent, Plain
  <2>2. EmptyPanel.ip = NoIp /\ EmptyPanel.history = <<>>
    BY DEF EmptyPanel
  <2>3. Len(announced) \in Nat /\ 0 \in 0..Len(announced)
    BY <2>1
  <2>4. PICK t : /\ Follows(t, At(announced, 0, NoIp), <<>>, announced, NoIp, "ip_changed",
                            "poll_unchanged")
                 /\ t[0] = 0
    BY ONLY <2>3, NothingOnItsWay
  <2>5. Trailing(<<>>, announced, 0)
    BY <2>1 DEF Trailing
  <2>6. PageShows(t, At(announced, 0, NoIp))
    BY <2>1, <2>2, <2>4, <2>5 DEF PageShows
  <2> QED BY <2>1, <2>6 DEF WebInv, PendingInv, PageInv, Polled, At
<1>2. Types /\ WebInv => WebAgrees
  <2> SUFFICES ASSUME Types, WebInv PROVE WebAgrees
    OBVIOUS
  <2>1. PICK t, shown : PageShows(t, shown)
    BY DEF WebInv, PageInv
  <2>2. /\ Len(announced) \in Nat /\ Len(wpanel.history) \in Nat
        /\ wpanel.history \in Seq(IPs) /\ announced \in Seq(IPs)
        /\ Len(inbox) \in Nat /\ Cardinality(Places(inbox, "ip_changed")) \in Nat
    BY GivenType DEF Types, IpTypes
  <2> DEFINE n == t[0]
  <2>3. n \in 0..Len(announced) /\ shown = At(announced, n, NoIp)
    BY <2>1, <2>2 DEF PageShows, Follows
  <2>4. Trailing(wpanel.history, announced, n) /\ wpanel.ip \in {NoIp, shown}
    BY <2>1 DEF PageShows
  <2>5. web = "on" => n = WebTold
    <3>1. WebTold = Given - Cardinality(Places(inbox, "ip_changed"))
      BY <2>2 DEF WebTold, Given, Places
    <3>2. web = "on" => n + Cardinality(Places(inbox, "ip_changed")) = Given
      BY <2>1 DEF PageShows
    <3> HIDE DEF n
    <3> QED BY <2>2, <2>3, <3>1, <3>2
  <2> HIDE DEF n
  <2>6. IsSuffix(wpanel.history, SubSeq(announced, 1, n))
    <3> DEFINE s == SubSeq(announced, 1, n)
    <3>1. n \in Nat /\ n \in Int /\ n <= Len(announced) /\ 1 \in Nat \ {0}
      BY <2>2, <2>3
    <3>2. /\ s \in Seq(IPs) /\ Len(s) = IF 1 <= n THEN n - 1 + 1 ELSE 0
          /\ \A i \in 1..n - 1 + 1 : s[i] = announced[1 + i - 1]
      BY <2>2, <3>1, Slice
    <3> HIDE DEF s
    <3>3. Len(s) = n /\ \A i \in 1..n : s[i] = announced[i]
      <4>1. \A i \in 1..n : i \in 1..n - 1 + 1 /\ 1 + i - 1 = i
        BY <3>1
      <4> QED BY <3>1, <3>2, <4>1
    <3>4. Trailing(wpanel.history, s, Len(s))
      <4>1. /\ Len(wpanel.history) <= n
            /\ \A i \in 1..Len(wpanel.history) :
                 wpanel.history[i] = announced[n - Len(wpanel.history) + i]
        BY <2>4 DEF Trailing
      <4>2. \A i \in 1..Len(wpanel.history) : n - Len(wpanel.history) + i \in 1..n
        BY <2>2, <3>1, <4>1
      <4> QED BY <3>3, <4>1, <4>2 DEF Trailing
    <3>5. IsSuffix(wpanel.history, s)
      BY <2>2, <3>2, <3>4, TrailingSuffix
    <3> QED BY <3>5 DEF s
  <2> QED BY <2>3, <2>4, <2>5, <2>6 DEF WebAgrees, At
<1>3. Types /\ WebInv /\ [Next]_vars => WebInv'
  BY WebNext
<1> QED BY <1>1, <1>2, <1>3, TypesHold, PTL DEF Spec

-----------------------------------------------------------------------------
(***************************************************************************)
(* Whom the native UI will list.                                           *)
(***************************************************************************)

\* A connection is in one place: in the kernel's queue, in the accept thread's
\* hand, or once on the list, before or behind the broadcast that is under way.
\* It is in hand and on the list just between the push and the announcement.
ConnInv ==
  /\ IsInjective(clients) /\ IsInjective(todo)
  /\ ToSet(clients) \cap ToSet(todo) = {}
  /\ backlog \cap (Registered \cup {acc}) = {}
  /\ apc = "push" => acc \notin Registered

\* An event that says whether p is connected.
About(p, ev) == ev.type \in {"connected", "disconnected"} /\ ev.peer = p

\* The last such event in q, or else the panel itself, says that p is.
LastWord(p, shown, q) ==
  /\ (\A i \in DOMAIN q : ~About(p, q[i])) => shown
  /\ \A i \in DOMAIN q :
       (About(p, q[i]) /\ \A j \in DOMAIN q : j > i => ~About(p, q[j]))
         => q[i].type = "connected"

ListedInv == \A p \in Registered \ {acc} : LastWord(p, p \in panel.clients, queue)

\* An element that is appended to a sequence without repetitions.
LEMMA InjectiveAppend ==
  ASSUME NEW s, NEW s1, NEW e, IsInjective(s), Appended(s1, s, e), e \notin ToSet(s)
  PROVE  IsInjective(s1)
BY DEF IsInjective, Appended, ToSet

\* The first element is taken from such a sequence.
LEMMA InjectiveTake ==
  ASSUME NEW s, NEW s1, IsInjective(s), Taken(s1, s)
  PROVE  IsInjective(s1) /\ s[1] \notin ToSet(s1) /\ ToSet(s1) = ToSet(s) \ {s[1]}
<1>1. /\ Len(s) \in Nat \ {0} /\ DOMAIN s = 1..Len(s) /\ DOMAIN s1 = 1..Len(s) - 1
      /\ \A i \in 1..Len(s) - 1 : s1[i] = s[i + 1]
  BY DEF Taken
<1>2. \A i, j \in 1..Len(s) : s[i] = s[j] => i = j
  BY <1>1 DEF IsInjective
<1>3. \A i \in 1..Len(s) - 1 : i + 1 \in 1..Len(s) /\ i + 1 # 1 /\ 1 \in 1..Len(s)
  BY <1>1
<1>4. \A i, j \in 1..Len(s) - 1 : s1[i] = s1[j] => i = j
  BY <1>1, <1>2, <1>3
<1>5. s[1] \notin ToSet(s1)
  BY <1>1, <1>2, <1>3 DEF ToSet
<1>6. ToSet(s) = ToSet(s1) \cup {s[1]}
  BY TakenSet
<1> QED BY <1>1, <1>4, <1>5, <1>6 DEF IsInjective

\* An event about somebody else is sent, or one that says p is connected.
LEMMA LastWordSend ==
  ASSUME NEW p, NEW shown, NEW q, NEW q1, NEW ev, Appended(q1, q, ev),
         IF About(p, ev) THEN ev.type = "connected" ELSE LastWord(p, shown, q)
  PROVE  LastWord(p, shown, q1)
<1>1. CASE About(p, ev)
  BY <1>1 DEF LastWord, Appended
<1>2. CASE ~About(p, ev)
  BY <1>2 DEF LastWord, Appended
<1> QED BY <1>1, <1>2

\* The first event of the queue is applied.
LEMMA LastWordDrain ==
  ASSUME NEW p, NEW shown, NEW shown1, NEW q, NEW q1, LastWord(p, shown, q), Taken(q1, q),
         shown1 <=> IF About(p, q[1]) THEN q[1].type = "connected" ELSE shown
  PROVE  LastWord(p, shown1, q1)
<1>1. \A i \in DOMAIN q1 : i + 1 \in DOMAIN q /\ q1[i] = q[i + 1]
  BY DEF Taken
<1>2. \A j \in DOMAIN q : j > 1 => j - 1 \in DOMAIN q1 /\ q1[j - 1] = q[j]
  BY DEF Taken
<1>3. 1 \in DOMAIN q /\ \A j \in DOMAIN q : j \in Nat /\ j >= 1
  BY DEF Taken
<1>4. ASSUME NEW i \in DOMAIN q1, About(p, q1[i]),
             \A j \in DOMAIN q1 : j > i => ~About(p, q1[j])
      PROVE  q1[i].type = "connected"
  <2>0. i \in Nat /\ i >= 1
    BY DEF Taken
  <2>1. \A j \in DOMAIN q : j > i + 1 => ~About(p, q[j])
    BY <1>2, <1>3, <1>4, <2>0
  <2> QED BY <1>1, <1>4, <2>1 DEF LastWord
<1>5. ASSUME \A i \in DOMAIN q1 : ~About(p, q1[i])
      PROVE  shown1
  <2>1. \A j \in DOMAIN q : j > 1 => ~About(p, q[j])
    BY <1>2, <1>5
  <2>2. CASE About(p, q[1])
    BY <1>3, <2>1, <2>2 DEF LastWord
  <2>3. CASE ~About(p, q[1])
    <3>1. \A j \in DOMAIN q : ~About(p, q[j])
      BY <1>3, <2>1, <2>3
    <3> QED BY <2>3, <3>1 DEF LastWord
  <2> QED BY <2>2, <2>3
<1> QED BY <1>4, <1>5 DEF LastWord

\* Every step of Next keeps each connection in its place.
LEMMA ConnNext ==
  ASSUME Types, ConnInv, [Next]_vars PROVE ConnInv'
<1>1. CASE StartBroadcast
  <2>1. todo = <<>>
    BY <1>1 DEF StartBroadcast, LockFree, Types, ConnTypes
  <2>2. todo' = clients /\ clients' = <<>> /\ UNCHANGED <<backlog, apc, acc>>
    BY <1>1 DEF StartBroadcast, acceptVars
  <2>3. Registered' = Registered /\ ToSet(clients') = {} /\ IsInjective(<<>>)
    BY <2>1, <2>2 DEF Registered, ToSet, IsInjective
  <2> QED BY <2>2, <2>3 DEF ConnInv
<1>2. CASE WriteLine
  <2>1. Taken(todo', todo) /\ Head(todo) = todo[1] /\ todo[1] \in Peers
    BY <1>2, TailTakes DEF WriteLine, Types, ConnTypes
  <2>2. Appended(clients', clients, todo[1])
    BY <1>2, <2>1, AppendAppends DEF WriteLine, Types, ConnTypes
  <2>3. /\ IsInjective(todo') /\ todo[1] \notin ToSet(todo')
        /\ ToSet(todo) = ToSet(todo') \cup {todo[1]}
    BY <2>1, InjectiveTake, TakenSet DEF ConnInv
  <2>4. ToSet(clients') = ToSet(clients) \cup {todo[1]} /\ todo[1] \notin ToSet(clients)
    BY <2>2, <2>3, AppendedSet DEF ConnInv
  <2>5. IsInjective(clients')
    BY <2>2, <2>4, InjectiveAppend DEF ConnInv
  <2>6. Registered' = Registered
    BY <2>3, <2>4 DEF Registered
  <2> QED BY <1>2, <2>3, <2>4, <2>5, <2>6 DEF WriteLine, ConnInv, acceptVars
<1>3. CASE Drop
  <2>1. Taken(todo', todo)
    BY <1>3, TailTakes DEF Drop, Types, ConnTypes
  <2>2. IsInjective(todo') /\ ToSet(todo) = ToSet(todo') \cup {todo[1]}
    BY <2>1, InjectiveTake, TakenSet DEF ConnInv
  <2>3. Registered' \subseteq Registered
    BY <1>3, <2>2 DEF Drop, Registered
  <2> QED BY <1>3, <2>2, <2>3 DEF Drop, ConnInv
<1>4. CASE Push
  <2>1. acc \in Peers /\ todo = <<>>
    BY <1>4 DEF Push, Types, ConnTypes
  <2>2. Appended(clients', clients, acc)
    BY <1>4, <2>1, AppendAppends DEF Push, Types, ConnTypes
  <2>3. ToSet(clients') = ToSet(clients) \cup {acc} /\ acc \notin ToSet(clients)
    BY <1>4, <2>2, AppendedSet DEF Push, ConnInv, Registered
  <2>4. IsInjective(clients')
    BY <2>2, <2>3, InjectiveAppend DEF ConnInv
  <2>5. ToSet(todo) = {}
    BY <2>1 DEF ToSet
  <2> QED BY <1>4, <2>3, <2>4, <2>5 DEF Push, ConnInv, Registered
<1>5. ASSUME NEW p \in Peers, Accept(p) PROVE ConnInv'
  BY <1>5 DEF Accept, ConnInv, Registered, listVars
<1>6. ASSUME NEW p \in Peers, ClientArrives(p) PROVE ConnInv'
  BY <1>6 DEF ClientArrives, ConnInv, Registered, listVars
<1>7. CASE RejectClone \/ AnnounceClient
  BY <1>7, ServerPanelAssumption
     DEF RejectClone, AnnounceClient, ConnInv, Registered, listVars, Types, ConnTypes
<1>8. CASE UNCHANGED <<clients, todo, backlog, apc, acc>>
  BY <1>8 DEF ConnInv, Registered
<1>9. \/ DetectChanged \/ DetectNothing \/ EndUpdate \/ EndHeartbeat \/ AcceptError
      \/ (\E t \in Threads : AdminSend(t)) \/ Drain \/ Browser
      \/ (\E p \in Peers : Lose(p)) \/ (\E ifaces \in Layouts : NicChange(ifaces))
      \/ UNCHANGED vars
      => UNCHANGED <<clients, todo, backlog, apc, acc>>
  BY DEF DetectChanged, DetectNothing, EndUpdate, EndHeartbeat, AcceptError, AdminSend, Drain,
     Browser, OpenPage, WebJoin, OnMessage, Freeze, ClosePage, Browse, Lose, NicChange,
     vars, listVars, acceptVars
<1> QED BY <1>1, <1>2, <1>3, <1>4, <1>5, <1>6, <1>7, <1>8, <1>9
        DEF Next, MainThread, Threads

\* An event is sent that is not about any client that stays registered, or that
\* is the arrival of the one it is about.
LEMMA ListedSend ==
  ASSUME Types, ListedInv, NEW t \in Threads, NEW ev \in Event, Sound(ev), Send(t, ev),
         UNCHANGED panel,
         \A p \in (Registered \ {acc})' :
           IF About(p, ev) THEN ev.type = "connected" ELSE p \in Registered \ {acc}
  PROVE  ListedInv'
<1>1. Appended(queue', queue, ev)
  BY SendEvent DEF Types
<1>2. ASSUME NEW p \in (Registered \ {acc})'
      PROVE  LastWord(p, p \in panel.clients, queue')
  <2>1. IF About(p, ev) THEN ev.type = "connected" ELSE LastWord(p, p \in panel.clients, queue)
    BY <1>2 DEF ListedInv
  <2> QED BY <1>1, <2>1, LastWordSend
<1> QED BY <1>2 DEF ListedInv

\* The UI takes an event.
LEMMA ListedDrain ==
  ASSUME Types, ListedInv, Drain PROVE ListedInv'
<1>1. Taken(queue', queue) /\ Head(queue) = queue[1]
  BY TailTakes DEF Drain, Types, EventTypes
<1>2. panel'.clients = ClientsAfter(panel, queue[1]) /\ UNCHANGED <<Registered, acc>>
  BY <1>1 DEF Drain, Apply, Registered, listVars, acceptVars
<1>3. ASSUME NEW p \in Registered \ {acc} PROVE LastWord(p, p \in panel'.clients, queue')
  <2>1. (p \in panel'.clients)
          <=> IF About(p, queue[1]) THEN queue[1].type = "connected" ELSE p \in panel.clients
    BY <1>2 DEF ClientsAfter, About
  <2>2. LastWord(p, p \in panel.clients, queue)
    BY DEF ListedInv
  <2> QED BY <1>1, <2>1, <2>2, LastWordDrain
<1> QED BY <1>2, <1>3 DEF ListedInv

\* Every step of Next keeps ListedInv.
LEMMA ListedNext ==
  ASSUME Types, ConnInv, ListedInv, [Next]_vars PROVE ListedInv'
<1> USE DEF Threads
<1>1. CASE DetectChanged
  <2> DEFINE ev == OfIp("ip_changed", Nic)
  <2>1. Nic \in IPs
    BY <1>1, DetectType DEF DetectChanged, Types, IpTypes, Nic, Detected
  <2>2. ev \in Event /\ Sound(ev) /\ Send("main", ev) /\ \A p : ~About(p, ev)
    BY <1>1, <2>1 DEF DetectChanged, OfIp, Plain, Event, Sound, About
  <2>3. UNCHANGED <<panel, Registered, acc>>
    BY <1>1 DEF DetectChanged, Registered, acceptVars, shownVars
  <2> HIDE DEF ev
  <2> QED BY <2>2, <2>3, ListedSend
<1>2. CASE DetectNothing
  <2> DEFINE ev == IF Nic = NoIp THEN Plain("error") ELSE OfIp("poll_unchanged", Nic)
  <2>1. Nic \in IPs \cup {NoIp}
    BY DetectType DEF Types, IpTypes, Nic, Detected
  <2>2. ev \in Event /\ Sound(ev) /\ Send("main", ev) /\ \A p : ~About(p, ev)
    BY <1>2, <2>1 DEF DetectNothing, OfIp, Plain, Event, Sound, About
  <2>3. UNCHANGED <<panel, Registered, acc>>
    BY <1>2 DEF DetectNothing, Registered, acceptVars, shownVars
  <2> HIDE DEF ev
  <2> QED BY <2>2, <2>3, ListedSend
<1>3. CASE Drop
  <2> DEFINE ev == OfPeer("disconnected", todo[1])
  <2>1. Taken(todo', todo) /\ Head(todo) = todo[1] /\ todo[1] \in Peers
    BY <1>3, TailTakes DEF Drop, Types, ConnTypes
  <2>2. ev \in Event /\ Sound(ev) /\ Send("main", ev) /\ ev.peer = todo[1]
    BY <1>3, <2>1 DEF Drop, OfPeer, Plain, Event, Sound
  <2> HIDE DEF ev
  <2>3. ToSet(todo') = ToSet(todo) \ {todo[1]} /\ todo[1] \in ToSet(todo)
    BY <2>1, InjectiveTake, TakenSet DEF ConnInv
  <2>4. Registered' = Registered \ {todo[1]} /\ UNCHANGED <<panel, acc>>
    BY <1>3, <2>3 DEF Drop, Registered, ConnInv, shownVars
  <2>5. \A p \in (Registered \ {acc})' : ~About(p, ev) /\ p \in Registered \ {acc}
    BY <2>2, <2>4 DEF About
  <2> QED BY <2>2, <2>4, <2>5, ListedSend
<1>4. CASE EndHeartbeat
  <2> DEFINE ev == Plain("heartbeat_sent")
  <2>1. ev \in Event /\ Sound(ev) /\ Send("main", ev) /\ \A p : ~About(p, ev)
    BY <1>4 DEF EndHeartbeat, Plain, Event, Sound, About
  <2>2. UNCHANGED <<panel, Registered, acc>>
    BY <1>4 DEF EndHeartbeat, Registered, acceptVars, shownVars
  <2> HIDE DEF ev
  <2> QED BY <2>1, <2>2, ListedSend
<1>5. CASE AnnounceClient
  <2> DEFINE ev == OfPeer("connected", acc)
  <2>1. acc \in Peers
    BY <1>5 DEF AnnounceClient, Types, ConnTypes
  <2>2. /\ ev \in Event /\ Sound(ev) /\ Send("accept", ev)
        /\ ev.type = "connected" /\ ev.peer = acc
    BY <1>5, <2>1 DEF AnnounceClient, OfPeer, Plain, Event, Sound
  <2> HIDE DEF ev
  <2>3. UNCHANGED <<panel, Registered>>
    BY <1>5 DEF AnnounceClient, Registered, listVars, shownVars
  <2>4. \A p \in (Registered \ {acc})' :
          IF About(p, ev) THEN ev.type = "connected" ELSE p \in Registered \ {acc}
    BY <2>2, <2>3 DEF About
  <2> QED BY <2>2, <2>3, <2>4, ListedSend
<1>6. CASE AcceptError
  <2> DEFINE ev == Plain("error")
  <2>1. ev \in Event /\ Sound(ev) /\ Send("accept", ev) /\ \A p : ~About(p, ev)
    BY <1>6 DEF AcceptError, Plain, Event, Sound, About
  <2>2. UNCHANGED <<panel, Registered, acc>>
    BY <1>6 DEF AcceptError, Registered, listVars, acceptVars, shownVars
  <2> HIDE DEF ev
  <2> QED BY <2>1, <2>2, ListedSend
<1>7. CASE Drain
  BY <1>7, ListedDrain
<1>8. CASE UNCHANGED <<queue, panel>> /\ (Registered \ {acc})' \subseteq Registered \ {acc}
  BY <1>8 DEF ListedInv
<1>9. ASSUME StartBroadcast \/ WriteLine
      PROVE  UNCHANGED <<queue, panel, Registered, acc>>
  <2>1. CASE StartBroadcast
    <3>1. todo = <<>>
      BY <2>1 DEF StartBroadcast, LockFree, Types, ConnTypes
    <3> QED BY <2>1, <3>1 DEF StartBroadcast, Registered, ToSet, acceptVars, eventVars, shownVars
  <2>2. CASE WriteLine
    <3>1. Taken(todo', todo) /\ Head(todo) = todo[1] /\ todo[1] \in Peers
      BY <2>2, TailTakes DEF WriteLine, Types, ConnTypes
    <3>2. Appended(clients', clients, todo[1])
      BY <2>2, <3>1, AppendAppends DEF WriteLine, Types, ConnTypes
    <3>3. /\ ToSet(todo) = ToSet(todo') \cup {todo[1]}
          /\ ToSet(clients') = ToSet(clients) \cup {todo[1]}
      BY <3>1, <3>2, TakenSet, AppendedSet
    <3> QED BY <2>2, <3>3 DEF WriteLine, Registered, acceptVars, eventVars, shownVars
  <2> QED BY <1>9, <2>1, <2>2
<1>10. CASE Push
  <2>1. acc \in Peers
    BY <1>10 DEF Push, Types, ConnTypes
  <2>2. Appended(clients', clients, acc)
    BY <1>10, <2>1, AppendAppends DEF Push, Types, ConnTypes
  <2>3. ToSet(clients') = ToSet(clients) \cup {acc}
    BY <2>2, AppendedSet
  <2> QED BY <1>8, <1>10, <2>3 DEF Push, Registered, eventVars, shownVars
<1>11. ASSUME (\E p \in Peers : Accept(p)) \/ RejectClone
       PROVE  UNCHANGED <<queue, panel>> /\ (Registered \ {acc})' \subseteq Registered \ {acc}
  <2>1. UNCHANGED <<queue, panel, Registered>>
    BY <1>11 DEF Accept, RejectClone, Registered, listVars, eventVars, shownVars
  <2>2. acc \notin Registered
    <3>1. Registered \subseteq Peers
      BY DEF Registered, ToSet, Types, ConnTypes
    <3> QED BY <1>11, <3>1, ServerPanelAssumption
            DEF Accept, RejectClone, ConnInv, Types, ConnTypes
  <2> QED BY <2>1, <2>2
<1>12. \/ EndUpdate \/ (\E t \in Threads : AdminSend(t)) \/ Browser
       \/ (\E p \in Peers : ClientArrives(p) \/ Lose(p))
       \/ (\E ifaces \in Layouts : NicChange(ifaces)) \/ UNCHANGED vars
       => UNCHANGED <<queue, panel, Registered, acc>>
  BY DEF EndUpdate, AdminSend, Browser, OpenPage, WebJoin, OnMessage, Freeze, ClosePage,
     Browse, ClientArrives, Lose, NicChange, vars, listVars, acceptVars, eventVars,
     shownVars, Registered
<1> QED BY <1>1, <1>2, <1>3, <1>4, <1>5, <1>6, <1>7, <1>8, <1>9, <1>10, <1>11, <1>12
        DEF Next, MainThread

\* With nothing left in its channel the native UI lists every client that is on
\* the server's list and has been announced: its "disconnected" of before never
\* comes after its "connected" of now.
THEOREM ClientsAlwaysListed == Spec => []NativeListsClients
<1>1. Init => ConnInv /\ ListedInv
  BY ServerPanelAssumption DEF Init, ConnInv, ListedInv, Registered, ToSet, IsInjective
<1>2. ListedInv => NativeListsClients
  <2> SUFFICES ASSUME ListedInv, queue = <<>>, NEW p \in Registered \ {acc}
               PROVE  p \in panel.clients
    BY DEF NativeListsClients
  <2> QED BY DEF ListedInv, LastWord
<1>3. Types /\ ConnInv /\ ListedInv /\ [Next]_vars => ConnInv' /\ ListedInv'
  BY ConnNext, ListedNext
<1> QED BY <1>1, <1>2, <1>3, TypesHold, PTL DEF Spec

-----------------------------------------------------------------------------
(***************************************************************************)
(* What the native UI shows at every moment.                               *)
(***************************************************************************)

\* last_ip is the address announced last; the panel shows that of the last
\* announcement it has been told of, and each event in the channel that has an
\* address has that of the last one told of when it is applied.
FollowInv ==
  /\ lastIp = At(announced, Len(announced), NoIp)
  /\ \E t : /\ Tells(t, panel.ip, queue, announced, NoIp, "ip_changed", "poll_unchanged")
            /\ t[0] + Cardinality(Places(queue, "ip_changed")) = Len(announced)

\* How many that is.
LEMMA ToldIs ==
  ASSUME Types, NEW n \in Nat,
         n + Cardinality(Places(queue, "ip_changed")) = Len(announced)
  PROVE  Told = n
<1>1. Len(queue) \in Nat /\ DOMAIN queue = 1..Len(queue) /\ Len(announced) \in Nat
  BY LenProperties DEF Types, EventTypes, IpTypes
<1>2. Cardinality(Places(queue, "ip_changed")) \in Nat
  BY <1>1, PlacesFinite
<1>3. Told = Len(announced) - Cardinality(Places(queue, "ip_changed"))
  BY DEF Told, Places
<1> QED BY <1>1, <1>2, <1>3

\* Anything but the announcement of an address is sent: the UI has been told of
\* as much as before.
LEMMA FollowOther ==
  ASSUME Types, FollowInv, NEW t \in Threads, NEW ev \in Event, Sound(ev), Send(t, ev),
         ev.type # "ip_changed", ev.type = "poll_unchanged" => ev.ip = lastIp /\ lastIp # NoIp,
         UNCHANGED <<panel, lastIp, announced>>
  PROVE  FollowInv' /\ Told' = Told
<1>1. Appended(queue', queue, ev)
  BY SendEvent DEF Types
<1>2. PICK f : /\ Tells(f, panel.ip, queue, announced, NoIp, "ip_changed", "poll_unchanged")
               /\ f[0] + Cardinality(Places(queue, "ip_changed")) = Len(announced)
  BY DEF FollowInv
<1>3. Len(announced) \in Nat
  BY DEF Types, IpTypes
<1>4. ev.type = "poll_unchanged" => Len(announced) # 0 /\ ev.ip = announced[Len(announced)]
  BY DEF FollowInv, At
<1>5. PICK u : /\ Tells(u, panel.ip, queue', announced, NoIp, "ip_changed", "poll_unchanged")
               /\ u[0] = f[0]
  BY ONLY <1>1, <1>2, <1>3, <1>4, ev.type # "ip_changed", TellsOther
<1>6. Cardinality(Places(queue', "ip_changed")) = Cardinality(Places(queue, "ip_changed"))
  BY <1>1, PlacesAppended
<1>7. Told' = Told
  BY <1>6 DEF Told, Places
<1> QED BY <1>2, <1>5, <1>6, <1>7 DEF FollowInv

\* An address is announced, and the UI yet to be told of it.
LEMMA FollowChanged ==
  ASSUME Types, FollowInv, DetectChanged
  PROVE  FollowInv' /\ Told' = Told /\ Nic \in IPs
<1> USE DEF Threads
<1>0. Nic \in IPs
  BY DetectType DEF DetectChanged, Types, IpTypes, Nic, Detected
<1> DEFINE ev == OfIp("ip_changed", Nic)
<1>1. /\ ev \in Event /\ Sound(ev) /\ Send("main", ev)
      /\ ev.type = "ip_changed" /\ ev.ip = Nic
  BY <1>0 DEF DetectChanged, OfIp, Plain, Event, Sound
<1> HIDE DEF ev
<1>2. Appended(queue', queue, ev)
  BY <1>1, SendEvent DEF Types
<1>3. lastIp' = Nic /\ panel' = panel
  BY DEF DetectChanged, shownVars
<1>4. Appended(announced', announced, ev.ip)
  BY <1>0, <1>1, AppendAppends DEF DetectChanged, Types, IpTypes
<1>5. lastIp' = At(announced', Len(announced'), NoIp)
  BY <1>1, <1>3, <1>4 DEF At, Appended
<1>6. PICK f : /\ Tells(f, panel.ip, queue, announced, NoIp, "ip_changed", "poll_unchanged")
               /\ f[0] + Cardinality(Places(queue, "ip_changed")) = Len(announced)
  BY DEF FollowInv
<1>7. PICK u : /\ Tells(u, panel.ip, queue', announced', NoIp, "ip_changed", "poll_unchanged")
               /\ u[0] = f[0]
  <2>1. Tells(f, panel.ip, queue, announced, NoIp, "ip_changed", "poll_unchanged")
    BY <1>6
  <2>2. ev.type = "ip_changed"
    BY <1>1
  <2> QED BY ONLY <1>2, <1>4, <2>1, <2>2, TellsNews
<1>8. /\ Cardinality(Places(queue', "ip_changed")) = Cardinality(Places(queue, "ip_changed")) + 1
      /\ Cardinality(Places(queue, "ip_changed")) \in Nat
      /\ Len(announced') = Len(announced) + 1 /\ Len(announced) \in Nat
  <2>1. Len(queue) \in Nat /\ DOMAIN queue = 1..Len(queue)
    BY <1>2 DEF Appended
  <2> QED BY <1>1, <1>2, <1>4, <2>1, PlacesAppended, PlacesFinite DEF Appended
<1>9. Told' = Told
  BY <1>8 DEF Told, Places
<1>10. f[0] \in Nat
  <2>1. Len(queue) \in Nat /\ 0 \in 0..Len(queue)
    BY <1>2 DEF Appended
  <2> QED BY <1>6, <1>8, <2>1 DEF Tells, Follows
<1>11. u[0] + Cardinality(Places(queue', "ip_changed")) = Len(announced')
  BY <1>6, <1>7, <1>8, <1>10
<1> QED BY <1>0, <1>3, <1>5, <1>7, <1>9, <1>11 DEF FollowInv

\* The UI takes an event: it is told of the next announcement, and shows it, or
\* shows what it did.
LEMMA FollowDrain ==
  ASSUME Types, FollowInv, Drain
  PROVE  /\ FollowInv' /\ UNCHANGED announced
         /\ \/ UNCHANGED panel.ip /\ Told' = Told
            \/ /\ Told \in Nat /\ Told' \in DOMAIN announced /\ Told' = Told + 1
               /\ panel'.ip = announced[Told']
<1>1. Taken(queue', queue) /\ Head(queue) = queue[1] /\ UNCHANGED <<lastIp, announced>>
  BY TailTakes DEF Drain, Types, EventTypes, ipVars
<1>2. panel'.ip = IF queue[1].type \in {"ip_changed", "poll_unchanged"}
                  THEN queue[1].ip ELSE panel.ip
  BY <1>1 DEF Drain, Apply, IpAfter
<1>3. PICK f : /\ Tells(f, panel.ip, queue, announced, NoIp, "ip_changed", "poll_unchanged")
               /\ f[0] + Cardinality(Places(queue, "ip_changed")) = Len(announced)
  BY DEF FollowInv
<1> DEFINE T(u) == Tells(u, panel'.ip, queue', announced, NoIp, "ip_changed", "poll_unchanged")
<1>4. /\ \E u : T(u) /\ u[0] = f[1]
      /\ f[0] \in 0..Len(announced) /\ f[1] \in 0..Len(announced)
      /\ panel'.ip = At(announced, f[1], NoIp)
      /\ f[1] = IF queue[1].type = "ip_changed" THEN f[0] + 1 ELSE f[0]
  BY ONLY <1>1, <1>2, <1>3, TellsDrain
<1>5. panel.ip = At(announced, f[0], NoIp)
  BY <1>3 DEF Tells, Follows
<1>6. /\ Len(announced) \in Nat /\ DOMAIN announced = 1..Len(announced)
      /\ Cardinality(Places(queue, "ip_changed")) \in Nat
      /\ Cardinality(Places(queue', "ip_changed"))
           = IF queue[1].type = "ip_changed"
             THEN Cardinality(Places(queue, "ip_changed")) - 1
             ELSE Cardinality(Places(queue, "ip_changed"))
  <2>1. Len(queue) \in Nat /\ DOMAIN queue = 1..Len(queue)
    BY <1>1 DEF Taken
  <2>2. Len(announced) \in Nat /\ DOMAIN announced = 1..Len(announced)
    BY LenProperties DEF Types, IpTypes
  <2> QED BY <1>1, <2>1, <2>2, PlacesTaken, PlacesFinite
<1>7. f[0] \in Nat /\ f[1] \in Nat
  BY <1>4, <1>6
<1>8. f[1] + Cardinality(Places(queue', "ip_changed")) = Len(announced)
  BY <1>3, <1>4, <1>6, <1>7
<1>9. Told = f[0]
  BY <1>3, <1>7, ToldIs
<1>10. Told' = f[1]
  <2>1. Told' = Len(announced) - Cardinality(Places(queue', "ip_changed"))
    BY <1>1 DEF Told, Places
  <2>2. Cardinality(Places(queue', "ip_changed")) \in Int
    BY <1>6
  <2> QED BY <1>6, <1>7, <1>8, <2>1, <2>2
<1>11. FollowInv'
  <2>1. PICK u : T(u) /\ u[0] = f[1]
    BY <1>4
  <2> QED BY <1>1, <1>8, <2>1 DEF FollowInv
<1>12. CASE queue[1].type = "ip_changed"
  <2>1. f[1] = f[0] + 1 /\ f[1] \in 1..Len(announced)
    BY <1>4, <1>7, <1>12
  <2>2. panel'.ip = announced[f[1]]
    BY <1>4, <1>7, <2>1 DEF At
  <2> QED BY <1>1, <1>6, <1>7, <1>9, <1>10, <1>11, <2>1, <2>2
<1>13. CASE queue[1].type # "ip_changed"
  BY <1>1, <1>4, <1>5, <1>9, <1>10, <1>11, <1>13
<1> QED BY <1>12, <1>13

\* A step announces an address, takes an event, or changes nothing that the
\* abstract replica is made of.
LEMMA FollowNext ==
  ASSUME Types, FollowInv, [Next]_vars
  PROVE  /\ FollowInv'
         /\ DetectChanged \/ Drain \/ UNCHANGED <<announced, panel.ip, Told>>
<1> USE DEF Threads
<1>1. CASE DetectChanged
  BY <1>1, FollowChanged
<1>2. CASE Drain
  BY <1>2, FollowDrain
<1>3. CASE DetectNothing
  <2> DEFINE ev == IF Nic = NoIp THEN Plain("error") ELSE OfIp("poll_unchanged", Nic)
  <2>1. Nic \in IPs \cup {NoIp}
    BY DetectType DEF Types, IpTypes, Nic, Detected
  <2>2. /\ ev \in Event /\ Sound(ev) /\ Send("main", ev) /\ ev.type # "ip_changed"
        /\ ev.type = "poll_unchanged" => ev.ip = lastIp /\ lastIp # NoIp
    BY <1>3, <2>1 DEF DetectNothing, OfIp, Plain, Event, Sound
  <2> HIDE DEF ev
  <2>3. UNCHANGED <<panel, lastIp, announced>>
    BY <1>3 DEF DetectNothing, ipVars, shownVars
  <2> QED BY <2>2, <2>3, FollowOther
<1>4. CASE Drop
  <2> DEFINE ev == OfPeer("disconnected", Head(todo))
  <2>1. Head(todo) \in Peers
    BY <1>4, TailTakes DEF Drop, Types, ConnTypes
  <2>2. /\ ev \in Event /\ Sound(ev) /\ Send("main", ev)
        /\ ev.type # "ip_changed" /\ ev.type # "poll_unchanged"
    BY <1>4, <2>1 DEF Drop, OfPeer, Plain, Event, Sound
  <2> HIDE DEF ev
  <2>3. UNCHANGED <<panel, lastIp, announced>>
    BY <1>4 DEF Drop, ipVars, shownVars
  <2> QED BY <2>2, <2>3, FollowOther
<1>5. CASE EndHeartbeat
  BY <1>5, FollowOther DEF EndHeartbeat, Plain, Event, Sound, ipVars, shownVars
<1>6. CASE AnnounceClient
  <2> DEFINE ev == OfPeer("connected", acc)
  <2>1. acc \in Peers
    BY <1>6 DEF AnnounceClient, Types, ConnTypes
  <2>2. /\ ev \in Event /\ Sound(ev) /\ Send("accept", ev)
        /\ ev.type # "ip_changed" /\ ev.type # "poll_unchanged"
    BY <1>6, <2>1 DEF AnnounceClient, OfPeer, Plain, Event, Sound
  <2> HIDE DEF ev
  <2>3. UNCHANGED <<panel, lastIp, announced>>
    BY <1>6 DEF AnnounceClient, ipVars, shownVars
  <2> QED BY <2>2, <2>3, FollowOther
<1>7. CASE AcceptError
  BY <1>7, FollowOther DEF AcceptError, Plain, Event, Sound, ipVars, shownVars
<1>8. CASE UNCHANGED <<queue, panel, lastIp, announced>>
  BY <1>8 DEF FollowInv, Told
<1>9. \/ StartBroadcast \/ WriteLine \/ EndUpdate \/ Browser
      \/ (\E t \in Threads : AdminSend(t))
      \/ (\E p \in Peers : Accept(p) \/ ClientArrives(p) \/ Lose(p)) \/ RejectClone \/ Push
      \/ (\E ifaces \in Layouts : NicChange(ifaces)) \/ UNCHANGED vars
      => UNCHANGED <<queue, panel, lastIp, announced>>
  BY DEF StartBroadcast, WriteLine, EndUpdate, Browser, OpenPage, WebJoin, OnMessage,
     Freeze, ClosePage, Browse, AdminSend, Accept, ClientArrives, Lose, RejectClone, Push,
     NicChange, vars, ipVars, listVars, acceptVars, eventVars, shownVars
<1> QED BY <1>1, <1>2, <1>3, <1>4, <1>5, <1>6, <1>7, <1>8, <1>9 DEF Next, MainThread

\* The native UI implements a hosts file of module Replication, whatever the
\* other thread sends and however far behind the UI is: it shows only what was
\* announced, one announcement after the other, and is never set back.
THEOREM Implements == Spec => Replicates
<1>1. Init => FollowInv /\ Abstract!RepInit
  <2> SUFFICES ASSUME Init PROVE FollowInv /\ Abstract!RepInit
    OBVIOUS
  <2>1. /\ Len(queue) = 1 /\ DOMAIN queue = 1..1 /\ queue[1].type = "listening"
        /\ panel.ip = NoIp /\ lastIp = NoIp /\ announced = <<>> /\ Len(announced) = 0
    BY DEF Init, Plain, EmptyPanel
  <2>2. Places(queue, "ip_changed") = {} /\ Cardinality({}) = 0
    BY <2>1, FS_EmptySet DEF Places
  <2>3. Told = 0
    <3>1. Cardinality(Places(queue, "ip_changed")) = 0
      BY <2>2
    <3>2. Told = Len(announced) - Cardinality(Places(queue, "ip_changed"))
      BY DEF Told, Places
    <3> QED BY <2>1, <3>1, <3>2
  <2> DEFINE t == [i \in 0..1 |-> 0]
  <2>4. Tells(t, NoIp, queue, <<>>, NoIp, "ip_changed", "poll_unchanged") /\ t[0] = 0
    BY <2>1 DEF Tells, Follows, At
  <2> HIDE DEF t
  <2>5. FollowInv
    BY <2>1, <2>2, <2>4 DEF FollowInv, At
  <2> QED BY <2>1, <2>3, <2>5 DEF Abstract!RepInit
<1>2. ASSUME Types, FollowInv, [Next]_vars PROVE [Abstract!RepNext]_(Abstract!repVars)
  <2>1. CASE DetectChanged
    <3>1. Nic \in IPs /\ announced' = Append(announced, Nic) /\ Told' = Told /\ panel' = panel
      BY <1>2, <2>1, FollowChanged DEF DetectChanged, shownVars
    <3> QED BY <3>1 DEF Abstract!RepNext, Abstract!Publish
  <2>2. CASE Drain
    <3>1. CASE UNCHANGED panel.ip /\ Told' = Told
      BY <1>2, <2>2, <3>1, FollowDrain DEF Abstract!repVars
    <3>2. CASE /\ Told \in Nat /\ Told' \in DOMAIN announced /\ Told' = Told + 1
               /\ panel'.ip = announced[Told']
      <4> DEFINE v == Told'
      <4>1. /\ v \in DOMAIN announced /\ v > Told /\ panel'.ip = announced[v]
            /\ UNCHANGED announced
        BY <1>2, <2>2, <3>2, FollowDrain
      <4>2. v = Told'
        OBVIOUS
      <4> HIDE DEF v
      <4>3. Abstract!Deliver("native", v)
        BY <4>1, <4>2 DEF Abstract!Deliver
      <4> QED BY <4>1, <4>3 DEF Abstract!RepNext
    <3> QED BY <1>2, <2>2, <3>1, <3>2, FollowDrain
  <2>3. CASE UNCHANGED <<announced, panel.ip, Told>>
    BY <2>3 DEF Abstract!repVars
  <2> QED BY <1>2, <2>1, <2>2, <2>3, FollowNext
<1>3. Types /\ FollowInv /\ [Next]_vars => FollowInv'
  BY FollowNext
<1> QED BY <1>1, <1>2, <1>3, TypesHold, PTL DEF Spec, Replicates, Abstract!RepSpec

\* Module ReplicationProofs, of the addresses announced and what the UI shows.
Log == INSTANCE ReplicationProofs
         WITH Clients <- {"native"}, log <- announced,
              replica <- [u \in {"native"} |-> [ip |-> panel.ip, ver |-> Told]]

\* At every moment the address the native UI shows is that of the last
\* announcement it has been told of, and it is never set back.
THEOREM NeverSetBack == Spec => []Abstract!Consistent /\ Abstract!Forward
<1>1. Replicates => []Log!RepInv
  BY Log!ShowsTheLog DEF Replicates, Abstract!RepSpec, Abstract!RepInit, Abstract!RepNext,
     Abstract!Publish, Abstract!Deliver, Abstract!repVars, Log!RepSpec, Log!RepInit,
     Log!RepNext, Log!Publish, Log!Deliver, Log!repVars
<1>2. Replicates => Abstract!Forward
  BY Log!GoesForward DEF Replicates, Abstract!RepSpec, Abstract!RepInit, Abstract!RepNext,
     Abstract!Publish, Abstract!Deliver, Abstract!repVars, Log!RepSpec, Log!RepInit,
     Log!RepNext, Log!Publish, Log!Deliver, Log!repVars, Abstract!Forward, Log!Forward
<1>3. Log!RepInv => Abstract!Consistent
  BY DEF Log!RepInv, Log!Consistent, Abstract!Consistent
<1> QED BY <1>1, <1>2, <1>3, Implements, PTL
=============================================================================
