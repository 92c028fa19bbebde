----------------------------- MODULE DesktopProofs -----------------------------
(***************************************************************************)
(* Proofs about module Desktop, for any addresses, capacities and bounds.  *)
(***************************************************************************)
EXTENDS Desktop, Lemmas

\* Capping keeps the newest elements.
LEMMA CappedProperties ==
  ASSUME NEW S, NEW s \in Seq(S)
  PROVE  /\ Capped(s) \in Seq(S)
         /\ Len(Capped(s)) = IF Len(s) > LogCapacity THEN LogCapacity ELSE Len(s)
         /\ \A i \in 1..Len(Capped(s)) :
              Capped(s)[i] = s[i + Len(s) - Len(Capped(s))]
<1>1. Capped(s) = LastOf(s, LogCapacity) /\ LogCapacity \in Nat \ {0}
  BY DesktopAssumption DEF Capped, LastOf
<1>2. /\ LastOf(s, LogCapacity) \in Seq(S)
      /\ Len(LastOf(s, LogCapacity)) = IF Len(s) > LogCapacity THEN LogCapacity ELSE Len(s)
      /\ \A i \in 1..Len(LastOf(s, LogCapacity)) :
           LastOf(s, LogCapacity)[i] = s[i + Len(s) - Len(LastOf(s, LogCapacity))]
  BY <1>1, LastOfProperties
<1> QED BY <1>1, <1>2

-----------------------------------------------------------------------------
(***************************************************************************)
(* Types.                                                                  *)
(***************************************************************************)

\* What Drain takes from the queue, and what it leaves of it.
LEMMA DrainQueue ==
  ASSUME NEW S, queue \in Seq(S), Drain
  PROVE  /\ Taken(queue', queue)
         /\ Len(queue) \in Nat \ {0} /\ Len(queue') = Len(queue) - 1
         /\ Head(queue) = queue[1] /\ queue[1] \in S /\ 1 \in DOMAIN queue
         /\ queue' \in Seq(S)
         /\ \A i \in DOMAIN queue' : i + 1 \in DOMAIN queue /\ queue'[i] = queue[i + 1]
<1>1. queue # <<>> /\ queue' = Tail(queue)
  BY DEF Drain
<1>2. Taken(queue', queue) /\ queue' \in Seq(S) /\ Head(queue) = queue[1] /\ queue[1] \in S
  BY <1>1, TailTakes
<1> QED BY <1>2 DEF Taken

\* A panel that has applied an event is a panel.
LEMMA ApplyType ==
  ASSUME NEW p \in Panel, NEW ev \in ClientEvent, ev.type = "hosts_updated" => ev.ip \in IPs
  PROVE  Apply(p, ev) \in Panel
<1>1. ConnectedAfter(p, ev) \in BOOLEAN
  BY DEF ConnectedAfter
<1>2. LastAfter(p, ev) \in IPs \cup {NoIp}
  BY DEF LastAfter, Panel, ClientEvent
<1>3. HistoryAfter(p, ev) \in Seq(IPs)
  <2>1. p.history \in Seq(IPs)
    BY DEF Panel
  <2>2. CASE ev.type = "hosts_updated"
    <3>1. Append(p.history, ev.ip) \in Seq(IPs)
      BY <2>1, <2>2
    <3> QED BY <2>2, <3>1, CappedProperties DEF HistoryAfter
  <2>3. CASE ev.type # "hosts_updated"
    BY <2>1, <2>3 DEF HistoryAfter
  <2> QED BY <2>2, <2>3
<1>4. Capped(Append(p.log, Kind(ev))) \in Seq(LogKind)
  <2>1. p.log \in Seq(LogKind) /\ Kind(ev) \in LogKind
    BY DEF Panel, Kind, LogKind
  <2>2. Append(p.log, Kind(ev)) \in Seq(LogKind)
    BY <2>1
  <2> QED BY <2>2, CappedProperties
<1> QED BY <1>1, <1>2, <1>3, <1>4 DEF Apply, Panel

\* An event of the queue that says the file was updated says with which
\* address.
Addressed == \A i \in DOMAIN queue : queue[i].type = "hosts_updated" => queue[i].ip \in IPs

Types == TypeOK /\ Addressed

\* Any step of the client's thread that sends keeps the types.
LEMMA StepTypes ==
  ASSUME Types, NEW pc, NEW next \in ClientPC, NEW ev \in ClientEvent, Step(pc, next, ev),
         ev.type = "hosts_updated" => ev.ip \in IPs,
         update' \in IPs \cup {NoIp},
         next \in {"apply", "applied", "failed"} => update' # NoIp
  PROVE  Types'
<1>1. queue' \in Seq(ClientEvent) /\ age' \in 0..LogCapacity + 1
  BY DesktopAssumption DEF Types, TypeOK, Step, Emit
<1>2. Addressed'
  <2>1. queue \in Seq(ClientEvent) /\ queue' = Append(queue, ev)
    BY DEF Types, TypeOK, Step, Emit
  <2> QED BY <2>1 DEF Types, Addressed
<1> QED BY <1>1, <1>2 DEF Types, TypeOK, Step, windowVars

\* The types are kept by every step.
LEMMA TypesStep == Types /\ [Next]_vars => Types'
<1> SUFFICES ASSUME Types, [Next]_vars PROVE Types'
  OBVIOUS
<1> USE DEF ClientPC, Reading, ClientEvent, Plain
<1>1. CASE Connecting
  BY <1>1, StepTypes DEF Connecting, Types, TypeOK
<1>2. CASE Connected
  BY <1>2, StepTypes DEF Connected, Types, TypeOK
<1>3. CASE ConnectionFailed
  BY <1>3, StepTypes DEF ConnectionFailed, Types, TypeOK
<1>4. ASSUME NEW ip \in IPs, ReadUpdate(ip) PROVE Types'
  <2>1. ip # NoIp BY DesktopAssumption
  <2> QED BY <1>4, <2>1, StepTypes DEF ReadUpdate
<1>5. CASE ReadOther
  BY <1>5, StepTypes DEF ReadOther, Types, TypeOK
<1>6. CASE HostsUpdated
  <2>1. update \in IPs /\ written \in Seq(IPs)
    BY <1>6 DEF HostsUpdated, Types, TypeOK
  <2> QED BY <1>6, <2>1 DEF HostsUpdated, Types, TypeOK, Addressed, eventVars, windowVars
<1>7. CASE ReportUpdated
  <2>1. update \in IPs
    BY <1>7 DEF ReportUpdated, Step, Types, TypeOK
  <2> QED BY <1>7, <2>1, StepTypes DEF ReportUpdated, Types, TypeOK
<1>8. CASE HostsFail
  BY <1>8, DesktopAssumption DEF HostsFail, Types, TypeOK, Addressed, windowVars
<1>9. CASE ReportError
  BY <1>9, StepTypes DEF ReportError, Types, TypeOK
<1>10. CASE ReadError
  BY <1>10, StepTypes DEF ReadError, Types, TypeOK
<1>11. CASE Eof
  BY <1>11 DEF Eof, Types, TypeOK, Addressed, eventVars, windowVars
<1>12. CASE ConnectionLost
  BY <1>12, StepTypes DEF ConnectionLost, Types, TypeOK
<1>13. CASE Wake
  BY <1>13 DEF Wake, Types, TypeOK, Addressed, eventVars, windowVars
<1>14. CASE Drain
  <2>1. queue \in Seq(ClientEvent) /\ queue # <<>>
    BY <1>14 DEF Drain, Types, TypeOK
  <2>2. /\ Head(queue) = queue[1] /\ queue[1] \in ClientEvent /\ 1 \in DOMAIN queue
        /\ queue' \in Seq(ClientEvent)
        /\ \A i \in DOMAIN queue' : i + 1 \in DOMAIN queue /\ queue'[i] = queue[i + 1]
    <3> HIDE DEF ClientEvent
    <3> QED BY <1>14, <2>1, DrainQueue
  <2>3. panel' \in Panel
    BY <1>14, <2>2, ApplyType DEF Drain, Types, TypeOK, Addressed
  <2> QED BY <1>14, <2>2, <2>3 DEF Drain, Types, TypeOK, Addressed, clientVars, windowVars
<1>15. CASE Frame
  <2>1. visible' \in BOOLEAN
    BY <1>15 DEF Frame, Obey, Types, TypeOK
  <2>2. closeAsked' \in BOOLEAN /\ quitFlag' \in BOOLEAN /\ running' \in BOOLEAN
    BY <1>15 DEF Frame, Obey, Contains
  <2>3. menu' \in Seq(MenuAction)
    BY <1>15 DEF Frame
  <2> QED BY <1>15, <2>1, <2>2, <2>3 DEF Frame, Types, TypeOK, Addressed, clientVars, eventVars
<1>16. ASSUME NEW action \in MenuAction, PickMenu(action) PROVE Types'
  BY <1>16 DEF PickMenu, Types, TypeOK, Addressed, clientVars, eventVars
<1>17. CASE CloseButton
  BY <1>17 DEF CloseButton, Types, TypeOK, Addressed, clientVars, eventVars
<1>18. ASSUME NEW section \in Section, Toggle(section) PROVE Types'
  BY <1>18 DEF Toggle, SymDiff, Section, Types, TypeOK, Addressed, clientVars, eventVars
<1>19. CASE UNCHANGED vars
  BY <1>19 DEF vars, Types, TypeOK, Addressed, clientVars, eventVars, windowVars
<1> QED BY <1>1, <1>2, <1>3, <1>4, <1>5, <1>6, <1>7, <1>8, <1>9, <1>10, <1>11, <1>12,
           <1>13, <1>14, <1>15, <1>16, <1>17, <1>18, <1>19 DEF Next, ClientThread

\* The initial states have the types.
LEMMA TypesInit == Init => Types
<1> SUFFICES ASSUME Init PROVE Types
  OBVIOUS
<1>1. NewPanel \in Panel
  BY EmptySeq DEF NewPanel, Panel
<1>2. age \in 0..LogCapacity + 1
  BY DesktopAssumption DEF Init
<1>3. queue \in Seq(ClientEvent) /\ menu \in Seq(MenuAction) /\ written \in Seq(IPs)
  BY EmptySeq DEF Init
<1>4. cpc \in ClientPC /\ {visible, closeAsked, quitFlag, running} \subseteq BOOLEAN
  BY DEF Init, ClientPC
<1> QED BY <1>1, <1>2, <1>3, <1>4 DEF Init, Types, TypeOK, Addressed

\* The types hold in every reachable state.
LEMMA TypesHold == Spec => []Types
BY TypesInit, TypesStep, PTL DEF Spec

\* Every variable keeps its type, and what is written to the hosts file is an
\* address that was received.
THEOREM TypeCorrect == Spec => []TypeOK
<1>1. Types => TypeOK
  BY DEF Types
<1> QED BY <1>1, TypesHold, PTL

-----------------------------------------------------------------------------
(***************************************************************************)
(* What the panel will show.                                               *)
(***************************************************************************)

\* The steps of the user.
UserStep ==
  \/ CloseButton
  \/ \E action \in MenuAction : PickMenu(action)
  \/ \E section \in Section : Toggle(section)

\* What a step that sends makes of the queue.
LEMMA StepQueue ==
  ASSUME Types, NEW pc, NEW next, NEW ev \in ClientEvent, Step(pc, next, ev)
  PROVE  /\ cpc = pc /\ cpc' = next /\ panel' = panel
         /\ Len(queue) \in Nat /\ Len(queue') = Len(queue) + 1
         /\ DOMAIN queue = 1..Len(queue) /\ DOMAIN queue' = 1..Len(queue) + 1
         /\ \A i \in 1..Len(queue) : queue'[i] = queue[i]
         /\ queue'[Len(queue) + 1] = ev
         /\ Appended(queue', queue, ev)
         /\ age' = IF age <= LogCapacity THEN age + 1 ELSE age
<1>1. queue \in Seq(ClientEvent) /\ queue' = Append(queue, ev)
  BY DEF Types, TypeOK, Step, Emit
<1>2. Appended(queue', queue, ev)
  BY <1>1, AppendAppends
<1> QED BY <1>2 DEF Appended, Step, Emit

\* Events that say whether there is a connection.
OfLink(ev) ==
  ev.type \in {"connecting", "connected", "connection_lost", "connection_failed"}

\* The last such event the panel has yet to apply, or else the panel itself,
\* says whether there is one; but while the end of one has yet to be reported.
LinkInv ==
  cpc # "left" =>
    /\ (\A i \in DOMAIN queue : ~OfLink(queue[i])) => (panel.connected <=> cpc \in Reading)
    /\ \A i \in DOMAIN queue :
         (OfLink(queue[i]) /\ \A j \in DOMAIN queue : j > i => ~OfLink(queue[j]))
           => (queue[i].type = "connected" <=> cpc \in Reading)

\* A step that sends an event about the connection, or one about something
\* else.
LEMMA LinkStep ==
  ASSUME Types, LinkInv, NEW pc, NEW next, NEW ev \in ClientEvent, Step(pc, next, ev),
         IF OfLink(ev) THEN next # "left" => (ev.type = "connected" <=> next \in Reading)
                       ELSE pc \in Reading /\ next \in Reading
  PROVE  LinkInv'
<1>1. /\ cpc = pc /\ cpc' = next /\ panel' = panel
      /\ Len(queue) \in Nat
      /\ DOMAIN queue = 1..Len(queue) /\ DOMAIN queue' = 1..Len(queue) + 1
      /\ \A i \in 1..Len(queue) : queue'[i] = queue[i]
      /\ queue'[Len(queue) + 1] = ev
  BY StepQueue
<1>2. CASE OfLink(ev)
  BY <1>1, <1>2 DEF LinkInv
<1>3. CASE ~OfLink(ev)
  <2>1. cpc # "left"
    BY <1>1, <1>3 DEF Reading
  <2> QED BY <1>1, <1>3, <2>1 DEF LinkInv
<1> QED BY <1>2, <1>3

\* With every event applied the panel says whether there is a connection.
THEOREM ConnectedIsShown == Spec => []ConnectedShown
<1>1. Init => LinkInv
  BY DEF Init, NewPanel, LinkInv, Reading
<1>2. ASSUME Types, LinkInv, [Next]_vars PROVE LinkInv'
  <2> USE DEF OfLink, Reading, ClientEvent, Plain
  <2>1. CASE Connecting \/ Connected \/ ConnectionFailed \/ ReadError \/ ConnectionLost
    BY <1>2, <2>1, LinkStep DEF Connecting, Connected, ConnectionFailed, ReadError, ConnectionLost
  <2>2. CASE ReadOther \/ \E ip \in IPs : ReadUpdate(ip)
    BY <1>2, <2>2, LinkStep DEF ReadOther, ReadUpdate
  <2>3. CASE ReportUpdated \/ ReportError
    BY <1>2, <2>3, LinkStep DEF ReportUpdated, ReportError, Types, TypeOK
  <2>4. CASE HostsUpdated \/ HostsFail \/ Eof \/ Wake
    BY <1>2, <2>4 DEF HostsUpdated, HostsFail, Eof, Wake, LinkInv, eventVars
  <2>5. CASE Drain
    <3>1. /\ Head(queue) = queue[1] /\ 1 \in DOMAIN queue
          /\ Len(queue) \in Nat /\ Len(queue') = Len(queue) - 1
          /\ DOMAIN queue = 1..Len(queue) /\ DOMAIN queue' = 1..Len(queue) - 1
          /\ \A i \in DOMAIN queue' : queue'[i] = queue[i + 1]
      <4> HIDE DEF ClientEvent
      <4> QED BY <1>2, <2>5, DrainQueue, LenProperties DEF Types, TypeOK
    <3>2. panel'.connected = ConnectedAfter(panel, queue[1]) /\ cpc' = cpc
      BY <2>5, <3>1 DEF Drain, Apply, clientVars
    <3>3. ConnectedAfter(panel, queue[1]) <=>
            IF OfLink(queue[1]) THEN queue[1].type = "connected" ELSE panel.connected
      BY DEF ConnectedAfter
    <3> HIDE DEF OfLink, Reading, ClientEvent
    <3>4. \A i \in DOMAIN queue' : i + 1 \in DOMAIN queue
      BY <3>1
    <3>5. \A j \in DOMAIN queue : j > 1 => j - 1 \in DOMAIN queue' /\ queue'[j - 1] = queue[j]
      BY <3>1
    <3>6. ASSUME cpc # "left", NEW i \in DOMAIN queue', OfLink(queue'[i]),
                 \A j \in DOMAIN queue' : j > i => ~OfLink(queue'[j])
          PROVE  queue'[i].type = "connected" <=> cpc \in Reading
      <4>1. \A j \in DOMAIN queue : j > i + 1 => ~OfLink(queue[j])
        BY <3>1, <3>5, <3>6
      <4> QED BY <1>2, <3>1, <3>4, <3>6, <4>1 DEF LinkInv
    <3>7. ASSUME cpc # "left", \A i \in DOMAIN queue' : ~OfLink(queue'[i])
          PROVE  panel'.connected <=> cpc \in Reading
      <4>1. \A j \in DOMAIN queue : j > 1 => ~OfLink(queue[j])
        BY <3>5, <3>7
      <4>2. CASE OfLink(queue[1])
        BY <1>2, <3>1, <3>2, <3>3, <3>7, <4>1, <4>2 DEF LinkInv
      <4>3. CASE ~OfLink(queue[1])
        <5>1. \A j \in DOMAIN queue : ~OfLink(queue[j])
          BY <3>1, <4>1, <4>3
        <5> QED BY <1>2, <3>2, <3>3, <3>7, <4>3, <5>1 DEF LinkInv
      <4> QED BY <4>2, <4>3
    <3> QED BY <3>2, <3>6, <3>7 DEF LinkInv
  <2>6. CASE Frame \/ UserStep
    BY <1>2, <2>6 DEF Frame, UserStep, CloseButton, PickMenu, Toggle, LinkInv, clientVars, eventVars
  <2>7. CASE UNCHANGED vars
    BY <1>2, <2>7 DEF vars, LinkInv, clientVars, eventVars
  <2> QED BY <1>2, <2>1, <2>2, <2>3, <2>4, <2>5, <2>6, <2>7 DEF Next, UserStep, ClientThread
<1>3. LinkInv => ConnectedShown
  BY DEF LinkInv, ConnectedShown, Shown
<1> QED BY <1>1, <1>2, <1>3, TypesHold, PTL DEF Spec

-----------------------------------------------------------------------------
(***************************************************************************)
(* A failure in the log.                                                   *)
(***************************************************************************)

\* The event that reported the last failure is the age-th from the end of the
\* log and the queue together, unless it has left the log.
AgeInv ==
  /\ Len(panel.log) <= LogCapacity
  /\ cpc = "failed" => age = 0
  /\ (cpc # "failed" /\ age <= LogCapacity) =>
       /\ age >= 1
       /\ age <= Len(queue) => Kind(queue[Len(queue) - age + 1]) = "error"
       /\ age > Len(queue) => /\ age - Len(queue) <= Len(panel.log)
                              /\ panel.log[Len(panel.log) - (age - Len(queue)) + 1] = "error"

\* A step that sends anything but the report of a failure.
LEMMA AgeStep ==
  ASSUME Types, AgeInv, NEW pc, NEW next, NEW ev \in ClientEvent, Step(pc, next, ev),
         pc # "failed", next # "failed"
  PROVE  AgeInv'
<1>1. /\ cpc = pc /\ cpc' = next /\ panel' = panel
      /\ Len(queue) \in Nat /\ Len(queue') = Len(queue) + 1
      /\ \A i \in 1..Len(queue) : queue'[i] = queue[i]
      /\ age' = IF age <= LogCapacity THEN age + 1 ELSE age
  BY StepQueue
<1>2. age \in Nat /\ LogCapacity \in Nat /\ Len(panel.log) \in Nat
  BY DesktopAssumption DEF Types, TypeOK, Panel
<1>3. Len(panel'.log) <= LogCapacity /\ cpc' # "failed" /\ cpc # "failed"
  BY <1>1 DEF AgeInv
<1>4. ASSUME age' <= LogCapacity
      PROVE  /\ age' >= 1
             /\ age' <= Len(queue') => Kind(queue'[Len(queue') - age' + 1]) = "error"
             /\ age' > Len(queue') =>
                  /\ age' - Len(queue') <= Len(panel'.log)
                  /\ panel'.log[Len(panel'.log) - (age' - Len(queue')) + 1] = "error"
  <2>1. age' = age + 1 /\ age <= LogCapacity /\ age >= 1
    BY <1>1, <1>2, <1>3, <1>4 DEF AgeInv
  <2>2. CASE age' <= Len(queue')
    <3>1. /\ Len(queue') - age' + 1 = Len(queue) - age + 1
          /\ Len(queue) - age + 1 \in 1..Len(queue)
      BY <1>1, <1>2, <2>1, <2>2
    <3> QED BY <1>1, <1>2, <1>3, <2>1, <2>2, <3>1 DEF AgeInv
  <2>3. CASE age' > Len(queue')
    <3>1. age' - Len(queue') = age - Len(queue) /\ age > Len(queue)
      BY <1>1, <1>2, <2>1, <2>3
    <3> QED BY <1>1, <1>2, <1>3, <2>1, <2>3, <3>1 DEF AgeInv
  <2> QED BY <1>1, <1>2, <2>1, <2>2, <2>3
<1> QED BY <1>3, <1>4 DEF AgeInv

\* A hosts file that could not be updated has its red line in a log that is
\* drawn, whatever the window went through before, until LogCapacity later
\* events have pushed that out.
THEOREM FailureIsLogged == Spec => []FailureLogged
<1>1. Init => AgeInv
  BY DesktopAssumption DEF Init, NewPanel, AgeInv
<1>2. ASSUME Types, AgeInv, [Next]_vars PROVE AgeInv'
  <2>0. age \in Nat /\ LogCapacity \in Nat \ {0} /\ Len(panel.log) \in Nat
    BY <1>2, DesktopAssumption DEF Types, TypeOK, Panel
  <2>1. CASE Connecting \/ Connected \/ ConnectionFailed \/ ReadError \/ ConnectionLost
    BY <1>2, <2>1, AgeStep DEF Connecting, Connected, ConnectionFailed, ReadError, ConnectionLost,
       Plain, ClientEvent
  <2>2. CASE ReadOther \/ \E ip \in IPs : ReadUpdate(ip)
    BY <1>2, <2>2, AgeStep DEF ReadOther, ReadUpdate, Plain, ClientEvent
  <2>3. CASE ReportUpdated
    BY <1>2, <2>3, AgeStep DEF ReportUpdated, ClientEvent, Types, TypeOK
  <2>4. CASE ReportError
    <3> DEFINE ev == [type |-> "hosts_error", ip |-> update]
    <3>1. ev \in ClientEvent /\ Kind(ev) = "error"
      BY <1>2 DEF ClientEvent, Kind, Types, TypeOK
    <3>2. Step("failed", "read", ev)
      BY <2>4 DEF ReportError
    <3>3. /\ cpc = "failed" /\ cpc' = "read" /\ panel' = panel
          /\ Len(queue) \in Nat /\ Len(queue') = Len(queue) + 1
          /\ queue'[Len(queue) + 1] = ev
          /\ age' = IF age <= LogCapacity THEN age + 1 ELSE age
      BY <1>2, <3>1, <3>2, StepQueue
    <3>4. age' = 1
      BY <1>2, <2>0, <3>3 DEF AgeInv
    <3>5. Len(queue') - age' + 1 = Len(queue) + 1
      BY <3>3, <3>4
    <3> HIDE DEF ev
    <3> QED BY <1>2, <2>0, <3>1, <3>3, <3>4, <3>5 DEF AgeInv
  <2>5. CASE HostsFail
    BY <1>2, <2>5 DEF HostsFail, AgeInv
  <2>6. CASE HostsUpdated \/ Eof \/ Wake
    BY <1>2, <2>6 DEF HostsUpdated, Eof, Wake, AgeInv, eventVars
  <2>7. CASE Drain
    <3> DEFINE head == queue[1]
               log == panel.log
    <3>1. /\ Head(queue) = head /\ Len(queue) \in Nat \ {0} /\ Len(queue') = Len(queue) - 1
          /\ DOMAIN queue' = 1..Len(queue) - 1
          /\ \A i \in 1..Len(queue) - 1 : queue'[i] = queue[i + 1]
      BY <1>2, <2>7, DrainQueue, LenProperties DEF Types, TypeOK
    <3>2. log \in Seq(LogKind) /\ Kind(head) \in LogKind
      BY <1>2 DEF Types, TypeOK, Panel, Kind, LogKind
    <3>3. panel'.log = Capped(Append(log, Kind(head))) /\ cpc' = cpc /\ age' = age
      BY <2>7, <3>1 DEF Drain, Apply, clientVars
    <3>4. /\ Append(log, Kind(head)) \in Seq(LogKind)
          /\ Len(Append(log, Kind(head))) = Len(log) + 1
          /\ \A i \in 1..Len(log) : Append(log, Kind(head))[i] = log[i]
          /\ Append(log, Kind(head))[Len(log) + 1] = Kind(head)
      BY <3>2, AppendProperties
    <3>5. /\ Len(panel'.log) = IF Len(log) + 1 > LogCapacity THEN LogCapacity ELSE Len(log) + 1
          /\ \A i \in 1..Len(panel'.log) :
               panel'.log[i] = Append(log, Kind(head))[i + (Len(log) + 1) - Len(panel'.log)]
      <4> DEFINE s == Append(log, Kind(head))
      <4>1. s \in Seq(LogKind) /\ Len(s) = Len(log) + 1 /\ panel'.log = Capped(s)
        BY <3>3, <3>4
      <4> HIDE DEF s
      <4>2. /\ Len(Capped(s)) = IF Len(s) > LogCapacity THEN LogCapacity ELSE Len(s)
            /\ \A i \in 1..Len(Capped(s)) : Capped(s)[i] = s[i + Len(s) - Len(Capped(s))]
        BY <4>1, CappedProperties
      <4>3. \A i \in 1..Len(panel'.log) : panel'.log[i] = s[i + (Len(log) + 1) - Len(panel'.log)]
        BY <4>1, <4>2
      <4> QED BY <4>1, <4>2, <4>3 DEF s
    <3>6. Len(panel'.log) \in 1..LogCapacity /\ Len(log) <= LogCapacity /\ Len(log) \in Nat
      BY <1>2, <2>0, <3>5 DEF AgeInv
    <3> HIDE DEF head, log
    <3>7. ASSUME cpc # "failed", age <= LogCapacity, age <= Len(queue')
          PROVE  Kind(queue'[Len(queue') - age + 1]) = "error"
      <4>1. Len(queue') - age + 1 \in 1..Len(queue) - 1 /\ age <= Len(queue) /\ age >= 1
        BY <1>2, <2>0, <3>1, <3>7 DEF AgeInv
      <4>2. queue'[Len(queue') - age + 1] = queue[Len(queue) - age + 1]
        BY <2>0, <3>1, <4>1
      <4> QED BY <1>2, <3>7, <4>1, <4>2 DEF AgeInv
    <3>8. ASSUME cpc # "failed", age <= LogCapacity, age > Len(queue')
          PROVE  /\ age - Len(queue') <= Len(panel'.log)
                 /\ panel'.log[Len(panel'.log) - (age - Len(queue')) + 1] = "error"
      <4>1. CASE age = Len(queue)
        <5>1. age - Len(queue') = 1
          BY <2>0, <3>1, <4>1
        <5>2. Kind(head) = "error"
          BY <1>2, <2>0, <3>1, <3>8, <4>1 DEF AgeInv, head
        <5>3. panel'.log[Len(panel'.log)] = Kind(head)
          BY <3>4, <3>5, <3>6
        <5> QED BY <3>6, <5>1, <5>2, <5>3
      <4>2. CASE age > Len(queue)
        <5> DEFINE d == age - Len(queue)
        <5>1. d <= Len(log) /\ log[Len(log) - d + 1] = "error" /\ d \in Nat \ {0}
          BY <1>2, <2>0, <3>1, <3>8, <4>2 DEF AgeInv, log
        <5>2. age - Len(queue') = d + 1 /\ d + 1 <= LogCapacity
          BY <2>0, <3>1, <3>8
        <5> HIDE DEF d
        <5>3. d + 1 <= Len(panel'.log)
          BY <2>0, <3>5, <3>6, <5>1, <5>2
        <5>4. panel'.log[Len(panel'.log) - d] = Append(log, Kind(head))[Len(log) + 1 - d]
          <6>1. Len(panel'.log) - d \in 1..Len(panel'.log)
            BY <3>6, <5>1, <5>3
          <6>2. (Len(panel'.log) - d) + (Len(log) + 1) - Len(panel'.log) = Len(log) + 1 - d
            BY <3>6, <5>1
          <6> QED BY <3>5, <6>1, <6>2
        <5>5. Append(log, Kind(head))[Len(log) + 1 - d] = "error"
          BY <3>4, <3>6, <5>1
        <5>6. Len(panel'.log) - (d + 1) + 1 = Len(panel'.log) - d
          BY <3>6, <5>1
        <5> QED BY <5>2, <5>3, <5>4, <5>5, <5>6
      <4> QED BY <2>0, <3>1, <3>8, <4>1, <4>2
    <3>9. (cpc # "failed" /\ age <= LogCapacity) => age >= 1
      BY <1>2 DEF AgeInv
    <3>10. cpc = "failed" => age = 0
      BY <1>2 DEF AgeInv
    <3> QED BY <3>3, <3>6, <3>7, <3>8, <3>9, <3>10 DEF AgeInv
  <2>8. CASE Frame \/ UserStep
    BY <1>2, <2>8 DEF Frame, UserStep, CloseButton, PickMenu, Toggle, AgeInv, clientVars, eventVars
  <2>9. CASE UNCHANGED vars
    BY <1>2, <2>9 DEF vars, AgeInv, clientVars, eventVars
  <2> QED BY <1>2, <2>1, <2>2, <2>3, <2>4, <2>5, <2>6, <2>7, <2>8, <2>9 DEF Next, UserStep, ClientThread
<1>3. Types /\ AgeInv => FailureLogged
  <2> SUFFICES ASSUME Types, AgeInv, queue = <<>>, "log" \in opened, Outdated,
                      age <= LogCapacity
               PROVE  /\ age \in 1..Len(Shown.log)
                      /\ Shown.log[Len(Shown.log) - age + 1] = "red"
    BY DEF FailureLogged
  <2>1. panel.log \in Seq(LogKind) /\ age \in Nat /\ Len(queue) = 0
    BY DEF Types, TypeOK, Panel
  <2>2. age \in 1..Len(panel.log) /\ panel.log[Len(panel.log) - age + 1] = "error"
    BY <2>1 DEF AgeInv, Outdated
  <2>3. /\ Len(Shown.log) = Len(panel.log)
        /\ \A i \in 1..Len(panel.log) : Shown.log[i] = Color(panel.log[i])
    BY <2>1 DEF Shown
  <2>4. Len(panel.log) - age + 1 \in 1..Len(panel.log)
    BY <2>1, <2>2
  <2> QED BY <2>2, <2>3, <2>4 DEF Color
<1> QED BY <1>1, <1>2, <1>3, TypesHold, PTL DEF Spec

-----------------------------------------------------------------------------
(***************************************************************************)
(* The history.                                                            *)
(***************************************************************************)

\* When the report of the last write is missing, it is of the address received
\* last; the panel will have heard of all that is reported when it has applied
\* the events of the queue.
HistInv ==
  /\ cpc = "applied" => written # <<>> /\ written[Len(written)] = update
  /\ \E g : Counts(g, panel.history, queue, Reported, LogCapacity, "hosts_updated")

\* What is reported is a sequence of addresses; when the report of the last
\* write is all that is missing, there is that one more.
LEMMA ReportedProperties ==
  ASSUME Types, HistInv
  PROVE  /\ Reported \in Seq(IPs) /\ Len(Reported) \in Nat
         /\ cpc = "applied" => Appended(written, Reported, written[Len(written)])
<1>1. written \in Seq(IPs) /\ Len(written) \in Nat
  BY DEF Types, TypeOK
<1>2. CASE cpc = "applied"
  <2>1. Len(written) \in Nat \ {0}
    BY <1>1, <1>2, EmptySeq DEF HistInv
  <2>2. \A i \in 1..Len(written) - 1 : written[i] \in IPs
    BY <1>1, <2>1, ElementOfSeq
  <2> DEFINE n == Len(written) - 1
  <2>3. /\ SubSeq(written, 1, n) \in Seq(IPs)
        /\ Len(SubSeq(written, 1, n)) = n
        /\ \A i \in 1..n : SubSeq(written, 1, n)[i] = written[i]
    <3>1. n \in Nat
      BY <2>1
    <3>2. \A i \in 1..n : written[i] \in IPs
      BY <2>2
    <3> HIDE DEF n
    <3>3. /\ SubSeq(written, 1, n) \in Seq(IPs)
          /\ Len(SubSeq(written, 1, n)) = IF 1 <= n THEN n - 1 + 1 ELSE 0
          /\ \A i \in 1..n - 1 + 1 : SubSeq(written, 1, n)[i] = written[1 + i - 1]
      BY <3>1, <3>2, SubSeqProperties
    <3>4. \A i \in 1..n : 1 + i - 1 = i /\ i \in 1..n - 1 + 1
      BY <3>1
    <3> QED BY <3>1, <3>3, <3>4
  <2>4. Reported = SubSeq(written, 1, n) /\ Len(Reported) = n
    BY <1>2, <2>3 DEF Reported, Front
  <2>5. DOMAIN Reported = 1..Len(Reported) /\ DOMAIN written = 1..Len(written)
    BY <1>1, <2>3, <2>4, LenProperties
  <2> QED BY <1>1, <2>1, <2>3, <2>4, <2>5 DEF Appended
<1>3. CASE cpc # "applied"
  BY <1>1, <1>3 DEF Reported
<1> QED BY <1>2, <1>3

\* A step that sends something else than the report of a write.
LEMMA HistOther ==
  ASSUME Types, HistInv, NEW pc, NEW next, NEW ev \in ClientEvent, Step(pc, next, ev),
         ev.type # "hosts_updated", pc # "applied", next # "applied"
  PROVE  HistInv'
<1>1. cpc = pc /\ cpc' = next /\ panel' = panel /\ Appended(queue', queue, ev)
  BY StepQueue
<1>2. Reported' = Reported /\ Len(Reported) \in Nat
  BY <1>1, ReportedProperties DEF Reported, Step
<1>3. PICK g : Counts(g, panel.history, queue, Reported, LogCapacity, "hosts_updated")
  BY DEF HistInv
<1>4. \E g1 : Counts(g1, panel.history, queue', Reported, LogCapacity, "hosts_updated")
  BY <1>1, <1>2, <1>3, CountOther, DesktopAssumption
<1> QED BY <1>1, <1>2, <1>4 DEF HistInv

\* At first nothing is written.
LEMMA HistInit == Init => HistInv
<1> SUFFICES ASSUME Init PROVE HistInv
  OBVIOUS
<1>1. /\ queue = <<>> /\ panel.history = <<>> /\ cpc = "connect"
      /\ Len(queue) = 0 /\ DOMAIN queue = {} /\ Reported = <<>>
  BY DEF Init, Reported, NewPanel
<1>2. Len(queue) \in Nat /\ \A i \in 1..Len(queue) : queue[i].type # "hosts_updated"
  BY <1>1
<1>3. \E g : Counts(g, <<>>, queue, <<>>, LogCapacity, "hosts_updated")
  BY ONLY <1>2, CountNothing, DesktopAssumption
<1> QED BY <1>1, <1>3 DEF HistInv

\* Every step of Next keeps HistInv.
LEMMA HistNext ==
  ASSUME Types, HistInv, [Next]_vars PROVE HistInv'
<1>0. written \in Seq(IPs) /\ Len(written) \in Nat /\ panel.history \in Seq(IPs)
  BY DEF Types, TypeOK, Panel
<1>1. CASE Connecting \/ Connected \/ ConnectionFailed \/ ReadError \/ ConnectionLost
  BY <1>1, HistOther
     DEF Connecting, Connected, ConnectionFailed, ReadError, ConnectionLost, ClientEvent, Plain
<1>2. CASE ReadOther \/ ReportError \/ \E ip \in IPs : ReadUpdate(ip)
  <2>1. CASE ReadOther
    BY <2>1, HistOther DEF ReadOther, ClientEvent, Plain
  <2>2. CASE ReportError
    <3> DEFINE ev == [type |-> "hosts_error", ip |-> update]
    <3>1. ev \in ClientEvent /\ ev.type # "hosts_updated" /\ Step("failed", "read", ev)
      BY <2>2 DEF ReportError, ClientEvent, Types, TypeOK
    <3> HIDE DEF ev
    <3> QED BY <3>1, HistOther
  <2>3. ASSUME NEW ip \in IPs, ReadUpdate(ip) PROVE HistInv'
    <3> DEFINE ev == [type |-> "update_received", ip |-> ip]
    <3>1. ev \in ClientEvent /\ ev.type # "hosts_updated" /\ Step("read", "apply", ev)
      BY <2>3 DEF ReadUpdate, ClientEvent
    <3> HIDE DEF ev
    <3> QED BY <3>1, HistOther
  <2> QED BY <1>2, <2>1, <2>2, <2>3
<1>3. CASE ReportUpdated
  <2> DEFINE ev == [type |-> "hosts_updated", ip |-> update]
  <2>1. Step("applied", "read", ev) /\ ev \in ClientEvent
    BY <1>3 DEF ReportUpdated, ClientEvent, Types, TypeOK
  <2>2. ev.type = "hosts_updated" /\ ev.ip = update
    OBVIOUS
  <2> HIDE DEF ev
  <2>3. cpc = "applied" /\ cpc' = "read" /\ panel' = panel /\ Appended(queue', queue, ev)
    BY <2>1, StepQueue
  <2>4. Reported' = written /\ ev.ip = written[Len(written)]
    BY <2>1, <2>2, <2>3 DEF Reported, Step, HistInv
  <2>5. Appended(written, Reported, ev.ip)
    BY <2>3, <2>4, ReportedProperties
  <2>6. PICK g : Counts(g, panel.history, queue, Reported, LogCapacity, "hosts_updated")
    BY DEF HistInv
  <2>7. \E g1 : Counts(g1, panel.history, queue', written, LogCapacity, "hosts_updated")
    BY <2>2, <2>3, <2>5, <2>6, CountReport, DesktopAssumption
  <2> QED BY <2>3, <2>4, <2>7 DEF HistInv
<1>4. CASE HostsUpdated
  <2>1. /\ cpc = "apply" /\ cpc' = "applied" /\ written' = Append(written, update)
        /\ update' = update /\ panel' = panel /\ queue' = queue /\ update \in IPs
    BY <1>4 DEF HostsUpdated, eventVars, Types, TypeOK
  <2>2. /\ written' \in Seq(IPs) /\ Len(written') = Len(written) + 1
        /\ written'[Len(written) + 1] = update
    BY <1>0, <2>1, AppendProperties
  <2>3. Reported' = Reported
    BY <1>0, <2>1, FrontOfAppend DEF Reported
  <2>4. written' # <<>>
    BY <1>0, <2>2, EmptySeq
  <2> QED BY <2>1, <2>2, <2>3, <2>4 DEF HistInv
<1>5. CASE HostsFail \/ Eof \/ Wake
  BY <1>5 DEF HostsFail, Eof, Wake, HistInv, Reported, eventVars
<1>6. CASE Drain
  <2>1. Taken(queue', queue) /\ Head(queue) = queue[1] /\ 1 \in DOMAIN queue
    BY <1>6, DrainQueue DEF Types, TypeOK
  <2>2. /\ panel'.history = HistoryAfter(panel, queue[1])
        /\ cpc' = cpc /\ written' = written /\ update' = update /\ Reported' = Reported
    BY <1>6, <2>1 DEF Drain, Apply, clientVars, Reported
  <2>3. panel'.history = IF queue[1].type = "hosts_updated"
                         THEN Capped(Append(panel.history, queue[1].ip)) ELSE panel.history
    BY <2>2 DEF HistoryAfter
  <2>4. Reported \in Seq(IPs)
    BY ReportedProperties
  <2>5. PICK g : Counts(g, panel.history, queue, Reported, LogCapacity, "hosts_updated")
    BY DEF HistInv
  <2>6. Applied(panel'.history, panel.history, queue[1], LogCapacity, "hosts_updated")
    <3>1. queue[1].type = "hosts_updated" => queue[1].ip \in IPs
      BY <2>1 DEF Types, Addressed
    <3>2. \A s : Capped(s) = LastOf(s, LogCapacity)
      BY DEF Capped, LastOf
    <3> QED BY <1>0, <2>3, <3>1, <3>2, LastOfAppend, DesktopAssumption DEF Applied
  <2>7. \E g1 : Counts(g1, panel'.history, queue', Reported, LogCapacity, "hosts_updated")
    <3>1. Len(panel.history) \in Nat /\ Len(Reported) \in Nat /\ LogCapacity \in Nat \ {0}
      BY <1>0, <2>4, DesktopAssumption
    <3> QED BY ONLY <2>1, <2>5, <2>6, <3>1, CountDrain
  <2> QED BY <2>2, <2>7 DEF HistInv
<1>7. CASE Frame \/ UserStep
  BY <1>7 DEF Frame, UserStep, CloseButton, PickMenu, Toggle, HistInv, Reported, clientVars, eventVars
<1>8. CASE UNCHANGED vars
  BY <1>8 DEF vars, HistInv, Reported, clientVars, eventVars
<1> QED BY <1>1, <1>2, <1>3, <1>4, <1>5, <1>6, <1>7, <1>8 DEF Next, UserStep, ClientThread

\* With no event left to drain, the history that the panel draws is the newest
\* of what the client's thread has written, and has no address that it could
\* not write (ui/src/state.rs:173-192).
THEOREM PanelAlwaysAgrees == Spec => []PanelAgrees
<1>1. Types /\ HistInv /\ [Next]_vars => HistInv'
  BY HistNext
<1>2. Types /\ HistInv => PanelAgrees
  <2> SUFFICES ASSUME Types, HistInv, queue = <<>>, "history" \in opened
               PROVE  /\ IsSuffix(panel.history, Reported)
                      /\ Len(panel.history) = IF Len(Reported) < LogCapacity
                                              THEN Len(Reported) ELSE LogCapacity
    BY DEF PanelAgrees, Shown
  <2>1. PICK g : Counts(g, panel.history, <<>>, Reported, LogCapacity, "hosts_updated")
    BY DEF HistInv
  <2>2. panel.history \in Seq(IPs) /\ Reported \in Seq(IPs)
    BY ReportedProperties DEF Types, TypeOK, Panel
  <2> QED BY <2>1, <2>2, CountAll, DesktopAssumption
<1> QED BY <1>1, <1>2, HistInit, TypesHold, PTL DEF Spec

-----------------------------------------------------------------------------
(***************************************************************************)
(* The panel's history, event by event.                                    *)
(***************************************************************************)

\* The history ends with the address it has come to, and the reports in the
\* channel are of the ones after it.
FollowInv ==
  \E t : /\ Tells(t, HistoryEnd, queue, Reported, NoIp, "hosts_updated", "hosts_updated")
         /\ t[0] + Cardinality(Places(queue, "hosts_updated")) = Len(Reported)

\* What is reported, as in ReportedProperties.
LEMMA ReportedIs ==
  ASSUME Types, HistInv
  PROVE  /\ Reported \in Seq(IPs) /\ Len(Reported) \in Nat
         /\ written \in Seq(IPs) /\ DOMAIN written = 1..Len(written)
         /\ Len(Reported) <= Len(written)
         /\ \A i \in 1..Len(Reported) : Reported[i] = written[i]
         /\ cpc = "applied" => Appended(written, Reported, update)
<1>1. written \in Seq(IPs) /\ DOMAIN written = 1..Len(written) /\ Len(written) \in Nat
  BY LenProperties DEF Types, TypeOK
<1>2. Reported \in Seq(IPs) /\ Len(Reported) \in Nat
      /\ (cpc = "applied" => Appended(written, Reported, update))
  BY ReportedProperties DEF HistInv
<1>3. CASE cpc = "applied"
  <2>1. Appended(written, Reported, update)
    BY <1>2, <1>3
  <2>2. Len(written) = Len(Reported) + 1 /\ \A i \in 1..Len(Reported) : written[i] = Reported[i]
    BY <2>1 DEF Appended
  <2>3. Len(Reported) <= Len(written)
    BY <1>2, <2>2
  <2> QED BY <1>1, <1>2, <2>1, <2>2, <2>3
<1>4. CASE cpc # "applied"
  <2>1. Reported = written
    BY <1>4 DEF Reported
  <2> QED BY <1>1, <1>2, <1>4, <2>1
<1> QED BY <1>3, <1>4

\* How many the history has come to.
LEMMA ToldIs ==
  ASSUME Types, HistInv, FollowInv, NEW n \in Nat,
         n + Cardinality(Places(queue, "hosts_updated")) = Len(Reported)
  PROVE  Told = n
<1>1. Len(queue) \in Nat /\ DOMAIN queue = 1..Len(queue) /\ Len(Reported) \in Nat
  BY LenProperties, ReportedIs DEF Types, TypeOK
<1>2. Cardinality(Places(queue, "hosts_updated")) \in Nat
  BY <1>1, PlacesFinite
<1>3. Told = Len(Reported) - Cardinality(Places(queue, "hosts_updated"))
  BY DEF Told, Places
<1> QED BY <1>1, <1>2, <1>3

\* Something else than the report of a write is sent: the history has come to
\* as many as before.
LEMMA FollowOther ==
  ASSUME Types, HistInv, FollowInv, NEW pc, NEW next, NEW ev \in ClientEvent, Step(pc, next, ev),
         ev.type # "hosts_updated", pc # "applied", next # "applied"
  PROVE  FollowInv' /\ UNCHANGED <<written, HistoryEnd, Told>>
<1>1. cpc = pc /\ cpc' = next /\ panel' = panel /\ Appended(queue', queue, ev)
  BY StepQueue
<1>2. Reported' = Reported /\ written' = written /\ Len(Reported) \in Nat
  BY <1>1, ReportedIs DEF Reported, Step
<1>3. HistoryEnd' = HistoryEnd
  BY <1>1 DEF HistoryEnd
<1>4. PICK f :
        /\ Tells(f, HistoryEnd, queue, Reported, NoIp, "hosts_updated", "hosts_updated")
        /\ f[0] + Cardinality(Places(queue, "hosts_updated")) = Len(Reported)
  BY DEF FollowInv
<1>5. PICK u :
        /\ Tells(u, HistoryEnd, queue', Reported, NoIp, "hosts_updated", "hosts_updated")
        /\ u[0] = f[0]
  BY ONLY <1>1, <1>2, <1>4, ev.type # "hosts_updated", TellsOther
<1>6. Cardinality(Places(queue', "hosts_updated")) = Cardinality(Places(queue, "hosts_updated"))
  BY <1>1, PlacesAppended
<1>7. Told' = Told
  BY <1>2, <1>6 DEF Told, Places
<1> QED BY <1>1, <1>2, <1>3, <1>4, <1>5, <1>6, <1>7 DEF FollowInv

\* The hosts file is written: nothing is reported yet.
LEMMA FollowWrite ==
  ASSUME Types, HistInv, FollowInv, HostsUpdated
  PROVE  /\ FollowInv' /\ UNCHANGED <<HistoryEnd, Told>>
         /\ update \in IPs /\ written' = Append(written, update)
<1>1. /\ cpc = "apply" /\ cpc' = "applied" /\ written' = Append(written, update)
      /\ update' = update /\ panel' = panel /\ queue' = queue /\ update \in IPs
  BY DEF HostsUpdated, eventVars, Types, TypeOK
<1>2. written \in Seq(IPs) /\ Len(written) \in Nat
  BY DEF Types, TypeOK
<1>3. Reported' = Reported
  BY <1>1, <1>2, FrontOfAppend DEF Reported
<1>4. HistoryEnd' = HistoryEnd /\ Told' = Told
  BY <1>1, <1>3 DEF HistoryEnd, Told
<1> QED BY <1>1, <1>3, <1>4 DEF FollowInv

\* The write is reported, and the history yet to come to it.
LEMMA FollowReport ==
  ASSUME Types, HistInv, FollowInv, ReportUpdated
  PROVE  FollowInv' /\ UNCHANGED <<written, HistoryEnd, Told>>
<1> DEFINE ev == [type |-> "hosts_updated", ip |-> update]
<1>1. Step("applied", "read", ev) /\ ev \in ClientEvent /\ ev.type = "hosts_updated"
      /\ ev.ip = update
  BY DEF ReportUpdated, ClientEvent, Types, TypeOK
<1> HIDE DEF ev
<1>2. cpc = "applied" /\ cpc' = "read" /\ panel' = panel /\ Appended(queue', queue, ev)
  BY <1>1, StepQueue
<1>3. written' = written /\ Reported' = written /\ HistoryEnd' = HistoryEnd
  BY <1>1, <1>2 DEF Reported, Step, HistoryEnd
<1>4. Appended(Reported', Reported, ev.ip)
  BY <1>1, <1>2, <1>3, ReportedIs
<1>5. PICK f :
        /\ Tells(f, HistoryEnd, queue, Reported, NoIp, "hosts_updated", "hosts_updated")
        /\ f[0] + Cardinality(Places(queue, "hosts_updated")) = Len(Reported)
  BY DEF FollowInv
<1>6. PICK u :
        /\ Tells(u, HistoryEnd, queue', Reported', NoIp, "hosts_updated", "hosts_updated")
        /\ u[0] = f[0]
  <2>1. Tells(f, HistoryEnd, queue, Reported, NoIp, "hosts_updated", "hosts_updated")
    BY <1>5
  <2>2. ev.type = "hosts_updated" /\ Appended(queue', queue, ev)
    BY <1>1, <1>2
  <2> QED BY ONLY <1>4, <2>1, <2>2, TellsNews
<1>7. /\ Cardinality(Places(queue', "hosts_updated"))
           = Cardinality(Places(queue, "hosts_updated")) + 1
      /\ Cardinality(Places(queue, "hosts_updated")) \in Nat
      /\ Len(Reported') = Len(Reported) + 1 /\ Len(Reported) \in Nat
  <2>1. Len(queue) \in Nat /\ DOMAIN queue = 1..Len(queue)
    BY <1>2 DEF Appended
  <2> QED BY <1>1, <1>2, <1>4, <2>1, PlacesAppended, PlacesFinite DEF Appended
<1>8. Told' = Told
  BY <1>7 DEF Told, Places
<1>9. f[0] \in Nat
  <2>1. Len(queue) \in Nat /\ 0 \in 0..Len(queue)
    BY <1>2 DEF Appended
  <2> QED BY <1>5, <1>7, <2>1 DEF Tells, Follows
<1>10. u[0] + Cardinality(Places(queue', "hosts_updated")) = Len(Reported')
  BY <1>5, <1>6, <1>7, <1>9
<1> QED BY <1>2, <1>3, <1>6, <1>8, <1>10 DEF FollowInv

\* What an event makes of the end of the history.
LEMMA HistoryEndDrain ==
  ASSUME Types, Drain
  PROVE  HistoryEnd' = IF queue[1].type = "hosts_updated" THEN queue[1].ip ELSE HistoryEnd
<1>1. Head(queue) = queue[1] /\ 1 \in DOMAIN queue
  BY DrainQueue DEF Types, TypeOK
<1>2. panel'.history = HistoryAfter(panel, queue[1])
  BY <1>1 DEF Drain, Apply
<1>3. CASE queue[1].type = "hosts_updated"
  <2> DEFINE h == panel'.history
  <2>1. panel.history \in Seq(IPs) /\ queue[1].ip \in IPs
    BY <1>1, <1>3 DEF Types, TypeOK, Panel, Addressed
  <2>2. h = LastOf(Append(panel.history, queue[1].ip), LogCapacity)
    BY <1>2, <1>3 DEF HistoryAfter, Capped, LastOf
  <2>3. Pushed(h, panel.history, queue[1].ip, LogCapacity) /\ Len(panel.history) \in Nat
    BY <2>1, <2>2, LastOfAppend, DesktopAssumption
  <2>4. Len(h) \in Nat \ {0}
    BY <2>3, DesktopAssumption DEF Pushed
  <2>5. h[Len(h)] = queue[1].ip
    BY <2>3, <2>4 DEF Pushed
  <2>6. h # <<>>
    BY <2>4
  <2> QED BY <1>3, <2>5, <2>6 DEF HistoryEnd, Last
<1>4. CASE queue[1].type # "hosts_updated"
  BY <1>2, <1>4 DEF HistoryAfter, HistoryEnd
<1> QED BY <1>3, <1>4

\* The panel takes an event: its history comes to the next address written, or
\* stays as it was.
LEMMA FollowDrain ==
  ASSUME Types, HistInv, FollowInv, Drain
  PROVE  /\ FollowInv' /\ UNCHANGED written
         /\ \/ UNCHANGED <<HistoryEnd, Told>>
            \/ /\ Told \in Nat /\ Told' \in DOMAIN written /\ Told' = Told + 1
               /\ HistoryEnd' = written[Told']
<1>1. Taken(queue', queue) /\ UNCHANGED <<cpc, written, update, Reported>>
  BY DrainQueue DEF Drain, Types, TypeOK, clientVars, Reported
<1>2. HistoryEnd' = IF queue[1].type \in {"hosts_updated", "hosts_updated"}
                    THEN queue[1].ip ELSE HistoryEnd
  BY HistoryEndDrain
<1>3. PICK f :
        /\ Tells(f, HistoryEnd, queue, Reported, NoIp, "hosts_updated", "hosts_updated")
        /\ f[0] + Cardinality(Places(queue, "hosts_updated")) = Len(Reported)
  BY DEF FollowInv
<1> DEFINE T(u) == Tells(u, HistoryEnd', queue', Reported, NoIp, "hosts_updated",
                         "hosts_updated")
<1>4. /\ \E u : T(u) /\ u[0] = f[1]
      /\ f[0] \in 0..Len(Reported) /\ f[1] \in 0..Len(Reported)
      /\ HistoryEnd' = At(Reported, f[1], NoIp)
      /\ f[1] = IF queue[1].type = "hosts_updated" THEN f[0] + 1 ELSE f[0]
  BY ONLY <1>1, <1>2, <1>3, TellsDrain
<1>5. HistoryEnd = At(Reported, f[0], NoIp)
  BY <1>3 DEF Tells, Follows
<1>6. /\ Cardinality(Places(queue, "hosts_updated")) \in Nat
      /\ Cardinality(Places(queue', "hosts_updated"))
           = IF queue[1].type = "hosts_updated"
             THEN Cardinality(Places(queue, "hosts_updated")) - 1
             ELSE Cardinality(Places(queue, "hosts_updated"))
  <2>1. Len(queue) \in Nat /\ DOMAIN queue = 1..Len(queue)
    BY <1>1 DEF Taken
  <2> QED BY <1>1, <2>1, PlacesTaken, PlacesFinite
<1>7. /\ Len(Reported) \in Nat /\ DOMAIN written = 1..Len(written)
      /\ Len(Reported) <= Len(written) /\ Len(written) \in Nat
      /\ \A i \in 1..Len(Reported) : Reported[i] = written[i]
  <2>1. written \in Seq(IPs) /\ Len(written) \in Nat
    BY DEF Types, TypeOK
  <2> QED BY <2>1, ReportedIs
<1>8. f[0] \in Nat /\ f[1] \in Nat
  BY <1>4, <1>7
<1>9. f[1] + Cardinality(Places(queue', "hosts_updated")) = Len(Reported)
  BY <1>3, <1>4, <1>6, <1>8
<1>10. Told = f[0]
  BY <1>3, <1>8, ToldIs
<1>11. Told' = f[1]
  <2>1. Told' = Len(Reported) - Cardinality(Places(queue', "hosts_updated"))
    BY <1>1 DEF Told, Places
  <2>2. Cardinality(Places(queue', "hosts_updated")) \in Int
    BY <1>6
  <2> QED BY <1>7, <1>8, <1>9, <2>1, <2>2
<1>12. FollowInv'
  <2>1. PICK u : T(u) /\ u[0] = f[1]
    BY <1>4
  <2> QED BY <1>1, <1>9, <2>1 DEF FollowInv
<1>13. CASE queue[1].type = "hosts_updated"
  <2>1. f[1] = f[0] + 1 /\ f[1] \in 1..Len(Reported)
    BY <1>4, <1>8, <1>13
  <2>2. HistoryEnd' = written[f[1]]
    BY <1>4, <1>7, <1>8, <2>1 DEF At
  <2>3. f[1] \in DOMAIN written
    BY <1>7, <2>1
  <2> QED BY <1>1, <1>8, <1>10, <1>11, <1>12, <2>1, <2>2, <2>3
<1>14. CASE queue[1].type # "hosts_updated"
  BY <1>1, <1>4, <1>5, <1>10, <1>11, <1>12, <1>14
<1> QED BY <1>13, <1>14

\* A step writes an address, takes an event, or changes nothing that the
\* abstract replica is made of.
LEMMA FollowNext ==
  ASSUME Types, HistInv, FollowInv, [Next]_vars
  PROVE  FollowInv' /\ (HostsUpdated \/ Drain \/ UNCHANGED <<written, HistoryEnd, Told>>)
<1>1. CASE Connecting \/ Connected \/ ConnectionFailed \/ ReadError \/ ConnectionLost \/ ReadOther
  BY <1>1, FollowOther
     DEF Connecting, Connected, ConnectionFailed, ReadError, ConnectionLost, ReadOther,
         ClientEvent, Plain
<1>2. CASE ReportError
  <2> DEFINE ev == [type |-> "hosts_error", ip |-> update]
  <2>1. ev \in ClientEvent /\ ev.type # "hosts_updated" /\ Step("failed", "read", ev)
    BY <1>2 DEF ReportError, ClientEvent, Types, TypeOK
  <2> HIDE DEF ev
  <2> QED BY <2>1, FollowOther
<1>3. ASSUME NEW ip \in IPs, ReadUpdate(ip)
      PROVE  FollowInv' /\ UNCHANGED <<written, HistoryEnd, Told>>
  <2> DEFINE ev == [type |-> "update_received", ip |-> ip]
  <2>1. ev \in ClientEvent /\ ev.type # "hosts_updated" /\ Step("read", "apply", ev)
    BY <1>3 DEF ReadUpdate, ClientEvent
  <2> HIDE DEF ev
  <2> QED BY <2>1, FollowOther
<1>4. CASE ReportUpdated
  BY <1>4, FollowReport
<1>5. CASE HostsUpdated
  BY <1>5, FollowWrite
<1>6. CASE Drain
  BY <1>6, FollowDrain
<1>7. CASE HostsFail \/ Eof \/ Wake
  BY <1>7 DEF HostsFail, Eof, Wake, FollowInv, Reported, HistoryEnd, Told, eventVars
<1>8. CASE Frame \/ UserStep \/ UNCHANGED vars
  BY <1>8 DEF Frame, UserStep, CloseButton, PickMenu, Toggle, vars, FollowInv, Reported, HistoryEnd, Told,
              clientVars, eventVars
<1> QED BY <1>1, <1>2, <1>3, <1>4, <1>5, <1>6, <1>7, <1>8 DEF Next, UserStep, ClientThread

\* The panel's history implements a hosts file of module Replication, whatever the
\* client's thread sends and however far behind the panel is: it goes on with each
\* address that was written, one after the other, and with no other.
THEOREM Implements == Spec => Replicates
<1>0. Init => HistInv
  BY HistInit
<1>1. Init => FollowInv /\ Abstract!RepInit
  <2> SUFFICES ASSUME Init PROVE FollowInv /\ Abstract!RepInit
    OBVIOUS
  <2>1. /\ queue = <<>> /\ written = <<>> /\ panel.history = <<>> /\ cpc = "connect"
        /\ Len(queue) = 0 /\ DOMAIN queue = {} /\ Reported = <<>> /\ Len(Reported) = 0
    BY DEF Init, Reported, NewPanel
  <2>2. Places(queue, "hosts_updated") = {} /\ Cardinality({}) = 0
    BY <2>1, FS_EmptySet DEF Places
  <2>3. Cardinality(Places(queue, "hosts_updated")) = 0
    BY <2>2
  <2>4. Told = Len(Reported) - Cardinality(Places(queue, "hosts_updated"))
    BY DEF Told, Places
  <2>5. Told = 0 /\ HistoryEnd = NoIp
    BY <2>1, <2>3, <2>4 DEF HistoryEnd
  <2> DEFINE t == [i \in 0..0 |-> 0]
  <2>6. Tells(t, NoIp, queue, <<>>, NoIp, "hosts_updated", "hosts_updated") /\ t[0] = 0
    BY <2>1 DEF Tells, Follows, At
  <2> HIDE DEF t
  <2>7. FollowInv
    BY <2>1, <2>3, <2>5, <2>6 DEF FollowInv
  <2> QED BY <2>1, <2>5, <2>7 DEF Abstract!RepInit
<1>2. ASSUME Types, HistInv, FollowInv, [Next]_vars PROVE [Abstract!RepNext]_(Abstract!repVars)
  <2>1. CASE HostsUpdated
    <3>1. update \in IPs /\ written' = Append(written, update) /\ UNCHANGED <<HistoryEnd, Told>>
      BY <1>2, <2>1, FollowWrite
    <3> QED BY <3>1 DEF Abstract!RepNext, Abstract!Publish
  <2>2. CASE Drain
    <3>1. CASE UNCHANGED <<HistoryEnd, Told>>
      BY <1>2, <2>2, <3>1, FollowDrain DEF Abstract!repVars
    <3>2. CASE /\ Told \in Nat /\ Told' \in DOMAIN written /\ Told' = Told + 1
               /\ HistoryEnd' = written[Told']
      <4> DEFINE v == Told'
      <4>1. /\ v \in DOMAIN written /\ v > Told /\ HistoryEnd' = written[v]
            /\ UNCHANGED written
        BY <1>2, <2>2, <3>2, FollowDrain
      <4>2. v = Told'
        OBVIOUS
      <4> HIDE DEF v
      <4>3. Abstract!Deliver("ui", v)
        BY <4>1, <4>2 DEF Abstract!Deliver
      <4> QED BY <4>1, <4>3 DEF Abstract!RepNext
    <3> QED BY <1>2, <2>2, <3>1, <3>2, FollowDrain
  <2>3. CASE UNCHANGED <<written, HistoryEnd, Told>>
    BY <2>3 DEF Abstract!repVars
  <2> QED BY <1>2, <2>1, <2>2, <2>3, FollowNext
<1>3. Types /\ HistInv /\ FollowInv /\ [Next]_vars => HistInv' /\ FollowInv'
  BY HistNext, FollowNext
<1> QED BY <1>0, <1>1, <1>2, <1>3, TypesHold, PTL DEF Spec, Replicates, Abstract!RepSpec

\* Module ReplicationProofs, of the addresses written and the panel's history.
Log == INSTANCE ReplicationProofs
         WITH Clients <- {"ui"}, log <- written,
              replica <- [u \in {"ui"} |-> [ip |-> HistoryEnd, ver |-> Told]]

\* At every moment the panel's history ends with an address the hosts file was
\* given, and it only ever goes on to ones given later (state.rs:173-190).
THEOREM NeverSetBack == Spec => []Abstract!Consistent /\ Abstract!Forward
<1>1. Replicates => []Log!RepInv
  BY Log!ShowsTheLog DEF Replicates, Abstract!RepSpec, Abstract!RepInit, Abstract!RepNext,
     Abstract!Publish, Abstract!Deliver, Abstract!repVars, Log!RepSpec, Log!RepInit,
     Log!RepNext, Log!Publish, Log!Deliver, Log!repVars
<1>2. Replicates => Abstract!Forward
  BY Log!GoesForward DEF Replicates, Abstract!RepSpec, Abstract!RepInit, Abstract!RepNext,
     Abstract!Publish, Abstract!Deliver, Abstract!repVars, Log!RepSpec, Log!RepInit,
     Log!RepNext, Log!Publish, Log!Deliver, Log!repVars, Abstract!Forward, Log!Forward
<1>3. Log!RepInv => Abstract!Consistent
  BY DEF Log!RepInv, Log!Consistent, Abstract!Consistent
<1> QED BY <1>1, <1>2, <1>3, Implements, PTL

-----------------------------------------------------------------------------
\* Neither Quit nor the X ends the process: a frame in which the window is asked to
\* close cancels it, whatever else the frame does (desktop/src/app.rs:71-80).  The
\* counterexample to PromiseKept is one behaviour in which Quit does not exit;
\* there is none in which it does.
THEOREM NothingEndsIt == Spec => []running
<1>1. Init => running
  BY DEF Init
<1>2. ASSUME Types, running, [Next]_vars PROVE running'
  <2>1. CASE ClientThread
    BY <1>2, <2>1 DEF ClientThread, Connecting, Connected, ConnectionFailed, ReadUpdate,
       ReadOther, HostsUpdated, ReportUpdated, HostsFail, ReportError, ReadError, Eof,
       ConnectionLost, Wake, Step, windowVars
  <2>2. CASE Drain \/ UserStep
    BY <1>2, <2>2 DEF Drain, UserStep, CloseButton, PickMenu, Toggle, windowVars
  <2>3. CASE Frame
    <3>1. running' = (closeAsked => Contains(Commands, "cancel_close"))
      BY <2>3 DEF Frame, Obey
    <3>2. ASSUME closeAsked PROVE Contains(Commands, "cancel_close")
      <4> DEFINE S == {"visible", "invisible", "close", "cancel_close"}
                 a == CASE Drained = "show" -> <<"visible">>
                        [] Drained = "hide" -> <<"invisible">>
                        [] Drained = "quit" -> <<"close">>
                        [] OTHER            -> <<>>
                 b == <<"cancel_close", "invisible">>
      <4>1. Commands = a \o b
        BY <3>2 DEF Commands
      <4>2. a \in Seq(S) /\ b \in Seq(S)
        <5>1. a \in {<<"visible">>, <<"invisible">>, <<"close">>, <<>>}
          BY Zenon
        <5>2. /\ <<"visible">> \in Seq(S) /\ <<"invisible">> \in Seq(S)
              /\ <<"close">> \in Seq(S) /\ <<>> \in Seq(S)
          OBVIOUS
        <5>3. b \in Seq(S)
          OBVIOUS
        <5> HIDE DEF a, b, S
        <5> QED BY <5>1, <5>2, <5>3, Zenon
      <4>3. b[1] = "cancel_close" /\ Len(b) = 2
        OBVIOUS
      <4> HIDE DEF a, b, S
      <4>4. /\ (a \o b) \in Seq(S) /\ Len(a \o b) = Len(a) + Len(b)
            /\ \A i \in 1..Len(a) + Len(b) :
                 (a \o b)[i] = IF i <= Len(a) THEN a[i] ELSE b[i - Len(a)]
        BY <4>2, ConcatProperties
      <4>5. Len(a) \in Nat /\ Len(a) + 1 - Len(a) = 1 /\ Len(a) + 1 \in 1..Len(a) + Len(b)
        BY <4>2, <4>3
      <4>6. (a \o b)[Len(a) + 1] = "cancel_close"
        BY <4>3, <4>4, <4>5
      <4>7. Len(a) + 1 \in 1..Len(a \o b)
        BY <4>4, <4>5
      <4> QED BY <4>1, <4>6, <4>7 DEF Contains
    <3> QED BY <3>1, <3>2
  <2>4. CASE UNCHANGED vars
    BY <1>2, <2>4 DEF vars, windowVars
  <2> QED BY <1>2, <2>1, <2>2, <2>3, <2>4 DEF Next, UserStep
<1> QED BY <1>1, <1>2, TypesHold, PTL DEF Spec
=============================================================================
