-------------------------------- MODULE Desktop --------------------------------
(***************************************************************************)
(* The desktop app: the client's thread (client/src/lib.rs) sends events   *)
(* to the UI's thread, which drains them into a ClientState                *)
(* (ui/src/state.rs), drains the tray's menu (desktop/src/tray.rs),        *)
(* answers a request to close the window, and draws the state              *)
(* (ui/src/views/mod.rs), frame after frame (desktop/src/app.rs).          *)
(*                                                                         *)
(* The client's thread is that of module Client, step by step as it sends; *)
(* its server and its connection are left to chance.                       *)
(***************************************************************************)
EXTENDS Naturals, SequencesExt

CONSTANTS IPs, NoIp,
          LogCapacity,  \* LOG_CAPACITY of ui/src/state.rs
          MaxQueue,     \* bound: events the UI has not drained
          MaxMenu,      \* bound: menu events it has not drained
          MaxUpdates    \* bound: updates the client applies

ASSUME DesktopAssumption ==
  /\ NoIp \notin IPs
  /\ LogCapacity \in Nat \ {0} /\ MaxQueue \in Nat \ {0}
  /\ MaxMenu \in Nat /\ MaxUpdates \in Nat

VARIABLES cpc,         \* where the client's thread is
          update,      \* the address of the last ip_update it parsed
          written,     \* history: the addresses it has written to the hosts file
          age,         \* history: events sent since such a write failed
          queue, panel,  \* the events' channel and the ClientState
          menu,        \* the tray's channel
          visible,     \* the window is shown
          opened,      \* the panel's sections that are not collapsed
          closeAsked,  \* close_requested() in the next frame
          quitFlag,    \* quit_flag of the tray
          running      \* eframe has not ended the process

clientVars == <<cpc, update, written>>
eventVars == <<age, queue>>
windowVars == <<menu, visible, opened, closeAsked, quitFlag, running>>
vars == <<clientVars, eventVars, panel, windowVars>>

\* "connect" and "sleep" as in module Client, and further
\* "connecting"  in TcpStream::connect
\* "read"        in handle_stream, waiting for a line
\* "apply"       in update_hosts_entry
\* "applied"     it has returned Ok, nothing sent yet
\* "failed"      it has returned Err, nothing sent yet
\* "left"        handle_stream has returned
Reading == {"read", "apply", "applied", "failed"}
ClientPC == {"connect", "connecting", "left", "sleep"} \cup Reading

ClientEvent == [type : {"connecting", "connected", "connection_lost", "connection_failed",
                        "update_received", "hosts_updated", "hosts_error",
                        "heartbeat", "parse_error"},
                ip   : IPs \cup {NoIp}]

Plain(type) == [type |-> type, ip |-> NoIp]

-----------------------------------------------------------------------------
\* ClientState.

LogKind == {"info", "warn", "error"}

\* But for the configuration it repeats.  Of a log entry the kind is kept.
Panel == [connected : BOOLEAN, last : IPs \cup {NoIp}, history : Seq(IPs), log : Seq(LogKind)]

NewPanel == [connected |-> FALSE, last |-> NoIp, history |-> <<>>, log |-> <<>>]

\* Mutant: a failed update logged as the other things that go wrong.
KindLenient(ev) ==
  CASE ev.type = "connection_failed" -> "error"
    [] ev.type \in {"connection_lost", "parse_error", "hosts_error"} -> "warn"
    [] OTHER -> "info"

\* client_event_to_log_entry.
Kind(ev) ==
  CASE ev.type \in {"connection_failed", "hosts_error"} -> "error"
    [] ev.type \in {"connection_lost", "parse_error"} -> "warn"
    [] OTHER -> "info"

\* drain(0..extra) leaves the newest entries.
Capped(s) ==
  IF Len(s) > LogCapacity THEN SubSeq(s, Len(s) - LogCapacity + 1, Len(s)) ELSE s

\* Mutant: as if a lost connection mattered only when the next one fails.
ConnectedLate(p, ev) ==
  ev.type = "connected" \/ (p.connected /\ ev.type \notin {"connecting", "connection_failed"})

ConnectedAfter(p, ev) ==
  \/ ev.type = "connected"
  \/ /\ p.connected
     /\ ev.type \notin {"connecting", "connection_lost", "connection_failed"}

LastAfter(p, ev) ==
  IF ev.type \in {"update_received", "hosts_updated", "hosts_error"} THEN ev.ip ELSE p.last

\* Mutant: as if an address were recorded when it is received.
HistoryEarly(p, ev) ==
  IF ev.type = "update_received" THEN Capped(Append(p.history, ev.ip)) ELSE p.history

HistoryAfter(p, ev) ==
  IF ev.type = "hosts_updated" THEN Capped(Append(p.history, ev.ip)) ELSE p.history

\* apply_client_event.
Apply(p, ev) == [connected |-> ConnectedAfter(p, ev),
                 last      |-> LastAfter(p, ev),
                 history   |-> HistoryAfter(p, ev),
                 log       |-> Capped(Append(p.log, Kind(ev)))]

Color(kind) ==
  CASE kind = "error" -> "red" [] kind = "warn" -> "yellow" [] OTHER -> "gray"

\* The sections that ui.collapsing draws just when they are opened.
Section == {"history", "log"}

\* What client_panel draws, of its sections nothing while they are collapsed.
Shown == [status  |-> IF panel.connected THEN "connected" ELSE "reconnecting",
          last    |-> panel.last,
          history |-> IF "history" \in opened THEN panel.history ELSE <<>>,
          log     |-> IF "log" \in opened
                      THEN [i \in DOMAIN panel.log |-> Color(panel.log[i])] ELSE <<>>]

MenuAction == {"show", "hide", "quit"}

\* Types; what is written to the hosts file is an address that was received
\* (client/src/lib.rs:63-73).
TypeOK ==
  /\ cpc \in ClientPC
  /\ update \in IPs \cup {NoIp}
  /\ cpc \in {"apply", "applied", "failed"} => update # NoIp
  /\ written \in Seq(IPs)
  /\ age \in 0..LogCapacity + 1
  /\ queue \in Seq(ClientEvent) /\ panel \in Panel
  /\ menu \in Seq(MenuAction) /\ opened \subseteq Section
  /\ {visible, closeAsked, quitFlag, running} \subseteq BOOLEAN

Init ==
  /\ cpc = "connect" /\ update = NoIp /\ written = <<>>
  /\ age = LogCapacity + 1 /\ queue = <<>> /\ panel = NewPanel
  /\ menu = <<>> /\ visible = TRUE /\ opened = {}
  /\ closeAsked = FALSE /\ quitFlag = FALSE /\ running = TRUE

-----------------------------------------------------------------------------
\* The client's thread.

Emit(ev) ==
  /\ Len(queue) < MaxQueue
  /\ queue' = Append(queue, ev)
  /\ age' = IF age <= LogCapacity THEN age + 1 ELSE age

\* A step from pc to next at which ev is sent.
Step(pc, next, ev) ==
  /\ running
  /\ cpc = pc /\ cpc' = next
  /\ Emit(ev)
  /\ UNCHANGED <<written, panel, windowVars>>

Connecting == Step("connect", "connecting", Plain("connecting")) /\ UNCHANGED update

Connected == Step("connecting", "read", Plain("connected")) /\ UNCHANGED update

ConnectionFailed ==
  Step("connecting", "sleep", Plain("connection_failed")) /\ UNCHANGED update

ReadUpdate(ip) ==
  /\ Len(written) < MaxUpdates
  /\ Step("read", "apply", [type |-> "update_received", ip |-> ip])
  /\ update' = ip

\* Mutant: as if the match fell through to the update.
ReadAny ==
  \/ Step("read", "apply", Plain("heartbeat")) /\ UNCHANGED update
  \/ Step("read", "read", Plain("parse_error")) /\ UNCHANGED update

\* A heartbeat, or a line that does not parse.
ReadOther ==
  \E type \in {"heartbeat", "parse_error"} :
    Step("read", "read", Plain(type)) /\ UNCHANGED update

HostsUpdated ==
  /\ running
  /\ cpc = "apply" /\ cpc' = "applied"
  /\ written' = Append(written, update)
  /\ UNCHANGED <<update, eventVars, panel, windowVars>>

ReportUpdated ==
  Step("applied", "read", [type |-> "hosts_updated", ip |-> update]) /\ UNCHANGED update

HostsFail ==
  /\ running
  /\ cpc = "apply" /\ cpc' = "failed"
  /\ age' = 0
  /\ UNCHANGED <<update, written, queue, panel, windowVars>>

ReportError ==
  Step("failed", "read", [type |-> "hosts_error", ip |-> update]) /\ UNCHANGED update

\* handle_stream reports an error itself, so that one is reported twice ...
ReadError == Step("read", "left", Plain("connection_lost")) /\ UNCHANGED update

Eof ==
  /\ running
  /\ cpc = "read" /\ cpc' = "left"
  /\ UNCHANGED <<update, written, eventVars, panel, windowVars>>

\* ... once by run_with_events, as the end of file is.
ConnectionLost == Step("left", "sleep", Plain("connection_lost")) /\ UNCHANGED update

Wake ==
  /\ running
  /\ cpc = "sleep" /\ cpc' = "connect"
  /\ UNCHANGED <<update, written, eventVars, panel, windowVars>>

ClientThread ==
  \/ Connecting \/ Connected \/ ConnectionFailed
  \/ \E ip \in IPs : ReadUpdate(ip)
  \/ ReadOther \/ HostsUpdated \/ ReportUpdated \/ HostsFail \/ ReportError
  \/ ReadError \/ Eof \/ ConnectionLost \/ Wake

-----------------------------------------------------------------------------
\* The UI's thread.

\* Mutant: as if the oldest menu event were kept.
DrainedFirst == IF menu = <<>> THEN "none" ELSE Head(menu)

\* drain_menu_events: the last of the pending actions.
Drained == IF menu = <<>> THEN "none" ELSE Last(menu)

\* The viewport commands of a frame: handle_menu's, then, if the window has
\* been asked to close, the two that hide it instead.
Commands ==
  (CASE Drained = "show" -> <<"visible">>
     [] Drained = "hide" -> <<"invisible">>
     [] Drained = "quit" -> <<"close">>
     [] OTHER            -> <<>>)
  \o IF closeAsked THEN <<"cancel_close", "invisible">> ELSE <<>>

\* What eframe makes of a frame's commands: a Close is a request to close in
\* the next frame, and a request that the frame does not cancel ends it all.
Obey(cmds) ==
  LET shows == SelectSeq(cmds, LAMBDA cmd : cmd \in {"visible", "invisible"}) IN
  /\ visible' = IF shows = <<>> THEN visible ELSE Last(shows) = "visible"
  /\ closeAsked' = Contains(cmds, "close")
  /\ running' = (closeAsked => Contains(cmds, "cancel_close"))

\* drain_client, at the beginning of a frame: one event.
Drain ==
  /\ running
  /\ queue # <<>>
  /\ panel' = Apply(panel, Head(queue))
  /\ queue' = Tail(queue)
  /\ UNCHANGED <<clientVars, age, windowVars>>

\* The rest of the frame, try_recv having found the channel empty.
Frame ==
  /\ running
  /\ queue = <<>>
  /\ menu' = <<>>
  /\ quitFlag' = (quitFlag \/ Contains(menu, "quit"))
  /\ Obey(Commands)
  /\ UNCHANGED <<clientVars, eventVars, panel, opened>>

-----------------------------------------------------------------------------
\* The user.

PickMenu(action) ==
  /\ running
  /\ Len(menu) < MaxMenu
  /\ menu' = Append(menu, action)
  /\ UNCHANGED <<clientVars, eventVars, panel, visible, opened, closeAsked, quitFlag, running>>

CloseButton ==
  /\ running /\ visible /\ ~closeAsked
  /\ closeAsked' = TRUE
  /\ UNCHANGED <<clientVars, eventVars, panel, menu, visible, opened, quitFlag, running>>

\* A click on a section's header.
Toggle(section) ==
  /\ running /\ visible
  /\ opened' = SymDiff(opened, {section})
  /\ UNCHANGED <<clientVars, eventVars, panel, menu, visible, closeAsked, quitFlag, running>>

-----------------------------------------------------------------------------
Next ==
  \/ ClientThread
  \/ Drain \/ Frame
  \/ \E action \in MenuAction : PickMenu(action)
  \/ CloseButton
  \/ \E section \in Section : Toggle(section)

Spec == Init /\ [][Next]_vars

\* Every frame asks for the next one.  A frame's drain comes to an end, for the
\* UI's thread takes events from the channel faster than the network and the
\* client's sleeps put them there.
FairSpec == Spec /\ WF_vars(Drain) /\ SF_vars(Frame) /\ []<>(queue = <<>>)

-----------------------------------------------------------------------------
\* With no event left to drain the panel says whether "the client currently
\* holds a live TCP connection" (state.rs:59-60), though a read error is
\* reported twice; but for the moment between the end of a connection and the
\* report of it (client/src/lib.rs:36-45, 130-135).
ConnectedShown ==
  (queue = <<>> /\ cpc # "left") => (Shown.status = "connected" <=> cpc \in Reading)

\* The addresses the hosts file has been given and the UI has been told of.
Reported == IF cpc = "applied" THEN Front(written) ELSE written

\* With no event left to drain the panel's history, when it is drawn, is the
\* newest of what the hosts file has been given, in order: an address that was
\* received and could not be written is not in it (client/src/lib.rs:65-93,
\* state.rs:173-192).
PanelAgrees ==
  (queue = <<>> /\ "history" \in opened) =>
    /\ IsSuffix(Shown.history, Reported)
    /\ Len(Shown.history) = IF Len(Reported) < LogCapacity THEN Len(Reported) ELSE LogCapacity

\* The last address of the panel's history.
HistoryEnd == IF panel.history = <<>> THEN NoIp ELSE Last(panel.history)

\* The addresses the panel's history has come to: all that were reported but those
\* whose report is in the channel.
Told == Len(Reported) - Cardinality({i \in DOMAIN queue : queue[i].type = "hosts_updated"})

\* At every moment, however far behind its channel is, the panel's history ends as
\* a hosts file of module Replication, whose log is what the real one has been
\* given: with an address that was written, each one after the one written
\* before it, and never with one that was received and could not be written
\* (client/src/lib.rs:65-93, state.rs:173-190).
Abstract == INSTANCE Replication
              WITH Clients <- {"ui"}, log <- written,
                   replica <- [u \in {"ui"} |-> [ip |-> HistoryEnd, ver |-> Told]]
Replicates == Abstract!RepSpec

\* The hosts file does not have the address received last.
Outdated ==
  /\ update # NoIp
  /\ cpc \notin {"apply", "failed"}
  /\ written = <<>> \/ Last(written) # update

\* What there is to see of an update that failed: while the hosts file lacks the
\* address received last, a log that is drawn has a red line, where the failure
\* came in the order of events, until LogCapacity later ones, heartbeats among
\* them, have pushed it out (state.rs:194-198; views/mod.rs:109-120).
FailureLogged ==
  (queue = <<>> /\ "log" \in opened /\ Outdated /\ age <= LogCapacity) =>
    /\ age \in 1..Len(Shown.log)
    /\ Shown.log[Len(Shown.log) - age + 1] = "red"

\* The user's last word counts: after Show the window comes up, unless the user
\* changes their mind, by the menu or by the X, or the window was already being
\* asked to close (desktop/src/app.rs:71-80, desktop/src/tray.rs:96-114).
ShowShows ==
  (menu # <<>> /\ Last(menu) = "show" /\ ~closeAsked)
    ~> (visible \/ closeAsked \/ (menu # <<>> /\ Last(menu) # "show"))

\* "The UI must surface this prominently; never swallow it"
\* (common/src/lib.rs:82-83), or at least not give as the "last applied update"
\* (state.rs:61) one that was not: while the hosts file lacks the address
\* received last and the window is shown, it has a red line, or some other
\* address as its last update.
FailureSurfaced ==
  (queue = <<>> /\ visible /\ Outdated) =>
    Shown.last # update \/ Contains(Shown.log, "red")

\* "Quit exits" (desktop/README.md:40).
QuitExits == quitFlag ~> ~running

\* A behaviour that breaks this breaks both: a user who is not told that the
\* hosts file could not be updated, and who cannot quit.
PromiseKept == []FailureSurfaced \/ QuitExits
=============================================================================
