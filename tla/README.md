# Verification of dnsless-homelab

TLA+ modules of the server, the client, the hosts file and the panels of
[dnsless-homelab](../src/README.md), the TLC runs that check them on small
instances, and TLAPS proofs of what matters most for every instance. The code
is the reference; the documents are only what the code is compared with.

## The system

| part | source | state | operations |
|---|---|---|---|
| server, main thread | `server/src/lib.rs` 134-207 | `last_ip` | poll the interface, announce a new address, sleep, send a heartbeat |
| server, accept thread | `server/src/lib.rs` 76-125 | - | register connections |
| the list | `server/src/lib.rs` 55-74 | `Arc<Mutex<Vec<ClientConn>>>` | `broadcast` writes one line to each connection and drops those it cannot write to, the mutex held throughout |
| client thread | `client/src/lib.rs` | the stream | connect, read lines, apply `ip_update`, sleep, reconnect |
| hosts file | `client/src/hosts.rs` | the file, a temporary file | read, replace or append a block, write the temporary file, rename |
| protocol, events | `common/src/lib.rs` | - | `ip_update`, `heartbeat`; `ServerEvent`, `ClientEvent` |
| event fan-out | `server/src/lib.rs` 35-53, `server/src/admin.rs` | listeners, browsers' WebSockets under a mutex | channel first, then the browsers |
| UI state | `ui/src/state.rs`, `ui/src/event.rs` | `ServerState`, `ClientState`, their logs | fold an event |
| native UI, desktop, web | `ui/src/app.rs`, `desktop/src`, `web/src/app.rs` | a state, a window, a tray | drain events, obey the menu, hide on close |
| detection | `server/src/ip_detector.rs` | - | choose an address among the interfaces' |
| views | `ui/src/views/mod.rs` | - | draw a state |
| configuration, static HTTP, entry points | the rest | - | pure or plain I/O |

The threads of the server share the list and the observers. Server and client
share a TCP connection that carries lines one way: the client never writes, so
the server learns that a client is gone only from a write that fails (its reader
threads merely log), and the client learns that the server is gone only from a
read that ends. Client processes share the hosts file with each other and with
the machine's user. A UI gets events over a channel, and never asks.

**What is hard.** A broadcast interleaves with registrations and with
connections that die in the middle of it; a connection's two ends live and die
separately, and the very change of address the program is for may sever a
connection with neither end being told; a client may stop reading; the server
may be restarted and forget `last_ip`; an update of the hosts file may stop
between any two calls; two processes may update the file at once, while its user
edits it; two threads send events to one observer; a browser may read
late what it is sent, or stop reading, with one of those threads in the middle
of a send, holding a mutex the other needs; the one line that tells of a failed
update competes with heartbeats for its place in a log that is collapsed until
the user opens it. `PROJECT.json` lists the hazards, each at its line,
with the properties that catch it.

**What makes each part correct.** The server: everybody on the list gets every
line, once and in order, whoever fails. The client: it applies only news and
comes back after any failure it can notice. The hosts file: changed
atomically and whole at every moment, each block where it was. A panel: with
nothing left to drain, it shows what is so, and its log a failure for as long as
it is deep. A page: what it shows is some announcement and those before it, and,
while it is connected, one that what is on its way goes on from. Whatever becomes
of the page, the server goes on.

## The modules

| module | models | extends |
|---|---|---|
| `Tcp` | the kernels and the network as `std::net` calls see them (external) | |
| `Server` | `server/src/lib.rs`: both threads, crash, restart | `Tcp` |
| `Client` | `client/src/lib.rs`: one thread per client | `Tcp` |
| `Dnsless` | server, clients and network together; properties, inductive invariant, fairness | `Server`, `Client` |
| `Replication` | the abstract promise: a log of addresses, hosts files that only move forward in it | |
| `ReplicationProofs` | theorems about `Replication`, instantiated by the three modules of proofs whose systems implement it | `Replication` |
| `DnslessProofs` | theorems about `Dnsless` | `Dnsless` |
| `HostsFile` | `client/src/hosts.rs`, call by call | |
| `AtomicFile` | the abstract promise of `update_hosts_entry`, which `HostsFile` implements | |
| `HostsProofs` | theorems about `HostsFile` | `HostsFile`, `Lemmas` |
| `ServerPanel` | detection, the events of the server's threads, the native panel and a browser | |
| `ServerPanelProofs` | theorems about `ServerPanel` | `ServerPanel`, `Lemmas` |
| `Desktop` | the client's events, the desktop app's panel, window and tray | |
| `DesktopProofs` | theorems about `Desktop` | `Desktop`, `Lemmas` |
| `Lemmas` | facts the last three share, about sequences and channels: first match, slices, capped lists, the last event of a kind, counting | |
| `MCHostsFile`, `MCServerPanel` | instances and symmetry for TLC | |

### Tcp, Server, Client, Dnsless

A connection is a pair `<<client, number>>`. `serverEnd` and `sock` say which
ends are open, `chan` holds the lines the client can still read, `stuck` counts
lines in the kernels' buffers that nobody will read (the client is gone or the
connection is severed), `cut` holds connections severed silently, and `reset`
those the server's kernel has given up: a write to one of these fails. A write
to a connection with `Buffer` lines in it blocks; that is all the back pressure
there is. `faults` bounds the failures in one behaviour.

`spc` is where the main thread is. `retain_mut` visits the `Vec` once, in order,
so the `Vec` is `clients \o todo`: kept, and yet to be visited. `StartBroadcast`
takes the mutex, each `SendLine` or `Drop` is one turn of the closure,
`EndBroadcast` releases it; `Register` needs it (`LockFree`). Connection and
registration are separate steps (the backlog). The address the interface has is
`nic`, or `NoIp` when `detect_ip` would fail; `NicChange` may sever connections
in the same step. A crash of the server closes every end and may leave the first
part of a line on the connection being written to.

`ver`, in lines and hosts files, is a history tag that no action reads: how many
announcements there had been. The hosts file is one entry here (`hosts`), since
its own steps are `HostsFile`'s, and since no update touches the entry of another
name as long as updates do not overlap (`OthersAreLeftAlone`).

### HostsFile, AtomicFile

The file system is inodes (`disk`) and paths (`dir`). `update_hosts_entry` is
read (with `replace_or_append` computed on what was read), open with truncation,
write and close, rename; any of them may fail, and the process may die between
any two (`Abandon`), leaving the temporary file behind half written. An inode is
reused when no path and no process has it. The file is a sequence of lines: the
user's, or one of a block's three. The code finds markers as substrings, so
`Find` also takes the marker of a name the wanted one is a beginning of
(`Longer`), and what is left of such a line stays in the file (`rest`). The user
may delete lines at any moment, also between an update's read and its rename.

`AtomicFile` is what that amounts to for everybody else: an update makes a new
version of the file as it is at one moment and later puts all of it into place,
or nothing. It says nothing against lost updates, for the code takes no lock: two
updates that overlap may undo each other's, of different names too, each putting
into place the version it read before the other's rename.
`Atomic` is the refinement, with `file <- Content`, and the two modules' `job`
the same.

### ServerPanel

The two threads of the server again, now with every event they send.
`Broadcaster::send` is two steps, the channel (`Send`) and the browser
(`AdminSend`); `pending` is the event a thread has between them. A connection is
reduced to its address and whether a write to it will fail (`lost`). `Accept`,
`Push` and `AnnounceClient` are the accept loop's three stages: the event is sent
after the mutex is released. `Apply` is `apply_server_event`.

Both observers fold later what they are sent now. `queue` is the native UI's
channel. `inbox` is what the connection to the browser holds, in either
machine's buffers: `ws.send` returns once it has put a message there (`WsSend`),
and the page's `onmessage` is a step of its own (`OnMessage`), soon, late or
never. When `inbox` is full `ws.send` does not return, for either thread
(`AdminSend`); when the connection ends, what is in it is lost (`Freeze`).

`layout` is the list of interfaces the system reports, and `DetectIp` the choice
`detect_ip` makes of it. `listeners` are those `AdminServer::spawn` could bind,
other processes having taken any of its ports (`Bound`). A page (`web`) is
served, connects once and to port 8080 whatever is configured (`PagePort`),
folds what it reads, and is frozen when its connection cannot be made or ends: it
then shows what it has for good. A request that is answered by an error, or not
at all, has served no page.

A UI that folds events is a replica of what they tell: `Replicates` maps the native
UI to one hosts file of `Replication`, its log the announcements, its place in it
the announcements less those still in its channel (`Told`). `NativeAgrees`
and `NativeListsClients` are about the whole panel at rest; `Replicates` is about
every moment, also between two events of one drain. So is `WebAgrees`, about a
page: its address and its history are always those after one and the same
announcement, with none left out between, although it missed what came before it
and although its connection may have broken off anywhere; while it is connected
that announcement is the newest one that is neither on its way nor still in the
main thread's hands (`WebTold`). It speaks of announcements, not of the interface:
when the interface loses its address nobody is told (`DetectNothing`), and every
panel goes on showing the last one.

### Desktop

The client's thread sends an event at each step; `HostsUpdated` and
`ReportUpdated`, or `HostsFail` and `ReportError`, are apart because the file
changes, or does not, before the event is sent. `Drain` takes one event from the
channel, and `Frame` is the rest of one `update`, begun when the channel was
found empty: it takes the last menu action and issues viewport commands, which
`Obey` carries out as eframe 0.29 does: a Close becomes a request in the next
frame, and a request that this frame does not cancel ends the process. `Shown` is
what `client_panel` draws, with the kind of each log entry (`Kind`) as its
colour: the status and the last update always, the history and the log when the
user has opened their sections (`opened`, `Toggle`), which are collapsed at
first. `written` and `age` are history: what the hosts file was given, and how
many events were sent since a write of it failed. `Replicates` maps the panel's
history to a hosts file of `Replication` whose log is `written`.

`PanelAgrees` and `FailureLogged` say what the two sections are worth when they
are open. What the panel says without being asked is a matter of
`desktop_promises`. That frames go on while the
window is hidden is eframe's affair and assumed.

## The runs

| run | bounds | shows |
|---|---|---|
| `reconnect` | 1 client, 2 connections at once, 2 addresses, 2-line buffers, 3 announcements, 2 faults | `OnlyNews`: nothing stale is applied. `LiveKept`: the server drops no client whose connection works. `Replicates`: the refinement. The inductive invariant `IInv` |
| `dist_live` | 2 clients, 1 connection each, 1-line buffers, 1 announcement and one more by a restart, 1 fault | `NoGap`: on one connection announcements are consecutive. `NobodyForgotten`: a working registered connection ends with the newest one. `Notified`, `Delivered`, `DeadDropped`, `Rejoins` under fairness |
| `hosts_file` | 2 processes, 1 name and block each, 2 addresses, 1 user's line, 3 inodes | `Atomic`: the refinement. `Whole`: each name has no block or one whole one. `UpdateInPlace`: of any file there can be, an update replaces just its own block, where it was, or appends it, and does nothing the second time |
| `server_panel` | 1 client address, 3 lists of interfaces, 1 browser, history of 1, 1 event in the channel and 1 on its way to the page, 2 announcements | `NativeAgrees`: the native UI, its channel empty, has the address and the history. `NativeListsClients`: and every announced client on the list. `WebAgrees`: a page's address and history are those after one announcement, with none left out, however late it reads. `Replicates`: at every moment the native UI has an announced address, and is never set back. `KeepsPolling`, `LiveShown`, `LostUnshown`, `WebLearnsIp` under fairness |
| `desktop` | 2 addresses, history and log of 2, 2 updates, 2 events and 2 menu events undrained | `ConnectedShown`, `PanelAgrees`, `FailureLogged` of a panel with nothing to drain, its sections opened or collapsed, `Replicates` of its history at every moment; `ShowShows` under fairness |

Seven runs show where the code does not do what a document or comment says. TLC
finds the counterexample under fairness, or in a step, from a small instance:

| run | property | what the code does |
|---|---|---|
| `late_joiner` | `UpToDate` | a client that connects after the announcement is never told the address, though it stays connected |
| `silent_cut` | `DetectsDrop` | a severed connection is read for ever: heartbeats have no deadline |
| `stalled_client` | `NotifiesEveryClient` | one client that does not read blocks the broadcast, and the server, for all |
| `hosts_shared` | `Atomic` | two processes of one server (as the service and the desktop app) share a temporary file: one renames into place what the other has just truncated, and the hosts file is empty or partial |
| `hosts_prefix` | `OnlyItsBlock` | updating `nas` puts its block in the place of that of `nas2` if that comes first: the lines of `nas2` are gone |
| `ghost_client` | `NoGhost` | a client's end may be reported before its arrival, and it is then listed for ever |
| `desktop_promises` | `PromiseKept` | one behaviour breaks each of three promises: an update fails, the panel, its log collapsed, has no red line to see, and it gives the address that was not written as its last update; then Quit hides the window, since the frame after it cancels the close, as it does for the X |

`PromiseKept` is `[]FailureSurfaced \/ QuitExits`: what TLC finds is one user's
bad day, who is neither told that the hosts file could not be updated nor able to
quit, so each half is violated, and `FailureSurfaced` is violated only if the red
line is missing (`common/src/lib.rs:82-83`: "The UI must surface this prominently;
never swallow it") and the last update is one that was not applied
(`state.rs:61`: "Last applied update"). `PROJECT.json` has a finding for each.

What is left of the promise about failures is `FailureLogged`: a log that is
drawn has the red line until `LOG_CAPACITY` later events, and every heartbeat is
one, have pushed it out. `Delivered` likewise excludes a failed update, which is
not tried again.

### Bounds

Every bound is a constant or stands in a comment that begins with "Bound".
Two clients are enough for one to fail before, between or after the writes to
the other in one broadcast; two connections of one client are enough for an old
and a new one to be on the list together; two announcements are the least for a
gap, three for a gap across a reconnection. In `dist_live` the second
announcement comes with a restart of the server, which is also the one fault; a
fault of the network or a client leaves one announcement and its heartbeats. (That
three announcements on one connection have no gap is part of `IInv`, in
`reconnect`.) A
buffer of one line makes a write block after every line, a buffer of two lets
lines queue. Two faults place a failure at every point, and a failure during the
recovery from another.

Three inodes are the hosts file's and a temporary file for each process. Two
addresses and two names are not told apart (`Symmetry`); one address would do for
wholeness, two are needed to see an update undone.

In `server_panel` one event in the channel suffices: the native UI may take an
event after any is sent; one on its way to the page makes a send block until the
page reads, and the next one be sent before it has. One client address is enough
there because events of different peers touch different entries; a second
browser's panel would be a second copy of the first's, and its failure to read
blocks the same mutex. With a history of one, the second announcement is already
over the cap. Its three lists of interfaces have an address behind others of the
wrong interface or family, two that suit, and none. `desktop` lets two events
queue, so that a drain finds the channel empty only after several; its log of
two is passed by a failure with two events to follow. `desktop_promises` needs
no more than one address, update, event and menu event at a time.

### Fairness

Threads that can run do (weak fairness of the main thread's steps and of each
client's), a kernel that holds lines nobody acknowledges gives up in the end,
and a dead server is started again (the README's systemd unit). The accept
thread, which waits for a mutex the main thread frees between broadcasts only,
has strong fairness: Rust's mutex promises no order, but between two broadcasts
the main thread sleeps for seconds. In `ServerPanel` the threads have strong
fairness for the same reason, because a browser may be slow to read, and because
the channel, unbounded in the code, is bounded by `MaxQueue`; a page's attempt
to connect succeeds or fails. Its properties of progress have a premise,
`Reads`, that a browser reads what it is sent or is closed: the code has no
write timeout there, and `KeepsPolling` does not hold without it. In `Desktop`
every frame asks for the next one (`request_repaint`), and its drain comes to an
end, which the code does not enforce but the sleeps of the client's thread do
(`[]<>(queue = <<>>)`). No failure, no change of address, no reading by a
stalled client and no act of the user is ever required to happen.

## The proofs

Every theorem is for all values of the constants that the modules' named
assumptions (`TcpAssumption`, `ServerAssumption`, `StalledAssumption`,
`HostsFileAssumption`, `ServerPanelAssumption`, `DesktopAssumption`) allow: any
sets of clients, addresses, processes and names, any capacities and bounds.

| module | theorem | |
|---|---|---|
| `DnslessProofs` | `Invariance` | `Spec => []IInv` |
| | `TypeCorrect`, `NothingMissed`, `NobodyIsForgotten`, `OnlyNewsArrives` | `TypeOK`, `NoGap`, `NobodyForgotten`, `OnlyNews` in every reachable state |
| | `LiveStay` | the action property `LiveKept` |
| | `Implements` | `Spec => Replicates`: the refinement of `Replication` with `log <- announced`, `replica <- hosts` |
| | `NeverSetBack` | a hosts file shows an announced address at every moment, and no step takes one back |
| `HostsProofs` | `TypeCorrect` | `TypeOK` |
| | `AtomicWhileApart` | `Atomic`, while no two updates of one name overlap (`[]Apart`) |
| | `FileIsAtomic` | `Atomic`, if no two processes serve one name (`Separate`) |
| | `FileIsWhole`, `UpdatesAreInPlace` | `Whole`, `UpdateInPlace`, if moreover no name begins with another (`Longer = {}`) |
| | `OthersAreLeftAlone` | `OnlyItsBlock`, if `Longer = {}`, while no two updates overlap at all (`[]Alone`) |
| `ServerPanelProofs` | `TypeCorrect`, `NativeAlwaysAgrees`, `ClientsAlwaysListed`, `WebAlwaysAgrees` | `TypeOK`, `NativeAgrees`, `NativeListsClients`, `WebAgrees` |
| | `Implements`, `NeverSetBack` | `Replicates`, and what follows from it for the native UI |
| | `OrderOfNoConsequence` | when the order of interfaces does not matter to `detect_ip` |
| `DesktopProofs` | `TypeCorrect`, `ConnectedIsShown`, `PanelAlwaysAgrees`, `FailureIsLogged` | `TypeOK`, `ConnectedShown`, `PanelAgrees`, `FailureLogged` |
| | `Implements`, `NeverSetBack` | `Replicates`, and what follows from it for the panel's history |
| | `NothingEndsIt` | neither Quit nor the X ends the process: `desktop_promises` shows one behaviour, this all of them |
| `ReplicationProofs` | `ShowsTheLog`, `GoesForward` | what an implementation of `Replication` can be relied upon for |

The extra hypotheses are needed: `hosts_shared` shows what happens when two
updates of one name overlap, `hosts_prefix` when a name begins with another, and
two overlapping updates of different names can undo one another's in the
file, which is why `OnlyItsBlock` needs `Alone` where `Atomic` needs `Apart` only.
They are met: one client process runs one update at a time, so `Alone` and `Apart`
hold of it, and `Separate` holds of processes that serve different names.

### DnslessProofs

None of the properties is inductive. That a line written now follows the last one
in its channel (`NoGap`) needs to know that the last one was the newest (`TailOK`);
that this is so when a line is written needs every connection on the list to
be there once, and none to have been written to before it was on the list
(`ListOK`, `ConnOK`); that a line that arrives is news to the hosts file
(`OnlyNews`) needs the file never to be ahead of what its connection was sent
(`HostsOK`), which a reconnection keeps because a new connection is empty and
whatever is announced later is newer. That the address in a line is the one
announced (`Truthful`) gives the refinement. `Written(k)` ties it together: how
many announcements connection `k` has been sent, one less while broadcast still
owes it the newest. `IInv` is the conjunction; TLC checks it in `reconnect`.

`LiveKept` needs one thing more: a connection that the kernel has given up, which
is what makes a write fail, is one whose client is gone or that is severed
(`ResetOK`). So a client that is alive, however slow, stays on the list.

The proof has one lemma per action (`DetectChangedInv` ... `LeaveInv`), each with
one step per part the action can disturb, and frame lemmas (`Frame`, `FrameTail`,
`OtherClient`, `PcStep`) for the parts it cannot. `NextInv` gathers them.

### HostsProofs

The atomicity argument is about who has which inode (`Own`). No two paths share
one (`OneInode`); what a process has open is its own temporary file, still empty
while it is to be written; a process about to rename has there all the lines it
was to write (`OwnFile`). With that, only `Rename` and
the user change what the hosts file holds, and `Rename` makes it the version the
process computed: `Commit`. Wholeness is then an invariant of the file and of
every version in some process's hands, because `replace_or_append` of a whole
file is whole: each name's begin and end markers are found at its own block, a
block of another name lies before or after it, and is moved as one piece. The
user's deletions move blocks and break none. From the same invariant
`replace_or_append` is found to be a splice: what is before and what is after the
block is kept, in its order, and a second update finds the new block where it put
it. That other names' lines survive the rename is an invariant of the version in
the process's hands (`Fresh`): but for the lines of its own name and those the
user has deleted since, it is the file. Only another process's rename can break
that, and `Alone` excludes it.

### DesktopProofs, ServerPanelProofs

What a panel shows is said of an empty channel, so the invariants say what the
panel *would* show were the channel drained, and that is a function of the panel
and the events to come that each `Drain` leaves as it is and each send changes
by one event: the last event that says something of the connection, or, in
`ServerPanel`, of the address (`Latest`); the panel's history followed by the
addresses yet to be drained, of which the newest are the same whether capped on
the way or at the end (`Newest`, `Counts`, `Applied`); the log's red line, at a
place counted from the end of log and channel together (`age`). `Lemmas` has
these facts. `ServerPanel`'s type invariant relates the list, the accept thread
and the lost connections, and is not inductive: it needs further that only a
broadcast has connections left to visit, and that a connection whose arrival is
about to be announced is on the list or no longer among the lost (`ConnTypes`).

`ClientsAlwaysListed` is about two threads: the accept thread announces arrivals and
the main thread ends. That a "disconnected" of an earlier connection is never the
last word on a client that is on the list again rests on a connection being in one
place only (`ConnInv`): its end was sent before it could come again, and its
arrival is sent after. The converse is not so, as `ghost_client` shows. A browser
has not heard of the clients that came before it was opened, so `WebAgrees` says
nothing of clients. `WebAlwaysAgrees` holds because addresses come from one thread
only: what that thread has not in its hands has been sent to the page
(`PendingInv`, `Given`), or the page was not connected yet. Of a page with
messages on their way the invariant says which announcement it has come to now
and after each of them (`PageShows`): the address it shows is the one it has come
to, or none; its history ends with that one and has none left out (`Trailing`);
each message brings the next announcement or repeats the one before (`Follows`);
and after the last of them a connected page has come to `Given`. A send adds a
message at the end, reading takes one from the front, and a page that breaks off
loses them all and stays where it was.

`Implements` (twice) counts the events of one type in the channel (`Places`): as
many announcements, or reported writes, are yet to be told. `Tells`, which is
`Follows` with the end of the channel at the end of the log, says which entry of
the log the panel has come to at each place of the channel, so that what the
next event brings is the next entry. `NeverSetBack` (three times) is
`ReplicationProofs`, instantiated with the same refinement mapping.

**Only model-checked:** liveness (`Notified`, `Delivered`, `DeadDropped`,
`Rejoins`, `KeepsPolling`, and those of the panels), since the prover has neither
fairness nor `ENABLED`; what the folds over sequences compute for every input, which
would need induction over data; the composition of several proofs, as of `Atomic`
with `Delivered`. Every invariant, refinement and action property that a passing
run checks is also a theorem.

## Not modelled

- JSON, but for a line that does not parse; the texts of logs; layout; scrolling
  within a section (that sections collapse is modelled).
- The server's log: nothing reads it but the eye, and it multiplies the states of
  `ServerPanel`. Its folding is the client's log's (`DesktopProofs`).
- Configuration files and `main` functions, which have no state: the values are
  constants. (A file that cannot be read means the default configuration and a
  line on stderr.)
- The static HTTP server beyond "a page is served": every request has a thread
  of its own, that reads one path and writes one file, and no state outlives it.
  A request that is answered with an error (403, 404, 500) or dropped serves none.
- Several browsers at once; the reload that brings a frozen page back is
  `ClosePage` and `OpenPage`.
- A panic, as of a failed bind of the server's own port: the server is then down.
- Windows' and the disk's own behaviour (durability of a rename that is not
  preceded by `fsync`, rename over an open file). The comment in
  `client/src/hosts.rs` that it "writes in-place" on Windows has no code to it.
- Additions to the hosts file by its user: deletions have the same effect on the
  order of updates and edits. A client that reuses the address and port of a
  connection the server still holds, and clients for which `peer_addr` fails, who
  are all announced as 0.0.0.0:0, excluded by a named bound (`ClientArrives`).

## Running

    tlc -workers 2 -config reconnect.cfg Dnsless          # likewise the other runs
    tlapm DnslessProofs.tla     # likewise Lemmas and the other modules of proofs
