# mira-daemon in TLA+

mira-daemon (Go, with a Rust sidecar) turns a Car Thing into a Spotify Connect
remote.  It talks to Spotify through a *dealer* websocket, an *access point*
connection and HTTP; to a phone over Bluetooth (network tethering, volume keys);
to a Raspberry Pi over ssh (internet gateway); and to its user interface over a
local HTTP and WebSocket API.  It runs on a small battery-less device in a car:
power is cut at any moment, there is no real-time clock, and the network comes
and goes.  That is where its hard behaviour is, and what these modules are about.

Paths below are relative to the repository root.

## 1. Inventory

Line counts are of the implementation, without tests.

| Component | State | Operations | Hard behaviour |
|---|---|---|---|
| Pi reboot recovery, `daemon/recovery.go` | phase, reboot-issued, window start, flag file on disk | periodic tick, boot check, deletion hook | crash between flag, ssh and memory; wall clock lost at power-off; HTTP goroutine against the tick |
| Pi profiles and keys, `daemon/pi_profiles.go`, `sshkey.go` | profiles in the settings blob, key files | install, delete, select | shared with recovery without a lock |
| Dealer connection, `dealer/dealer.go` | websocket, `connMu`, `done`, last pong, wake-up token | Connect, Close, ForceReconnect, ping ticker, receive loop | loops replacing each other, silent stalls, dial under the write lock |
| Dealer receivers, `dealer/recv.go` | bounded channels | register, deliver (drop or evict), dispatch requests, reply | full channels, timeouts against late replies |
| Connect registration, `daemon/player.go` | connection-id, `registered`, `registerGen`, `clusterCh` | handle id, registerAsync, heartbeat, injectCluster | goroutines of several generations, lost responses |
| Player request loop, `daemon/player.go`, `api_server.go`, `api_voice.go` | request channels, reply channels, readiness | Run's select, handleRequest, Submit, lyrics goroutine | a handler that hangs, askers that leave |
| Playback commands and remote state, `daemon/player.go`, `player_state.go` | remote state, active device, optimistic updates, clock offset | play, pause, seek, transfer, volume, queue | commands against late cluster pushes |
| Music Assistant backend, `daemon/player_ma.go`, `ma/` | backend selection, poll results | switch, poll, commands | switch during a poll or a command |
| Queue resolution, `daemon/queue_resolver.go`, `queue_expand.go` | caches, pending markers, worker queue | resolve, expand, apply | markers that nobody clears, late results |
| Bluetooth PAN manager, `daemon/bluetooth/manager.go`, `mgmt_watcher.go`, `known_devices.go` | connected devices, current network, manual-disconnect marks, flap backoff, retry loops | connect, disconnect, signals from D-Bus, netlink and mgmt socket | three unordered event sources, user against retry loop |
| Bluetooth volume, `daemon/bluetooth/hid_volume.go`, `iap2_volume.go` | wanted and reported volume, sidecar process | reconcile, report, restart | reports of the phone against own changes |
| iAP2 protocol, `iap2/iap2-rs`, `iap2/sidecar` | link window, sessions, file transfers | send, ack, retransmit, close | loss, reordering, sequence wrap-around |
| Application life cycle, `daemon/app.go`, `network_monitor.go`, `clock_watch.go` | session, credentials, retry backoff | start, retry, reset, resume | wake-ups against backoff |
| Access point and Mercury, `ap/`, `mercury/` | connection, pong deadline, pending requests | connect, receive loop, reconnect, request | unbuffered hand-over, reconnect against Close |
| Session, login, spclient, `session/`, `login5/`, `spclient/`, `apresolve/` | tokens, addresses, rotation index | device flow, renewal, retry | expiry against use, rotation |
| Pi session, set-up and tethering, `daemon/pi_session.go`, `setup_pi.go`, `tethering.go` | job state, ssh session | start, poll, cancel | single flight, late outcomes |
| HTTP and WebSocket API, `daemon/api_server.go` | clients and their channels | route, emit, remove | closing a channel others send to |
| Voice, lyrics, library, Home Assistant, state store, diagnostics | caches, login flows, files | fetch, cache, persist | rate limits, atomic replacement of files |
| Protocol buffers, `proto/` | none | none | generated, not modelled |

How they interact.  `App` owns one `Session` (access point, dealer, spclient,
login) and one `AppPlayer`.  `AppPlayer.Run` is a single goroutine selecting over
the access point's packets, the dealer's message and request receivers, the API's
request channel, the cluster channel and timers: all playback state belongs to it.
Everything slow runs on goroutines of its own and comes back through channels or
atomics.  The Bluetooth manager and the network monitor feed the application life
cycle (reconnect now) and recovery (is there internet).  Recovery, set-up and
tethering share the Pi through ssh and the profiles through the settings blob.

What makes each part correct, in a sentence:

* recovery: one reboot per lifetime and per outage, never on a hunch, never for
  ever waiting;
* dealer: a lost connection is noticed and replaced, nothing is closed twice and
  nothing stays open;
* registration: whatever was lost, the device ends up registered with the live
  connection and shows the current cluster;
* request loop: every asker gets one answer, and nobody can block the loop;
* Bluetooth: the phone that should carry the network does, a user who disconnected
  it is respected, a loss is repaired;
* playback: what the UI shows converges to what the cluster says;
* link layers (iAP2, Mercury): each message is delivered once and in order, or the
  link is reported dead.

## 2. Modules

| Module | Models | Proofs |
|---|---|---|
| `PiRecovery` | `daemon/recovery.go`, what recovery needs of profiles and keys | `PiRecovery_proofs` |
| `RecoveryWindow` | no code of its own: `PiRecovery` with the unbroken run of ticks as one more history variable | `PiRecovery_proofs` |
| `ConnectState` | registration and cluster freshness in `daemon/player.go`, `deliverMessage` | `ConnectState_proofs` |
| `MCRecovery` | no code: the two above side by side, for one run | `ConnectState_proofs` |
| `DealerConn` | `dealer/dealer.go`, registration and closing of receivers in `recv.go` | `DealerConn_proofs` |
| `RequestReply` | abstract: what the player promises to an asker | |
| `PlayerRequests` | Run's select as a server with its four kinds of clients; implements `RequestReply` | `PlayerRequests_proofs` |
| `MCDealer` | no code: `DealerConn` and `PlayerRequests` side by side, for one run | |
| `QueueResolver` | `daemon/queue_resolver.go` and its callers in `daemon/player.go` | `Queue_proofs` |
| `QueueExpand` | `daemon/queue_expand.go` and its callers in `daemon/player.go` | `Queue_proofs` |
| `MCQueue` | no code: the two queue components side by side, for one run | `Queue_proofs` |
| `BtRetry` | offline retry loops and paging in `daemon/bluetooth/manager.go` and their callers | `Bluetooth_proofs` |
| `BtPan` | the network over Bluetooth in `manager.go` and `mgmt_watcher.go`: gate, drops, recoveries, marks | `Bluetooth_proofs` |
| `MCBluetooth` | no code: the two Bluetooth components for TLC | `Bluetooth_proofs` |
| `Iap2Volume` | `daemon/bluetooth/iap2_volume.go` with the process of `iap2/sidecar` (`main.rs`, `session.rs`) | `Services_proofs` |
| `EventFanout` | the `/events` WebSockets of `daemon/api_server.go` | `Services_proofs` |
| `StateStore` | `cmd/mira-daemon/file_state_store.go` with the goroutines that change and save the state | `Services_proofs` |
| `RemoteState` | which backend the state shown comes from: `handleCluster` in `daemon/player.go`, the poll and the selection in `player_ma.go` | `Services_proofs` |
| `AccessPoint` | `ap/ap.go`: receive loop, ping of acknowledgements, Close | `Services_proofs` |
| `OAuthToken` | renewal of the Web API token in `session/session.go`, `onOAuthTokenChanged` of `daemon/app.go` | `Services_proofs` |
| `MCServices` | no code: the last six side by side, for one run | `Services_proofs` |
| `SeqFilter` | no code of its own: selecting from a slice, for `QueueExpand` and `BtRetry` | `SeqFilter_proofs` |

Every module starts with the state and the actors it has; comments beginning with
"Mutant:" mark deliberately wrong versions of the definition that follows, used to
see that the properties notice a plausible bug.  `PROJECT.json` maps every
definition to the lines it models.

### PiRecovery

State: the fields of the `PiRecovery` struct under their own names (`state`,
`flagStartedAt`, `flagProfileID`, `rebootIssued`, `noInternetSince`; `tethering` joins
`sawDown`, `rebootFailed` and `tetheringFired`, which decide one thing), the disk, the
position of the loop in its tick (`tick`) and of a profile deletion (`del`), the process
(`life`), and history variables that only properties read.  One more, the unbroken run of ticks
that a comment speaks of, is added by `RecoveryWindow` for the one run that needs it; it
is compared with the code and changes nothing of it (`StreakOnlyRecords`).

A tick is several steps because its probes and ssh take seconds: `tickOnce` picks
the tick and takes the early returns, `idleTick` evaluates the probes, `saveFlag`
writes the flag, `issueReboot` sends the reboot and enters the waiting phase,
`waitTick` evaluates the probes of that phase.  Probe results are free.  `Start` is
`bootCheck`.  `DeletePiProfile` runs beside it in three steps (keys, flag file, memory).
After `Stop` the loop's `select` may find its ticker ready too and take it once more.

The disk is the key files, the flag file as a process sees it (`flag`), and what a power
loss would leave of that file (`stored`).  The code syncs neither the file nor its directory,
so the two differ until the system writes back (`Writeback`).  `Exit` ends the process at
any point and leaves `flag` as it is.  `PowerLoss`, at any point too, leaves `stored`:
the content before the last change, which may be none; or an empty file, if the rename
reached the disk before the data (`Remains`).  `flagLost` remembers that the episode's flag
was lost that way.  `clearFlag` only logs a failed removal; `kept` remembers that, until
the next boot, deletion or write of the flag makes up for it.

Time is the age of a timestamp, counted up to the first age that ends the wait it is
compared with, and the clock it belongs to.  A `time.Time` made in this process carries the
monotonic clock; one that went through the flag file compares on the wall clock, which a
power loss may have reset.  `PatienceOver` is the comparison in those cases.

Atomicity: for other processes `saveFlag` is one step, because the code writes a temporary
file and renames it; the load and removal in `ClearFlagFile` are one step because within a
lifetime no other flag can appear between them.

### DealerConn

State: `done`, `conn`, the state of each websocket, `connMu`'s writer, the position
of every receive loop, the ping ticker, the age of the last pong in ticks, the
wake-up token, the registration progress of each receiver ("late" if it was registered
after `Close`), and the set of closed receiver channels.  `connMu` is a variable because a dial holds it for writing;
read sections are one step each, except the registration of a receiver, which
holds it from its check of `done` to the start of the loop.

A connection is open, stalled or dead: a stalled one (peer gone, no error) blocks
reads and swallows writes, and only the missing pong reveals it.  The websocket
library is external.

### ConnectState

State: the live dealer connection's id (`link`), the bounded message receiver
(`inbox`), Run's position, `spotConnId`, `registered`, `registerGen`, `clusterCh`,
one `registerAsync` goroutine per generation, the heartbeat goroutine, and the
server (its cluster version, and whether it knows this device at its live
connection).  Generations are compared for equality only, so the connection-id
names the generation; an id is used again only when nothing refers to it.

`handleDealerMessage` is split between `registered := false` and the increment of
`registerGen`, `registerAsync` between its look at the generation and its store:
these are the windows in which other goroutines act.  `deliverMessage` is one step
because it has a single producer.

### PlayerRequests and RequestReply

`RequestReply` is the promise: an asked request ends at most once, in success only
if it was executed, and it is executed at most once.  `PlayerRequests` has the real
path: the dealer's bounded queue and one waiting goroutine per request with a
timeout, the unbuffered hand-over of HTTP requests, the goroutine for lyrics, the
voice service that gives up, Run with a request in its hands for an arbitrary time,
and buffered reply channels.  An HTTP request behaves as a voice request that never
gives up, so the run instantiates voice requests only; the proofs cover both.  `dealerDone`
is the closing of the dealer's `done`, all that the requests see of the connection.

### QueueResolver

State: the two queues of the remote state (`next`, `prev`), Run's position in its
passes over them (`run`, with the uris marked so far), a history variable (`lacking`), and the fields of
`queueResolver` under their own names: `cache`, `pending`, `artTried`.  Each running
`resolve` goroutine is a record in `jobs`; `notify` is the one-place channel
`queueResolvedCh`.

Every section under `r.mu` is one step.  `applyCache` holds the lock for a whole
pass over a queue; `applyArtBackfill` takes it once per entry, so its pass is a step
per entry, and jobs come between.  A job fetches the batch, looks up the missing
covers one by one, settles them and evicts, signals, and drops its marks in the
deferred function: five steps.  Name, artist and album go together as `text`,
because the code treats an entry as incomplete if any of them is empty.  What a
push carries, what the batch answers, and which half of an overfull cache is
deleted (Go's map order) are free.

Run's `queueExpandedCh` case puts entries of a track list in the place of `next`
(`QueueExpanded`) and makes none of the passes over them.  A list entry may lack the album
or the cover (`Listed`), and the cache may know them: `lacking` says so, until the next
push or signal.

### QueueExpand

State: what `expandQueue` reads of the remote state (`rs`), the queue that was emitted last
(`shown`), `likedSessionActive`,
`queueExpandCache` in the order of `fetchedAt`, and per context the
`fetchQueueExpand` goroutine (`fetchers`; "idle" means absent from
`queueExpandInFlight`).  `preview` is history.  The two sections of
`expandQueue` under `queueExpandMu` are one step: only Run adds to the fetches in
flight, so what it saw missing in the first section is missing in the second.
Run expands a state in place and emits it only if its queue has another length than before
(`EmitIfResized`); a state is emitted, besides, when metadata arrives (`Reemit`).
`computeQueueExpansion` is modelled in full, on lists of tracks that stand for their
uri and id.  A page request either fails or brings the list it will have brought
when all its pages are there.  The cache is a map by context in the code and a sequence
here, since pruning looks at the age of the entries; that a context has one entry is
proved (`OneListPerContext`).

### BtRetry

State: `offlineRetryStop`, the stop channels closed (a channel names its loop), where
each loop is in an attempt, the goroutine of `tryActiveReconnect` with the phones it
has left, the timeouts answered with a page after a while, the links, and the phones
`barred` by a manual-disconnect mark or a flap backoff.  `SetOfflineRetry` comes at
any time, so a loop can be stopped in the middle of an attempt and a new one start
beside it.  The look at one candidate, the look that follows it and the page are
steps of their own, between which phones come and go.  How marks and backoffs begin
and end is left free here (`Bars`), as are the outcomes of pages and of connecting
the network; the order of the known phones is fixed.

### BtPan

State: the links and networks as the kernel has them (`acl`, `bnep0` with the phone
behind it, `further` for bnep1 and on), the three streams of events that three
goroutines read (`signals` from D-Bus, `removals` from netlink, `reasons` from the
mgmt socket), the goroutines that connect or may (`conns`), and the fields of
`Manager` under their own names.  `further` matters because `ConnectNetwork` looks
at bnep0 only, whichever phone it is about.

The events of one disconnect are unread together and are handled in any order.
`conns` holds everything that ends in `ConnectNetwork`: the wait for NAP after a
Connected signal, the recovery after a drop with its 3 s pause, an attempt of the
retry loop, `PageDevice`, the way back from sleep.  They meet at `networkMu`;
`connectNetworkInternal` is a step per D-Bus call, look at the interface and field
it writes.  A handler of an event is one step: what another goroutine does inside
it might as well come before.

Ages are classes, because the code compares them with constants: `uptime` is "new"
under 45 s, "stable" over 60 s, "settled" between; a mark, a pause, a drop or a note
of a teardown is there until it expires, which may be at any time.  Timing enters in
two places.  A note lasts 5 s, and the removal it is about is read within them
(`NoteExpires`).  `Connect` comes at least half a second after a teardown, and
netlink has delivered by then (`Connects`).  Of the delay of the flap backoff only
"there is one" is kept, of the count of failed authentications that a later one is
enough.

`MCBluetooth` runs either `BtRetry` or `BtPan`: the first leaves open who is barred
and what connecting does, the second when the retry loop makes an attempt and for
whom.  Each allows everything the other can do to it.

### Iap2Volume

State: the supervisor's fields under their own names (`want`, `state`, `retries`; `closer`
is `stopped` and how far `Close` has come; `proc` is `cmd`), its pending timers and the
goroutines about to call `EnsureSession`, the two pipes, and the sidecar: the phone its
main loop connects to, its session, and the pumps of sessions that were dropped before
they were identified.

A call under the mutex is one step.  `TimerFires` is apart from the `EnsureSession` that
follows it, and so is the copy of `want` that the pump takes before its three seconds
(`PumpExits`, `AsksAgain`).  The sidecar works off a command at a time: `connect` reports,
establishes for as long as it takes, and reports again.  When the process dies its
commands are lost and what it printed is still read.  A session ends at its deadline,
when the phone rejects it, or when its link ends; each may happen at any time.

### EventFanout

State: the clients, the channel of each (how many events it holds, whether it is closed),
its `closeOnce`, the positions of its writer and its read loop, of each `Emit` (the
clients it has not come to) and of `Close`.  What runs under the write lock is one step,
which waits until no `Emit` is on its way; a goroutine that waits for it bars later
readers, as `sync.RWMutex` does.

### StateStore

State: the Bluetooth manager's list, `app.state`, its mutex, the goroutines that change a
part of it and save, their temporary files, and the file system: the file under the state's
path, whether a file was synced, and the files that the path may name after a power loss.
`Save` is a step per system call, each of which may fail.  The factory reset's `Wipe` takes
no lock and the daemon runs on, so it can come between any two of them.  Contents are
told apart by how often they were changed.

### RemoteState

State: the two things the settings say about the backend, `maActivePlayerId`,
`remoteState` as its backend and device, `maOwnsRemoteState`, and what Run is in; the history
variable `missed` flips with each poll that is not answered, so that a property can speak of
such steps.  Run
looks at the settings at the start of a cluster or a poll and assigns the state at their
end, after requests that take seconds: these are two steps, and `PutSettings` of an HTTP
goroutine can come between them.  The selection of a player is one step, since the
settings it looks at first do not change what it assigns.

### AccessPoint

State: the connection, the position of `recvLoop`, whether the last acknowledgement is
recent, the position of `pongAckTicker` and of `Close`, and `done`.  The new `recvLoop` that
a reconnect starts takes the place of the old one, which returns: one variable names both.
A login (`dial` to `Reconnected` or `ReconnectFails`) holds `connMu` for writing, so
`closeConn` of the ticker or of `Close` waits for it and then closes what it finds.  A
connection is open, silent (the peer is gone, and reads wait), closed, or half: a login
that fails leaves its connection.

### OAuthToken

State: the refresh token of the session, the one of `app.state`, and of every goroutine with
a request to the Web API how far its renewal is and which token it carries.  Tokens are
numbered as the server grants them; the server may answer without one, and may revoke the
one that was presented.  Nothing excludes two renewals; `oauthMu` is held only to read the
pair, to replace it and to copy it for the state, three steps.

## 3. Runs

| Run | Bounds | Distinct states | Shows |
|---|---|---|---|
| `recovery_connect` | `PiRecovery`: 2 profiles, window 1, patience 1, clock may be lost, files written back within a unit of time; `ConnectState`: 2 ids, buffer 1, 1 cluster change | 538 k | `OncePerLifetime`, `OncePerEpisode`, `QuietWindow`, `FlagCleared`; `NewestIdKept`, `Registers`, `CatchesUp` |
| `pi_recovery_window` | `RecoveryWindow`, patience 2, clock kept | violation | `ContinuousWindow`, see findings |
| `power_cut` | `PiRecovery`, patience 2, clock kept | violation | `NeverTwice`, see findings |
| `dealer` | `DealerConn`: 3 connections, 2 loops, 1 message and 1 request receiver; `PlayerRequests`: 2 dealer, 1 lyrics, 1 voice request, buffer 1 | 240 k | `NoPanic`, `OnlyCurrentAlive`, `Reconnects`, `CloseReleases`; `ServesRequests`, `SettledThoughStuck`, `ApiSettled`, `ReadyNotified` |
| `queue` | 2 uris, push lengths (0,0), (2,0), (1,1), 1 cover, cache 1; 1 playlist, 1 collection, lists of 3 and 1 tracks, pushes with none, one of two or both tracks as preview, queue limit 2, list cache 1 | 385 k | `SingleFetch`, `ArtOnce`, `Lands`, `PreviewHeads`, `ShownButEcho`, `FetchedApplied` |
| `queue_marks` | same | violation | `MarksOwned`, see findings |
| `bluetooth` | `BtRetry`: 2 known phones, 2 retry loops at once; `BtPan`: 1 phone, 1 goroutine that connects, 1 unread event of a source, breaker at 1 | 473 k | `SingleLoop`, `LoopsEnd`, `EveryoneTried`, `OwnTeardownQuiet` |
| `bluetooth_takeover` | `BtPan` with 2 phones and 2 goroutines, arrivals only | violation | `NoTakeover`, see findings |
| `services` | 2 phones, 2 commands in a pipe, 2 calls, 1 death; 2 clients, 2 `Emit`, buffer 1; 2 changers of the list, 1 of another field, 3 changes; 2 Music Assistant players; 1 access point; 2 requests, 3 tokens | 173 k | `KeepsTrying`, `SidecarEnds`, `SessionIsWanted`, `EmitSafe`, `EmitEnds`, `PowerLossSafe`, `SavedIsCurrent`, `SourceSettles`, `ApSettles`, `TokenUsable` |
| `iap2_drop` | `Iap2Volume` as in `services` | violation | `DropStays`, see findings |
| `reboot_list` | `StateStore` as in `services` | violation | `NextRebootHasList`, see findings |
| `oauth_restart` | `OAuthToken` as in `services` | violation | `StoredSurvives`, see findings |

Why the bounds are enough.  Recovery tells profiles apart only as "mine" and
"another", so two suffice.  The window is one unit: a tick at its start and one at its end
are different ages.  Patience is longer than the window in the code.  Nothing compares the
two, since a lifetime that waits decides nothing, and with patience 1 a flag can still be
younger, as old, and older than it; in the two runs of a single component it is 2.  `SlowDisk = FALSE` says
that time does not pass the next unit before a file is written back; every order of the
power loss with the steps of the loop is there nevertheless, because those take no time.
`pi_recovery_window` has slow disks, and the proofs cover them.  The dealer refers to at most three connections at once (the current one,
the one a loop still reads from, the one a ping is being written to) and to two
loops (the old one and its successor).  Two connection-ids give an old and a new
generation in flight together, and a buffer of one makes the receiver full as soon
as anything is in it.  Two dealer requests fill a buffer of one.
Two uris let a push bring a duplicate, two jobs run at once, and a cache of one
overflow; a cover limit of one leaves an entry outside the art pass.  In that run
pushes carry no metadata and the batch answers text only, so covers come from the
lookup that follows it, and the entries of a list bring none either (`MCShipped`, `MCListed`);
the proofs cover the other cases.  The list with a track
twice gives the ambiguity of `Place`, the list of one track the queue that is empty
or, repeated, all echo; a limit of two truncates; a list cache of one makes the
playlist and the collection evict each other.  A preview of two tracks is the shortest
that a list can agree with at its first track and not at its second; the proofs cover any
previews.  Two retry
loops are the one that was stopped and its successor; of two phones the less
preferred one comes up only after the other did not answer.  In `BtPan` one phone
with one goroutine has every order of its own events, drops and forced reconnects;
that goroutines exclude each other and that any number of events may be unread is
covered by the proof of `OwnTeardownQuiet`, and two phones by `bluetooth_takeover`.
Two calls of
the manager ask for a phone and drop it, or let two phones cross, and one death loses what
was in the pipes; a phone has one retry timer at a time and two goroutines about to ask
(`MaxTimers`, `MaxAskers`).  Two clients and two `Emit` meet in every position of a
removal, and a buffer of one is full at once.  Three changes are two of the list that cross
and one that is saved between them.  With two Music Assistant players one can become the
slave of the other while it is polled.  The access point has one session's life, which its
`Close` ends; losses, logins and verdicts of its ping are not bounded.  Two requests renew the token across each
other, and of three tokens two can replace the first at once.  Counters are
bounded by the constants; no state constraint is used.

`recovery_connect`, `dealer`, `services` and the queue runs do not look for deadlock: the
player may be stopped, all requests may have been served, the server closed, or the bound on
calls and changes reached.  That the dealer does not stop for another reason is `Reconnects`
and `CloseReleases`.
`bluetooth_takeover` does not either: with arrivals alone nothing is left to do in the end.

Some runs check several components: `part` chooses which of them moves, fairness is
required of that part, and the others stay in an initial state.  The six of `services`, the two of
`recovery_connect` and the two of `dealer` share no state but the end of the dealer, which
`PlayerRequests` has for itself (`dealerDone`).  The two of `queue` do share a queue,
`NextTracks`, which Run changes for either of them in one event at a time.  Each therefore has in
it what the other may do to that queue: `QueueResolver` an expansion by any list
(`QueueExpanded`, and the queue of a push as `expandQueue` may leave it), `QueueExpand` the emit
that follows a signal (`Reemit`).  They agree on the uris of the queue, of which the resolver
changes none, and the metadata is the resolver's alone.

The model checker reports as violated what the findings of section 6 describe; these are
statements of comments in the source, checked as invariants.

## 4. Fairness

* Goroutines that can go on do: weak fairness per goroutine.  The steps of one goroutine,
  of which one at most is possible at a time, share a condition.
* `sync.RWMutex` starves neither readers nor writers: of the dealer, the receive loop takes
  the lock in the end and a dial succeeds in the end (strong fairness of these two); the
  ticker and `Close` wait for the lock with nothing that could overtake them for ever.
* Run's `select` in `ConnectState` takes injected clusters and the heartbeat tick again and
  again, whatever messages come (strong fairness), since `select` chooses at random among
  the ready cases.
* Jobs of the resolver and list fetches run on (weak fairness); Run takes a waiting signal
  of the jobs even if pushes keep coming (strong fairness of `SignalNext`).  A list that is
  waiting to be applied needs weak fairness only: no push disables it.
* Of the player's requests, Run takes one of the API that waits even if others come (strong
  fairness of `TakeApi`).  That it takes requests of the dealer is not assumed: their
  senders give up.
* A retry loop and the goroutine that pages run on: pages and D-Bus calls have
  timeouts (weak fairness).  A loop whose `select` finds both a tick and its closed
  stop channel takes the channel in the end (strong fairness of `RetryLoopEnds`).
* The iAP2 supervisor's pump, timers and `Close` run, the sidecar reads its commands, a
  connect ends one way or the other, and a handshake ends at its deadline at the latest
  (weak fairness).  Nothing is assumed of phones, of the end of a process's output, and
  of the late reports of sessions that were dropped.
* An `Emit` goes on (weak fairness).  It needs nothing else: no client's goroutines, no
  `Close`, no write that ends.
* Run finishes the cluster or the poll it is in (weak fairness), and its `select` takes the
  timer of the poll even if clusters keep coming (strong fairness of `MaPollTick`).
* The access point's loop, ticker and `Close` run, and a login ends: at the latest when TCP
  gives up the peer.  Acknowledgements age while nobody reads.  Run takes packets until
  it stops, which is when the session is closed; after that a packet may never be taken.
* A list of a context, once fetched, is applied by Run (weak fairness); that a state is
  emitted again is not assumed.
* The system writes a changed file back in the end (weak fairness of `Writeback`).
* In `dealer` the conditions are those of the two components, each for the behaviours in which
  it moves.  A strong condition of the one and a strong condition of the other, which
  concern different behaviours, are stated as one.
* Tickers tick and time passes.  A process told to stop exits, the device starts
  the daemon again after power loss.
* Nothing is assumed of users, NTP, power, peers, and of the time a handler or a
  read takes.  `ApiSettled` states its assumption that handlers end in its formula,
  `FlagCleared` that the clock is right in the end, and it lets a flag stay whose removal
  failed; `Registers` and `CatchesUp`
  assume that failures stop, `SourceSettles` that settings and player stop changing and that
  in the end every poll is answered (`missed` stands still; the polls themselves go on), `ApSettles` that logins no longer fail, `EveryoneTried` that the phone is absent, the user does not keep
  asking for pages and device information does not fail for ever.  That dials do not fail for
  ever, which `Reconnects` needs, is the second strong condition of `DealerConn`.

## 5. Proofs

All theorems hold for every value of the constants under the named assumptions of the
modules (`ConstantsAssumption`, `ConnectAssumption`, `ResolverAssumption`,
`ExpandAssumption`, `RetryAssumption`, `PanAssumption`, `Iap2Assumption` and so on:
disjoint sets, distinct "nothing" values, natural bounds; `FlagAssumption`: the two special
contents of the flag file are no records).  TLC evaluates them in the runs.

Every invariant that a run checks is proved, and so are the action properties and
the refinement.  A liveness property is out of the provers' reach, but most of each is a
safety property underneath: what must happen in the end happens because somebody
is left to do it, and it is this that crossings of goroutines lose.  The theorems that say
so are at the end of each component's list below, marked *left to do*.  With them, what
the model checker adds is that those who are left get to it.

A theorem is about the specification of one component; where a run checks
several side by side, a last theorem carries the invariants over to what the run explores
(`RecoverySafe`, `QueueSafe`, `BluetoothSafe`, `ServicesSafe`; the types are `RecoveryTyped`,
`QueueTyped`, `BluetoothTyped`, `ServicesTyped`).  It is a step of one part and a stutter of
the others.

* `PiRecovery_proofs`: `TypeCorrect`; `OncePerLifetimeHolds` and
  `OncePerEpisodeHolds` from `EpisodeInv`; `QuietWindowHolds` from `WindowInv`.
  The properties are not inductive alone.  `EpisodeInv` adds that a process that is
  down has clean memory (`DownClean`), that a loop that decided a reboot has not
  issued one and acts for a profile without an open episode (`Deciding`), that an
  open episode has its flag on disk unless its profile is deleted (`FlagFirst`),
  that a deletion removes the keys first (`KeysFirst`), and that a lifetime that
  may still reboot has seen no open episode at boot (`BootSaw`); each but in an episode whose
  flag went with the power (`flagLost`).  Of that exception `NeverTwice` is free, and violated.  `WindowInv`
  relates the age of `noInternetSince` to the age of the last good probe.
  `StreakOnlyRecords`: every step of `RecoveryWindow` is one of `PiRecovery` or a stutter.
* `ConnectState_proofs`: `ConnectTyped`; `IdStays` (`NewestIdKept`) from `IdIsLast`.
  `NewestIdKept` says that the player has the id of the live connection or that it is in
  the receiver, and is not inductive: an older id behind it could replace it in the
  player.  `IdIsLast` adds the order.  No id comes after that of the live connection, so
  what the receiver drops or Run reads before it can be an older id, and what it reads
  after it are clusters.  *Left to do* is `NeverUnattended`: while a connection is up, its id
  waits to be read; or Run has just read it; or its generation is the current one, and then it
  is registered, or its goroutine is at it, or the heartbeat is about to force the dealer to
  reconnect.  A heartbeat that failed twice voids whatever registration there is, its
  own or a newer one, which is why the reconnect it goes on to is one of
  those that see to it.
* `DealerConn_proofs`: `DealerTyped`; `OnlyCurrentAliveHolds`, inductive with the
  types; `NoPanicHolds` from `LoopInv`: at most one receive loop is live
  (`SingleLoop`) and receivers are closed only by a loop in its cleanup, after
  which none starts (`ClosedLate`).  *Left to do* are `NeverDeaf`, a loop that serves the
  receivers and does not read from a replaced connection that is alive, and `DialsAlone`: whoever
  holds the lock for writing is the one that dials (`LockInv`), and after `Close` has set
  `done` the lock is only given back.
* `PlayerRequests_proofs`: `TypeCorrect`; `ServesRequestsHolds`, the refinement of
  `RequestReply`, step by step from `PlaceInv`: a request is in one place at a time
  (queue, Run's hands, lyrics goroutine), is executed after it left the last of
  them, and a reply in its channel means it was executed.  *Left to do* are
  `NobodyWaitsInVain`, which has two parts that need each other (a channel has room because
  only the one who holds the request replies, and a caller has a reply coming because
  a reply was never dropped for want of room), and `CallbackIsTaken`.

* `Queue_proofs`, the resolver: `ResolverTyped`; `SingleFetchHolds` and `ArtOnceHolds` from
  `OwnerInv`: a mark in `pending` has one owner, a job that lists the uri or Run
  between marking it and starting the job, and a uri whose cover somebody is about to
  fetch is not settled.  `SingleFetch` alone is not inductive: a mark dropped by a job must
  not be one that Run has just made for the next job.  *Left to do* is
  `FoundIsShown`: whoever adds to the cache what an entry lacks will signal (`JobTells`).  It
  is made inductive by what Run's passes have still to come to: text is filled after the
  covers of a push (`TextComes`), and a cover by the pass whose index has not passed it
  (`CoverComes`).  An entry behind the index is the case that the code needs its
  signal for.  The exception is `lacking`: nobody is told of what the entries of a list lack.
* `Queue_proofs`, the expansion: `ExpandTyped`, with the bound of the cache;
  `PreviewStays` (`PreviewHeads`).  An expansion begins with the queue it was compared with
  (`ExpansionFacts`), which is the one that Run holds, not the preview; so what the
  preview put at the head is there after any number of expansions (`ExpandHeads`).  The
  case that needs the exception in `PreviewHeads` is the echo: what is compared
  leaves out the active track at the head, and a preview that is the echo alone
  constrains nothing.  `OneListPerContext` says that the lookup has one answer.
  `ShownStays` (`ShownButEcho`) says what not to emit a queue of unchanged length costs:
  such a queue has lost an echo of the active track at its head and gained an entry at its
  end (`EchoStep`), and that, once or repeatedly, is all that the screen is behind.
  *Left to do* is `FetchedIsTold`: an expansion that was computed twice from the same
  list gives the same queue (`ExpandedTwice`), so that what Run has applied is not behind,
  and it falls behind only through a list that arrives with a message to Run, or
  through a play command that changes which list counts.

* `Bluetooth_proofs`, the retries: `RetryTypeCorrect`; `SingleLoopHolds`.  `SingleLoop` is
  inductive: whatever an attempt does, its loop goes on running (`AttemptGoesOn`), so only
  start, stop and exit can disturb it.  The types need that a pager that is calling has
  somebody left to call (`PagerInv`).  `StopClosedOnce`: the channel that `SetOfflineRetry` would
  close is that of a loop that runs and was not told to stop, so none is closed twice.
* `Bluetooth_proofs`, the network: `PanTypeCorrect`; `OwnTeardownQuietHolds` from `NoteInv`:
  while a removal waits to be read bnep0 is down and there is no other removal, one of the
  daemon's own has its note, and whoever is about to remove bnep0 has noted it or
  finds nothing to remove.  The last part is what makes it inductive: a loss that
  came before can use up the note, but then bnep0 is down and stays so while
  `networkMu` is held.  `PanSpec` begins before the network monitor has reported and the run
  after its first report; `BluetoothSafe` is about the latter.

* `Services_proofs`, the iAP2 supervisor: `SessionIsOfTheWanted` from `WantedInv` and
  `ProcessInv`.  The supervisor writes a command under the same lock under which it
  changes its mind, so the last command in the pipe, or if there is none what the sidecar
  was told last, is what it wants.  Commands are lost with the process only, and a
  process that does not run has no session.  *Left to do* is `SomebodyTries`, over everything
  that can lead to the next attempt: goroutines about to ask, timers, the states in the
  pipe to the pump, a dead process to reap, and the sidecar in its connect.  Also
  `ClosedForGood`: every way to spawn looks at `stopped` under the lock that `Close` took first.
* The WebSockets: `EmitIsSafe` from `EmitInv` (the clients that an `Emit` has still to
  come to are in the list), `OnceInv` (a channel is closed by the one that is inside its
  `closeOnce`, and by no second) and `RemoveInv` (a client is out of the list before its
  channel is closed).  The lock joins the first and the last: a client is taken out only
  when no `Emit` is on its way.  *Left to do* is `WritersEnd`: who took a client out has closed
  its channel or is about to, so that its writer does not wait for ever.
* The state store: `StoreTyped`; `PowerLossIsSafe` and `NoOlderOverNewer` from four
  conjuncts.  Nothing saved is newer than the state (`BoundInv`); whoever is in `Save` holds
  the lock and the others do not, so nobody changes the state between its encoding and the
  rename (`LockInv`); the file of a saver is the current state (`SaveInv`); and every file that
  the path may name after a power loss is whole, synced, and no older than what was reported
  stored (`DiskInv`).  The last is the reason for `Sync` before `Rename`.
* The tokens: `TokenStaysUsable` from `FreshInv` and `GrantedInv`.  The token that an
  answer brings works and is known to nobody else until the answer is taken, so no
  other request can make the server revoke it; a request can only have the session's own
  token revoked, and then its answer is on the way or was lost.  The run has two requests,
  the theorem any number.
* `RemoteState` and `AccessPoint`: their types (`ServicesTyped`), and *left to do*.
  `OwnerIsKnown`: what the poll looks at before it clears the screen is true of the state
  shown, although it is set in a step and read in another.  `NothingLeftOpen`: `Close`
  can come in the middle of a login, and the connection that the login makes is then
  closed by the loop, whose next step it is.

* `SeqFilter_proofs`: `FilterType` and `FilterPicks`: a selection has elements of the set
  only, leaves none out, and keeps their order.  The induction theorems of the library
  take the hypothesis as an operator, which the installed provers cannot instantiate.  Here
  the hypothesis is a set: a set of numbers that has 0 and with n also n + 1 has all of them
  (`NatInductive`), since otherwise there is a least one it lacks (`NatLeast`, from the
  well-foundedness of the order).  `FilterPicks` is what `OneListPerContext` rests on.

Only model-checked is everything under fairness, which is out of the prover's reach:
`FlagCleared`, `Reconnects`, `CloseReleases`, `Registers`, `CatchesUp`, `SettledThoughStuck`,
`ApiSettled`, `ReadyNotified`, `Lands`, `FetchedApplied`, `LoopsEnd`, `EveryoneTried`,
`KeepsTrying`, `SidecarEnds`, `EmitEnds`, `SourceSettles`, `ApSettles`.  Three of them have no
theorem for their safety part.  Of `CatchesUp` it would be that the cluster channel holds the newest
snapshot when those who fill it have ended, and that is not an invariant: pushes may be
dropped, and it is the next heartbeat that makes up for it.  `FlagCleared` and `EveryoneTried` are
about one goroutine's own progress in time, with nobody else to hand it on.
The violations of section 6 are counterexamples and need no proof.

## 6. Findings

1. The 15 s window without internet is not continuous (`recovery.go:487`): early
   returns of `idleTick` keep `noInternetSince`, so a window begun at one profile's
   Pi can be ended by the first observation at another's.  What does hold is
   `QuietWindow`.
2. `saveFlag` syncs neither the flag file nor its directory (`recovery.go:671`), and the
   power often goes with the reboot that follows.  Then the flag may be absent, empty or an
   older one, and the next lifetime reboots the same Pi again, which the comment at `recovery.go:540`
   rules out.  What does hold is `OncePerEpisode`.  `FileStateStore` syncs both of its own.
3. Run's `queueResolvedCh` case marks what it could not fill as pending and discards
   the list of it (`player.go:2992`): a track missing from one batch answer can keep
   a mark without a fetch and is never asked for again.  `SingleFetch` and `Lands`
   hold nevertheless.
4. The gate that keeps a newly connected phone from taking the network over is looked
   at before the wait for NAP and not after it (`manager.go:374`): of two phones that
   come together, the slower one becomes `lastPanAddress` although the daemon is
   online through the other, whose bnep0 it is.  That BlueZ accepts a second network
   is an assumption about code outside the repository.
5. When the sidecar has died, the supervisor's pump asks after three seconds for the phone
   that was wanted before them (`iap2_volume.go:151`): a `DropSession` in between is undone.
   `SessionIsWanted` and `KeepsTrying` hold nevertheless.
6. The list of known devices is copied under one lock and assigned under another
   (`known_devices.go:101`, `app.go:320`): of two changes that cross, the older can be the
   one that is stored.  `SavedIsCurrent` shows that the order is lost before `Save`, not in it.
7. Two renewals of the Web API token can cross, and the copy of the pair is made under one lock
   and assigned under another (`session.go:327`, `app.go:498`): the state can keep a refresh
   token that was replaced, and a restart before the next renewal begins with it.  The session
   itself keeps a usable token (`TokenUsable`).

## 7. Not modelled, and the plan

Not modelled, because they keep no state that interacts or are data or numbers: generated
protocol buffers, wire encoding and decoding, cryptography (`dh`, `shannon`, signatures),
HTTP routing and JSON, logging and diagnostics, speech recognition and phonetics, parsers of
lyrics, the Bluetooth pairing agent.  The Mercury client is not created anywhere in `src/`.

Modelled in part, and what is missing:

* Bluetooth PAN manager: the order of the known devices, pairing, the route arbiter, and
  properties of the reconnect policy (who keeps a mark; that a drop is recovered while the
  phone is there), which need liveness over a smaller model than `BtPan`.
* Remote state and playback commands: optimistic updates, transfer, volume and the clock
  offset; of the Music Assistant backend its commands, playlists and upcoming queue.
* iAP2: the link layer is one opaque step of `Iap2Volume` that ends either way.  What it
  delivers depends on what the phone retransmits, code that is not in the repository.
* Access point: a first login that fails, which nobody but its caller can see.
* Session: the device authorisation flow, `login5`, the retries of `spclient` requests and
  the rotation of addresses.

Not modelled yet: the application life cycle, the HID volume
reconciler, the Home Assistant login, the caches of the library and of lyrics, and the jobs
on the Pi (set-up and tethering), each of which is guarded by a job's id under one lock.

What is worth proving next: that a forced reconnect in `BtPan` is made up for by whoever holds
`networkMu`, which needs the properties of the reconnect policy named above first; and the
liveness properties themselves, by hand, from the theorems marked *left to do*.

Met while modelling, and checked by no run:

* A queue that an expansion replaced by one of the same length is not emitted
  (`player.go:3014`), although the comment above it says "re-emit so the UI picks it up
  without waiting for the next cluster push".  `ShownButEcho` says what the screen misses.
* The entries that an expansion brings are emitted as the list has them, and what the
  resolver's cache knows of them waits for the next push or signal (`player.go:3006`-`3026`; `lacking`).
* That case changes the state whose pointer an earlier emit may still hold
  (`player.go:3013`).  What a client is sent depends on when it is encoded.
* A login of the access point that fails after `Close` came between the loop's look at `done`
  and its lock leaves its connection open (`ap.go:360`-`369`; "half" in `Released`).
* `maUpcomingTracks` keeps the list of the player that was selected before when the new one
  reports no position or its items cannot be fetched (`player_ma.go:549`, `561`).
* The wake-up of the network monitor is drained before the backoff begins, so a network that
  came up during the failing attempt does not shorten the wait (`app.go:996`).
* A refresh token that the server rotates looks like another account to `onOAuthTokenChanged`
  (`app.go:492`), which then drops the liked-songs playlist; the resolver that it starts
  gives up when an earlier one is still on its way out (`player.go:2474`).
