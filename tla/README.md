# LocalSend-KUAL: specifications, model checking and proofs

LocalSend-KUAL turns a Kindle into a LocalSend v2.2 receiver. A Go binary
(`cmd/localsend-kindle`, package `internal/app`) runs as a daemon that receives
files over HTTP into `/mnt/us/documents`; a shell script
(`extension/localsend/bin/kual.sh`) starts and stops it from the KUAL menu; the
same binary installs ZIP updates that were received. This directory holds TLA+
models of the parts of that system whose correctness depends on the order in
which things happen, the TLC runs that check them on small instances, and
TLAPS proofs of the properties that matter most.

Line references are to files of the repository; `internal/app/` is left out.

## 1. Inventory

| Component | State | Operations | Interacts with | What makes it correct |
|---|---|---|---|---|
| Upload session (`server.go`) | `Server.session` under `Server.mu`; the receive directory, under no lock | `handlePrepareUpload`, `handleUpload`, `handleCancel`, expiry | state store, disk, framing, sender of the peer | a file with its final name is whole; it is never overwritten; a retry changes nothing; a session belongs to one sender; nobody is kept out for good |
| Receive directory (`util.go`, `storage.go`) | files and `*.localsend-part` | `uniquePath`, open, copy, rename, `CleanupStalePartials` | upload handlers, daemon start | temporary files are owned or swept |
| Daemon singleton (`daemonlock.go`, `main.go` `serve`, `Server.Run`) | `state/daemon.lock`, `state/daemon.pid` | `AcquireDaemonLock`, release, `MarkStopped`, signals, fatal exit | `kual.sh` | one daemon; leftovers keep nobody out; the stop command can find it |
| KUAL script (`kual.sh`) | `launch.pid`, the files above; the shell's variables | start with its readiness loop, stop, refresh, install, dialogs, ZIP menus | daemon, firewall, CLI | what a command reports is so; no daemon is lost sight of; every command ends |
| ZIP installer, transaction (`installer.go`) | destination tree, `.localsend-install-backup/<tx>`, free space | preflight, back up, write, rename, roll back, clean up | everything else that writes to `/mnt/us` | complete, or undone, or recoverable |
| ZIP installer, selection (`installer.go`) | `state/pending-install.json`, `state/install.lock` | list, select, confirm, cancel, lock | upload session (a received ZIP), transaction | what is confirmed is what was selected |
| State store (`state.go`) | peers, `RuntimeStatus`, their JSON files | `SavePeer`, `Event`, `SetStatus`, `MarkStopped` | all handlers; the menu and the sender read the files | the file says who is where; never more than `MaxPeers` devices |
| Discovery (`discovery.go`) | the multicast loop; `Server.announce`, a channel of one place | announce, read, call `/register` of the device read | state store, signals, other devices | a refresh is followed by an announcement; an old endpoint does not stay |
| Sender (`client.go`, `main.go` `send`) | none on disk | prepare, upload each file, report | the receiver of the other device | what is reported as sent is there; a run that failed blocks nobody for good |
| Framing (`upload_compat.go`) | a connection's byte stream, `once`, the bytes read ahead | reading a header, judging the first bytes of a body, rewriting the framing, handing on | client, net/http, upload session | nothing is lost between socket and net/http; the cut of the stream into reads does not change how a body is read; nobody waits for ever |
| Firewall (`firewall.go`) | an iptables chain and the rule that jumps to it; `FirewallLease.active` | open, close, cleanup | daemon, sender, `kual.sh` | rules neither pile up nor go under a daemon that serves |
| Rotating log (`logwriter.go`) | log file, size | write, rotate | all | bounded size |
| Identity, configuration, menu, self test, status (`identity.go`, `config.go`, `menu.go`, `selftest.go`, `status.go`) | files read or written once | generate, load, print | command line | sequential |

What is hard here:

* **Interleaving.** Handlers run concurrently and share the receive directory;
  `handleUpload` looks for a free name, opens the temporary file and renames it
  in separate system calls outside the lock, and reads the session's metadata
  long before it uses it.
* **Files as locks.** `O_EXCL` orders two creations, nothing orders creation,
  write, read and removal.
* **Crashes.** The daemon and the installer can be killed anywhere; both leave
  files that the next run has to understand.
* **Retries and timeouts.** A lost answer makes a sender repeat `prepare-upload`
  or `upload`; a vanished one must not block the receiver for ever.
* **Stale reads.** Packets, calls and requests outlive the endpoint they tell of;
  a menu entry acts on a ZIP that was looked at in an earlier one; the menu reads
  a file of peers that the daemon writes only now and then.
* **Commands of other programs.** Each call of `iptables` or `kill` can fail, or
  have its effect late, and most results are not looked at.
* **Space.** The installer checks free space once, for a transaction that uses
  it on the way forward and on the way back.

Every such place is listed, at its line, under `hazards` in `PROJECT.json`.

## 2. Modules

| Module | Models | Lines |
|---|---|---|
| `UploadSession` | the upload session, its handlers, the receive directory, the daemon's life | `server.go` 90-190, 287-531, `util.go` 104-118, `storage.go` 21-49 |
| `MCUploadSession` | small instances of it, the view and the symmetry | |
| `UploadSessionProofs` | its theorems | |
| `DaemonLock` | the singleton: `AcquireDaemonLock`, `serve`, the pid file, `kual.sh stop` | `daemonlock.go`, `main.go` 66-130, `state.go` 131-140, `kual.sh` 21-67, 179-205 |
| `MCDaemonLock`, `DaemonLockProofs` | instances; theorems | |
| `InstallPromise` | abstract specification: what the installer promises of a tree of files | |
| `ZipInstall` | `preflightInstallZIP` (sizes), `InstallZIPToRoot`, `rollbackInstall` | `installer.go` 209-369 |
| `MCZipInstall`, `ZipInstallProofs` | instances; theorems, with the refinement of `InstallPromise` | |
| `KualControl`, `MCKualControl`, `KualControlProofs` | the menu commands, the daemon's life and the firewall rules together; instances; theorems | `kual.sh` 21-238, 555-606, 665-710, `firewall.go` 13-117, `server.go` 90-190, `selftest.go` 22-92, `main.go` 66-130 |
| `PeerStore` | the table of known devices and its file | `state.go` 13-85 |
| `Discovery`, `MCDiscovery`, `DiscoveryProofs` | the multicast loop, the calls and requests that feed `PeerStore`, devices that move; instance; theorems, also those about `PeerStore` | `discovery.go` 16-111, `server.go` 193-198, 264-284 |
| `SendFiles`, `MCSendFiles`, `SendFilesProofs` | the sender; EXTENDS `UploadSession`, the receiver it talks to; instance; theorems | `client.go` 73-150, `main.go` 132-165 |
| `InstallSelect`, `MCInstallSelect`, `InstallSelectProofs` | select, confirm, cancel and the lock of `install-zip`; instance; theorems | `installer.go` 26-164, 209-211, 371-377, `main.go` 223-291 |
| `Framing`, `MCFraming`, `FramingProofs` | the connection wrapper that normalizes streamed uploads; instances; theorems | `upload_compat.go` 26-335 |

### UploadSession

`session` is `Server.session`: its id, its sender, the declared files, for each
the path it was saved at (`Received` with `SavedAs`), `Cancelled`, and `expired`
for `time.Since(CreatedAt) >= 30m`. The critical section of
`handlePrepareUpload` is one action, `PrepareAccept` or `PrepareReplay`
according to `Blocking` (354-362) and `Replays` (366); its answer arrives or is
lost. `handleUpload` is a sequence of actions of one handler `h`, cut at every
lock operation and every system call another handler can observe:

    UploadAdmit   the first critical section               428-451
    UploadName    pathWithin, MkdirAll, uniquePath         453-462
    UploadOpen    O_CREATE|O_TRUNC of the temporary file   463-468
    UploadCopy    one block of io.CopyN                    470-476
    UploadReject  every error path after that              478-503
    UploadLand    rename                                   499
    UploadCommit  the second critical section, the event   505-515

`UploadFail` is the error paths before the temporary file exists. `Cancel`,
`Expire`, `Stop` (kill, power loss, or a shutdown whose three seconds are over)
and `Start` (with the sweep) complete the next-state relation.

The directory is modelled by inodes: `disk[p]` and `parts[p]` map the final and
the temporary name of a path to an inode, `content[i]` is its blocks, and a
block remembers which upload wrote it and whether it is undamaged. This is what
lets two handlers write one file: `OpenFile` on a temporary name that exists
truncates and shares the inode, and `Rename` moves whatever has the name.

Abstracted: a `FileId` is a whole `FileInfo`; a `Sender` is an IP with its
fingerprint; tokens are session ids told to a sender (`offers`); PIN,
`AutoAccept`, JSON errors and the other refusals that change nothing are not
actions; `LastSeen`, event texts and byte counts are left out; the peer table is
the set of senders seen. `os.Remove` and the sweep do not fail. A declared name
that is itself of the form `x (1)`, or ends in `.localsend-part`, is not
modelled. The user does not delete files while the daemon runs, so
`uniquePath`'s `Stat` calls are one look.

Two history variables carry the exceptions the properties need: `contested`,
the paths an upload chose while another one aimed at them, and `overlapped`, the
files that had two uploads at once. They are written in the actions that know
and read by no guard.

### DaemonLock

A `Proc` is one run of `serve`. Its program counter follows
`AcquireDaemonLock`: read the pid file, create the lock file (`O_EXCL`), write
the pid, or read the other's pid, judge it stale and remove it, twice at most;
then the sweep, the pid file (truncated, then written), serving, and the ways
out: `MarkStopped` and the release, or a fatal error that skips the release, or a
crash. A file is the process that created it and the pid in it, empty between
creation and write. A pid belongs to one live process at a time and can be given
out again. `kual.sh start` may leave the pid in a third file, `launch`, until the
daemon answers (`StartEnds`). `kual.sh stop` finds the daemon by the three files
(`DaemonPid`), sends SIGTERM, then SIGKILL, and removes them once the process is
gone.

`Racing = TRUE` has starts that overlap one another, and no stop command;
`Racing = FALSE` has one command at a time, start or stop. `kual.sh start` shows its result only
when the daemon answers, so `Racing = FALSE` is a user who waits for the result
of one entry before choosing the next. KUAL itself runs its entries in the
background (the comment at `kual.sh`:432), so overlapping is possible:
two starts at once are what `daemon.lock` was added for. (A stop that overlaps a
start is in section 3, with `KualControl`.) `Reuse` says
whether the pid in a leftover file may be given out again.

Left out: the readiness loop of `start` (it is in `KualControl`), older daemons
without a lock file, and processes whose command line contains `localsend-kindle`
but that are not `serve` (`processLooksLikeLocalSend` takes them for a daemon as well).

### KualControl

`DaemonLock` looks closely at two files and keeps everything around them small;
`KualControl` does the opposite. It composes three parts that share the pid
files and the firewall:

* *A command* `c` is a shell process: `sh[c].at` is its place in `start_daemon`
  (`StartCheck`, `Launch`, `Record`, `Poll`, `SelfTest`, `Ready`,
  `PollTimesOut`, `LastCheck`, `Failed`), `stop_daemon` with
  `terminate_pid_strict` (`Find`, `Term`, `Wait`, `WaitKill`, `Remove`,
  `Clean`, `CleanFails`), `refresh_devices` (`Refresh`, `RefreshFind`,
  `RefreshSignal`) or `install_confirm` (`Install`, `InstallEnds`). The
  functions call each other as in the script (a start that fails stops, an
  installation stops and starts again), so the record also holds the shell
  variables that decide where a function returns to. `said[c]` is what the
  command last showed.
* *A daemon* `d` goes from the fork through `exec`, the singleton, the signal
  handlers, `OpenFirewall`, listening and serving to the deferred calls of
  `Server.Run`. Before `signal.Notify` a signal kills it; afterwards SIGTERM is
  a request (`term`). `stuck` is a process that got SIGKILL and is not gone yet.
* *The rules*: `jumps` in `INPUT`, the `chain`, its `rules`. A call of
  `iptables` is one action; it fails when what it is about is not there or in
  use (`Delete`, `Flush`, `Drop`, `Create`, `Allow`, `Insert` have that as their
  guard), or for a reason of its own (`Flake`, counted by `failures`).

Abstracted: `AcquireDaemonLock` is one step, and pids are not given out again
(both are in `DaemonLock`); the self test is one look; a forked child reaches
`exec` before the ten seconds of the readiness loop are over; the limit of eight
deletions in `cleanupFirewallWith` is not reached, since there is at most one
rule (`RulesBounded`). `send` opens no lease.

### ZipInstall and InstallPromise

`ZipInstall` starts with an arbitrary archive, tree and amount of free space.
`Scan` adds up the sizes (220-250) and `Check` is 335-341 with its wrapped sum;
the loop is `MakeDirEntry`, `BeginFile` (with `ensureDirs`), `Backup`
(`copyExact`), `Write` and `Rename` (`writeEntryAtomic`), `FilesDone`; `Fail` and
`RenameFails` lead to the rollback, which takes the applied files from the last
to the first (`UndoCreated`, `UndoCopy`, `UndoRename`, `UndoFails`,
`UndoRenameFails`), then the created directories, then the backups. `Others` is
the rest of the system writing to the same file system, up to the 32 MiB the
check keeps in reserve; `Crash` is a kill or a power loss anywhere.

A file is `"old"` or `"new"`, because each replacement is one rename. Space is
counted in units of file data; directories and metadata take none. Names and
the path rules are out: the entries are those that passed them. Removing a
temporary file does not fail. Removing a directory may: the code drops the error
(324), so the rollback is reported as complete with the directory still there;
`stuck` notes which ones, for `RollbackExact` to except them and those they are in.

`InstallPromise` states the transaction alone: replace only what was saved,
forget a saved copy only when the tree is all new or all old, report the outcome
the tree shows. `ZipInstall` implements it under the mapping `present` = the
files that existed, `saved` = `backup`, `outcome` = the terminal state.

### Framing

One connection. The client sends a script of requests, one at a time; a header is
one item of the stream and a body is a sequence of bytes, of which only the class
matters to `classifyCompatBody`: hexadecimal digit, semicolon, carriage return,
line feed, other. A read on either side takes any number of the items that have
arrived. `phase` is the place in `uploadCompatConn.init`: reading the header
(`ReadHeader`), reading more for a verdict (`ReadMore`, ended by `Deadline`),
done, or failed. Then `Read` hands on what is in `buf` before it reads the
socket again (`ReadBuffered`, `ReadThrough`). `seen[k]` is the framing net/http
finds in the header of request `k`, which rewriting changes for the first one
only. `ClassifyCompatBody` is an operator of the body read so far, with the
limits 64 and 16 as `Limit` and `MaxDigits`. `late` notes that `Deadline` ended the
reading, and nothing else; `EndsAtLimit` is a body whose first `Limit` bytes are a
size so far and end in a carriage return, the one case in which the cut into reads
decides although nothing was late (section 3).

Abstracted: header texts are the framing they state, `known` stands for the
checks of `streamUploadCompatCandidate` against the session (188-200), which is
looked up once; leading zeros of a chunk size are not told from other digits; a
header over 64 KiB is a read that fails. A body that is shorter than its
declared size is `UploadReject` in `UploadSession`.

### PeerStore and Discovery

`table` is `StateStore.peers` and `disk` is `peers.json`. `LastSeen` appears as
a rank: an entry's `age` is the number of devices seen after it, which is all
that the eviction of the oldest looks at. `SavePeer` is one action, at the
moment its caller has the lock of the store: it replaces the
entry, evicts, and writes if `Material` (what `peerMateriallyEqual` and the
eviction decide) or `due` (five minutes). The time is taken before the lock
(`state.go` 61), so the entry may come in at any rank: others, or a later
sighting of the same device, may have overtaken it, and in a full table it may
itself be the one evicted. A clock that was set back has the same effect. A write replaces the file or fails,
and the code notes the time either way (`Persist`). `Load` is `NewStateStore`.

`Discovery` adds what calls it. `loop` is the place in the loop of
`discovery.go`: a read (`Read`, `ReadTimeout`, `ReadFails`), then one look at
the ticker and the channel (`SelectTick`, `SelectAnnounce`, `SelectDefault`).
`asked` is the token in `Server.announce`. A packet, a call to `/register` and
the handler of a request each carry the device and the endpoint they were
made with, while `where`, the endpoint every device has now, changes under them
(`Move`). An answer to a call is saved under the address that was called
(`CallAnswered`), whoever gave it: over HTTPS the certificate has to match, over
http nothing does.

An announcement (`SelectTick`, `SelectAnnounce`) is the attempt to send: a
`WriteToUDP` that fails is only logged (`discovery.go` 32-35), and any packet may
be lost.

Abstracted: five minutes pass only forwards; `MaxPeers` is not changed between
two runs; the daemon's own address and fingerprint, and its own packets, which
the code drops, are out; two packets or saves on their way that say the same are
one. Alias, port and model are part of the endpoint as far as a change of them
is a change. `ReadFails` ends the loop and with it the reading of packets,
while requests go on.

### SendFiles

One sender `Me` runs `send` up to `MaxRuns` times against a receiver that is the
whole of `UploadSession`, with the other senders it has. `pc` is the place in
`SendFiles`; `conn` is the handler that works on its request, so that the answer
(`Acknowledged`, `Rejected`) is the step in which the handler ends. Every error
and every lost answer is `Fails`: `main.go` ends the process, nothing is retried
and nothing cancelled at the receiver, whose session stays. Each run draws
new ids for its files (`Drawn`), so a later run is not a replay of an earlier
one. The files are uploaded in any order (a Go map).

Abstracted: TLS, PIN and file types; a body is not damaged on its way
(`UploadSession` has that); a receiver that accepts some of the files only, which
this receiver never does, although `SendFiles` would not notice.

### InstallSelect

A process `p` is one run of `install-zip --select`, `--confirm` or `--cancel`;
`p` is also its pid. `job[p].pc` follows `SelectInstallZIP`, `PendingInstallZIP`,
`AcquireInstallLock` (create, write the pid, or read, judge stale, remove, twice
at most) and `ConfirmInstallZIP` up to the release. A `Version` is the bytes of
a ZIP; `StampOf` is its size and time, the same for some. `Change` replaces or
deletes a ZIP at any moment, `Crash` kills one process, or all. Three removals
whose error the code drops may fail: of a stale lock (`LockRemove`, 161), of a
selection that was installed (`ConsumeFails`, 375: success is reported and the
selection stays) and of the process's own lock (`ReleaseFails`, 156). Kills and
such failures together are at most `MaxFaults`. `FileFails` and `LockWriteFails`
are the errors that are reported.

Abstracted: `InstallZIPToRoot` is one step that works on the version opened or
fails (`ZipInstall` has its inside); the token of a candidate is its name and
stamp; reading and removing a small file is one step, `Release` too; of the two
calls that undo a lock whose write failed, the removal does not fail as well; two
selections made at once, which would share the name of `atomicWriteJSON`'s
temporary file (`util.go` 32), write one after the other.
A process that was killed, or could not remove its lock (`left`), may have its
pid taken by another program, which `RefusedRightly` excepts.

## 3. Runs

| Run | Configuration | Shows |
|---|---|---|
| `upload_disk` | one sender, two files of the same name (one with a checksum), two handlers, two blocks each, `MaxCopies = 0` | `TypeOK`, `PartialsOwned`, `StoredIntact`, `StoredOnce`, `LandedNeverReplaced` |
| `send` | the sender with two runs (two files, then one), another sender with two sessions, one handler, fairness | `SentIsStored`, `ReceivedStored`, `TokensPrivate`, `ActiveNotDisplaced`, `OthersServed` |
| `upload_race` | as `upload_disk`, checksums on both files | violates `AtomicLanding` |
| `lock_serial` | four processes, three pids with reuse, one command at a time | `Singleton`, `Findable`, `HolderKeepsLock`, `RefusedByOwnPid` |
| `lock_race` | two processes, two starts that overlap, no stop | violates `Singleton` |
| `install_select` | two processes, three versions of one ZIP (two of the same stamp), two selections, two changes, one fault (a kill or a removal that fails) | `InstalledAsSelected`, `OneInstaller`, `InstalledOnce`, `RefusedRightly` |
| `install_steps` | three entries of size 0, 1 or 3, three nested directories, up to 8 units free, any call may fail | `TypeOK`, `Recoverable`, `RollbackExact`, `InstallFits`, `GrowingRollbackFits`, `KeepsPromise` |
| `install_space` | two entries, no I/O errors | violates `RollbackCompletes` |
| `framing` | every body of at most 4 bytes; declared, expecting and unknown requests; a second request; fairness | `NothingLost`, `SplitIndependent`, `FirstUnderstood`, `HeaderReachesHTTP` |
| `kual_serial` | two daemons, one command at a time, one `iptables` failure, fairness | `RulesBounded`, `LeaseHolds`, `NoOrphan`, `StopTruthful`, `InstallAlone`, `RefreshHarmless`, `CommandsEnd` |
| `kual_stop` | one daemon, one `iptables` failure | violates `StopConfirmed` |
| `discovery` | two devices over http, one place in the table, three addresses, two moves, one failed write, one crash, fairness | `DiskKnows`, `PeersBounded`, `RequestAnnounced`, `EndpointConverges`, `SightingsPersisted` |

Two type invariants are checked in runs (`upload_disk`, `install_steps`), and
those of all modules are proved.

**Bounds, and why they are enough.**

* *Two handlers and two blocks* are the least that lets one handler truncate or
  rename a file another is half way through. Two files of one name and
  `MaxCopies = 0` or `1` make every upload compete for a path, and reach the
  unchecked last name of `uniquePath` (9999 copies in the code).
* *Three inodes* are one more than the handlers can write at once; an inode no
  name and no handler refers to is used again.
* *Two sessions per sender* let an upload outlive its session and meet one of
  another sender, then one of its own. `send` has one handler: a second one adds
  interleavings on the disk, which `upload_disk` covers. Two runs are one that
  fails half way and one that meets what it left; the other sender offers one
  file that the second run of the first declares in the same way, and one of its
  own, all of the same name. With one handler no path is ever contested there.
* *Four processes* for the lock are two that die leaving files, one that meets
  them and one that meets its leftovers; three pids force reuse.
* *Sizes 0, 1, 3 with `MaxInt = 8`, `Reserve = 1`* reach an empty file, a file
  smaller and larger than the one it replaces, a sum that is refused and a sum
  that wraps. One unit stands for the reserve, and the bound of free space is
  `MaxInt` itself.
* *Two daemons* in `kual_serial` are one whose leftovers (rules, files, a
  process that will not die) the next one meets; with *one failure* of
  `iptables` each call of each sequence fails in some behaviour. Leftovers of
  two dead processes, and pids that come back, are in `lock_serial`.
* *Two processes and two selections* in `install_select` let each of them meet
  the other in any place, and be killed or fail to remove a file there
  (`MaxFaults = 1`: each of the removals fails in some behaviour); a process is
  used again for later commands. Two changes replace a ZIP by one of the same stamp, and back.
* *Two devices and one place* in `discovery` make every sighting of the other
  device an eviction, of the other or, if it was overtaken, of itself; the third
  address lets a device leave its own to the other, so that a late answer comes
  from somebody else. More than two devices are beyond a run with fairness: the
  proofs of `PeersBounded` and `DiskKnows` hold for every `MaxPeers`. Two messages on their way are an old one and
  the newer one it must not outlive.
* *Bodies of 4 bytes with `Limit = 3` and `MaxDigits = 1`* go past the limit, end
  in a carriage return at the limit and before it, and have a size that is too
  long; over five classes of bytes they are all bodies the classification can
  tell apart at this limit.

`UploadDisk.cfg` uses a `VIEW` that leaves out the blocks of inodes nobody refers to,
damage to a block of a file without a checksum, and the peer set: no guard and no property reads them.
The symmetry sets permute handlers, inodes, senders, processes and pids, and in
`install_select` the two versions of the same stamp, which
no definition tells apart; the runs with a temporal property under fairness use neither view nor symmetry.
`InstallSteps.cfg` and `InstallSpace.cfg` turn the deadlock check off because an
installation ends, `Framing.cfg` because a client stops, and `LockRace.cfg`
because each process of it lives once and nothing stops it.

**Fairness.** `SendFairSpec` of `SendFiles` (run `send`) lets the clock run
(`WF(Expire)`), has a stopped daemon started again (`WF(Start)`), and has another
sender that keeps asking succeed in being heard infinitely often when it could
(`SF(OtherServed(s))`: some of its retries fall into a moment when the session is
free, and not all answers are lost). Handlers and the sender modelled get no
fairness at all: the server sets no deadline for a body (`server.go` 136-141), so
an upload may stall for ever, and the property must hold in spite of it.
`Fairness` of `Discovery` (run `discovery`) gives the loop, its calls and the
handlers the processor and lets time pass (weakly); a device that stays announces
itself again and again, and again and again such a packet is read
(`SF` of `DeviceAnnounces` and `Read` of that device: UDP loses some, not all). A
device that does not stay gets nothing, nor does the start after a crash: the
liveness properties except a loop that has ended. `FairSpec` of `Framing` (run `framing`) has
the connection's goroutine read a header that has arrived and net/http read what
is in `buf`, and lets the read deadline of 1.2 seconds pass; the client gets no
fairness, since `HeaderReachesHTTP` is about clients that stop. `FairSpec` of
`KualControl` (run `kual_serial`) lets the shell run (`WF(ShellStep(c))`), a
forked child reach `exec`, and the readiness loop come to its end by its counter
(`SF(PollTimesOut(c))`: the loop leaves the polling state for each self test, so
the end is enabled again and again). The daemon gets none, since `CommandsEnd`
is about daemons that hang.

**Divergences found.** Four documented promises do not hold as stated; each is a
run expected to fail, and a finding in `PROJECT.json`.

1. *Atomic landing* (README.md:18; run `upload_race`). Two concurrent uploads of
   one name share the temporary file. `StoredIntact` states what does hold: every
   path that no two uploads aimed at together.
2. *Two starts racing* (`daemonlock.go`:30; `lock_race`). The lock file is empty
   between its creation and its write, and an empty lock file counts as stale: the
   second start removes it and makes its own. The run has no stop command, so it
   is this race alone that it shows.
3. *Rollback* (README.md:167; `install_space`). The space check does not cover
   the way back when the update shrinks files. `GrowingRollbackFits` states when
   it does.
4. *Confirmed stop* (README.md:94; `kual_stop`). `CleanupFirewall` ignores what
   `iptables` answers, so a stop whose cleanup failed reports success.
   `StopTruthful` states what does hold: the report is right if no call failed.

Noted without a run:

* A daemon that is given the very pid a crashed one left in `daemon.lock` refuses
  to start (README.md:19 says leftovers keep nobody out); `RefusedByOwnPid` states
  what does hold: a start is refused only if another process is alive, or for this
  reason. With `install.lock` any live process with the pid is enough
  (`installer.go`:160). Its third case says that the loop of two turns is long enough:
  nobody removes a second stale lock and gives up after all.
* A body is read differently as the network cuts it in one case with no
  deadline involved: what `classifyCompatBody` looks at is 64 bytes of a size, of
  which the last is a carriage return. If exactly these have arrived, the verdict is
  `"unknown"` (`upload_compat.go`:306), the loop that would read on is not
  entered (110), and line 131 takes the body for chunks, although the comment there
  speaks of a prefix that "arrived too slowly". With one byte more in the same read
  the file is raw. `SplitIndependent` and `FirstUnderstood` except this case
  (`EndsAtLimit`) and no other; without the exception TLC finds the first violated with `Limit
  = 3` by the body hex, hex, CR, other, of which the first read brings three bytes.
* A selection that was installed and cannot be removed from its file (`installer.go`:375 drops
  the error) is installed again by the next confirmation, after a report of success.
  A directory that a rollback cannot remove stays, and the rollback is reported as
  complete (324). `InstalledOnce` and `RollbackExact` except these.
* The dialogs of `kual.sh` (498, 594, 704) say that the installer writes directly,
  with no backup and no rollback. The code does what the repository's README.md:159-170
  says instead, and so do the modules.
* `install.lock` is created and filled in two steps, as `daemon.lock` is, and read
  as stale in between: two confirmations that acquire it at once both install.
  `OneInstaller` excepts that by `crossed`.
* Two confirmations at once both verify the selection before either has the lock,
  so the second installs again what the first has consumed (`InstalledOnce`
  excepts it); a selection made during an installation is removed at its end.
* Between the hash of the confirmation and the opening of the archive
  (`installer.go`:138-142, 210) the ZIP can be replaced; `InstalledAsSelected` excepts it by
  `swapped`.
* A discovery loop that ended on an error leaves later refresh requests
  unanswered until the daemon is restarted.
* A chunk size with an extension counts as file bytes, since
  it is judged before its line is cut (`upload_compat.go`:326, 313); only the first
  request of a connection is normalized (46).
* `kual.sh` calls options of the binary
  (`--last`, `--count`, `--delete-after-success`) that `main.go` of this repository
  does not have, so the prebuilt binary is not the one of this source.

**Limits of what the runs show.** `kual_serial` has one command at a time. With
two shells TLC finds `RulesBounded`, `LeaseHolds`, `NoOrphan`, `StopTruthful`,
`InstallAlone` and `RefreshHarmless` violated, all by the same race: a stop that
begins while a start has not yet got as far as a pid file sees no daemon, then
removes the files, the chain or the jump of the one that came up in the meantime.
The script has nothing against it, and no document promises otherwise. The
rest of the daemon's work (uploads) is not composed with `KualControl`: a stop is
`Stop` of `UploadSession`, at any point; nor is discovery composed with the
uploads, which it meets in the peer table alone. After 9999 copies of a name `uniquePath`
answers a last name it does not check (`util.go`:117), and the next upload
replaces the file there; the properties of the directory except that path.

## 4. Proofs

All theorems hold for every value of the constants that meets the assumption of
the module (`ConstantsAssumption`, `SenderAssumption`, `DaemonAssumption`,
`ControlAssumption`, `InstallAssumption`, `StoreAssumption`,
`DiscoveryAssumption`, `FramingAssumption`, `DeclaredAssumption`,
`NestingAssumption`). They give the
constants their types and keep `None` apart from the values it stands beside.
Three say more of the world: what is above a directory is above what is in it
(`NestingAssumption`), each run of the sender draws new, at least one,
file ids (`SenderAssumption`: `client.go` 76-95), and a sender that declares a framing writes the body so
(`DeclaredAssumption`: HTTP). Only `FirstIsUnderstood` uses the last one.

Two hypotheses are stated in the theorems that need them, since TLC finds
properties violated without (run `lock_race`, and two shells in section 3): `~Racing` in `DaemonLockProofs`, and `OneCommand`
(no two shells) in `KualControlProofs`. Both say that the user waits for the
result of one menu entry before choosing the next.

| Theorem | Property | Argument |
|---|---|---|
| `UploadSessionProofs!TypeCorrect` | `TypeOK` | inductive with the places a handler can be in |
| `PartialsAreOwned` | `PartialsOwned` | a temporary name is made by the handler that copies to it and goes on each of its exits; when two share it, the first to leave takes it along |
| `FilesAreIntact`, `FilesAreKept` | `StoredIntact`, `LandedNeverReplaced` | an inode has at most one name; on an uncontested path the handler that aims at it is the only writer of its inode, and its blocks up to its offset are its own |
| `ReceivedIsStored` | `ReceivedStored` | a handler past the rename has its file on disk; the second critical section marks it only in the session it belongs to; session ids are not used again |
| `DaemonLockProofs!AtMostOneDaemon` | `Singleton`, if `~Racing` | the holder created the lock file that is there now; both removals that do not look whose file it is happen when no daemon is left |
| `DaemonIsFindable`, `OnlyHolderReleases` | `Findable`, `HolderKeepsLock`, if `~Racing` | from the same invariant |
| `DaemonLockProofs!TypeCorrect` | `TypeOK`, also if `Racing` | with the turns of the loop that are left (`TurnsLeft`) |
| `LeftoversYield` | `RefusedByOwnPid`, if `~Racing` | with `SecondTurnFree`: in the second turn of the loop there is no lock file, or the process has made it |
| `TokensArePrivate` | `TokensPrivate` | ids carry their sender (`IdsInv`), and a replay needs the same sender |
| `ActiveIsKept` | `ActiveNotDisplaced` | an upload under way is one of the running session's unsaved files (`JobInSession`), which is what `Blocking` asks for |
| `FilesAreStoredOnce` | `StoredOnce` | a file has one handler at a time or is in `overlapped` (`OneServer`); once it is on disk nobody is on the way to store it again: its handler is past the rename, and the running session, if it is the file's, has it marked or has that handler (`StoredDone`) |
| `SendFilesProofs!SenderIsAClient` | the composition implements `UploadSession` | each step of the sender is one of the receiver's, or leaves it alone |
| `SenderTypeCorrect`, `ReceiverKeepsItsWord` | `SendTypeOK`; `ReceivedStored`, `TokensPrivate`, `ActiveNotDisplaced` of the composition | the handler of a request serves the session and file it names; the rest by `SenderIsAClient` |
| `SentFilesAreStored` | `SentIsStored` | an acknowledged file is on disk under the run's session, and stays (`LandedNeverReplaced`) |
| `ZipInstallProofs!TypeCorrect` | `TypeOK` | with the position in the loop |
| `AlwaysRecoverable` | `Recoverable` | the entries before the current one are new, and each that existed has its backup until the tree is all new or all old |
| `RollbackIsExact`, `InstallIsExact` | `RollbackExact`, `InstallExact` | `createdDirs` lists each directory after those above it, so the last one is empty once the files are back, or has in it one that could not be removed (`Left`) |
| `InstallAlwaysFits`, `GrowingRollbackAlwaysFits` | `InstallFits`, `GrowingRollbackFits` | with S the running totals of the preflight: the space left, what others took, and what the loop has used stay above the estimate, since each rename frees the data it replaces |
| `PromiseKept` | `KeepsPromise` | each step saves, replaces, restores, forgets or reports, or is invisible |
| `InstallSelectProofs!TypeCorrect`, `SelectionIsInstalled` | `TypeOK`; `InstalledAsSelected` | from the hash of the confirmation on the ZIP has the selected bytes, or its change is noted |
| `OneInstallerAtATime` | `OneInstaller` | unless two acquire at once, the lock file is the holder's from its creation on, and who is about to remove it has seen no holder |
| `SelectionsInstallOnce` | `InstalledOnce` | a selection not excused is with one process at most; once installed it is with the one that removes it from the file, and in the file for no longer than that, or it is excused because that removal failed |
| `RefusalsAreTrue` | `RefusedRightly` | a pid in the lock is of a process that installs, or was killed or could not remove the lock: all other ways out release |
| `DiscoveryProofs!TypeCorrect`, `FileKnows` | `TypeOK`; `DiskKnows` | a sighting that is not written changes neither who is known nor where (`NotMaterial`) |
| `PeersAreBounded` | `PeersBounded` | a sighting at any rank keeps ranks apart (`AgedRanks`) and below `MaxPeers` (`SightedRanked`), so they inject the table into `0 .. MaxPeers - 1` |
| `KualControlProofs!TypeCorrect` | `TypeOK`, for any number of commands | one step per action |
| `RulesNeverPileUp`, `NobodyTakesTheLease` | `RulesBounded`, `LeaseHolds`, if `OneCommand` | only the holder of the singleton and the one command touch the rules, in turn; `InOrder` says how far an opening has come |
| `HolderIsFound`, `StopIsTruthful` | `NoOrphan`, `StopTruthful`, if `OneCommand` | the holder's lock file names it (`HolderLocks`); a command knows at each place where the daemons can be (`Sees`, `Stops`) |
| `InstallsAlone`, `RefreshNeverKills` | `InstallAlone`, `RefreshHarmless`, if `OneCommand` | from `Sees` |
| `FramingProofs!TypeCorrect`, `StreamIsKept` | `TypeOK`; `NothingLost` | a read moves items from the front of one sequence to the end of the next |
| `VerdictIsTheBodys` | `SplitIndependent` | what is buffered is a prefix of the body (`PrefixOfBody`), and a verdict on a prefix that is not `"unknown"` is the verdict on every longer body (`VerdictIsStable`); before the deadline `"unknown"` settles it only if the limit is reached, which is `EndsAtLimit` (`UnknownAtLimit`) |
| `FirstIsUnderstood` | `FirstUnderstood` | plain chunks are classified as chunks (`PlainChunksAreChunks`); with the verdict above |

Each safety property is weaker than the invariant that proves it. For the
installer, for example, `InstallFits` says nothing of the steps before the
copy; `SpaceInv` bounds free space at every step of the loop by sums over the
entries, for which it carries a witness `S` (the totals after each entry), and
so needs no induction over the archive.

Two forms recur in the proofs about sequences and records. `\o` is given a name
(`Cat` in `FramingProofs`) where only its associativity is needed, since the
provers unfold it; and the new value of a record is typed in a step of its own.

The invariant of `KualControlProofs`, `ControlInv`, is the largest. None of the
six properties says where the daemons are while a command is half way, and each
needs it: that a stop removes files and rules without harm rests on what it saw
when it looked for a daemon, on nothing being forked since, and on a process it
signalled still being the only one. So `ControlInv` gives each place of a command
the places in which a daemon can be (`Sees`, `Starts`, `Flags`, `Stops`, `Shuts`)
and what has been said (`Truthful`); each place of a daemon what the rules
look like (`InOrder`); and that one process at a time is between fork and end
(`OneDaemon`). Its parts were checked by TLC on three daemons and
two failures before the proof.

`VerdictIsStable` speaks of bodies of every length, where the run stops at four
bytes. `ClassifyCompatBody` looks for the first byte that ends a size; that there is
a first one is `LeastNatural`, from the well-foundedness of the naturals, and
no induction over the body is needed.

Only model-checked: `OthersServed`, `RequestAnnounced`, `EndpointConverges`,
`SightingsPersisted`, `HeaderReachesHTTP` and `CommandsEnd`, which are liveness
under fairness and beyond the prover. Every invariant and action property that a
passing run checks is a theorem, under the hypotheses above. What is proved of the
singleton and of the menu commands is proved for one command at a time only, but for
the types.

## 5. Plan

Done: the upload session, the daemon singleton and the installer's transaction,
in this order because they decide what is on the user's disk; the framing of
uploads, and the menu commands with the daemon and the firewall; then the
selection of an update, the peer table with the discovery that fills it, and
the sender against the receiver.

The proofs followed the same order; last came the framing, the sender as a client
of the receiver, and the menu commands.

What is left: what holds of `DaemonLock` and `KualControl` when commands overlap
(the runs show which properties do not; that a daemon that serves has its own
files, say, could be stated with the overlap as an exception, as `crossed` does
for `install.lock`); and `KualControl` as an implementation of the singleton
that `DaemonLock` looks at closely.

## 6. Not modelled

TLS, certificates and fingerprints (`identity.go`: cryptography, sequential);
configuration, menu generation and the printed status (sequential, formatting);
the rotating log, whose content nothing reads back; the event texts and byte
counts of `status.json`; the dialog script;
`scripts/privacy_audit.py` (a release check); the prebuilt binary. Power loss
is a crash of the process: what the file system loses of unsynced data is not
modelled. `installer.go` syncs each file before its rename but no directory.
