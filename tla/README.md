# A verification of softnpu in TLA+

SoftNPU runs a P4 program, compiled to a shared library, as the data plane of an
ASIC emulator. This directory holds TLA+ models of its programs, the TLC
configurations that check them, and theorems about them checked by TLAPS.
`PROJECT.json` maps every definition to the lines it was translated from.

## 1. The system

| component | source | state | operations |
|---|---|---|---|
| packet handlers | `client/src/bin/softnpu.rs` 82-327 | the DLPI links of each port; the pipeline, in an `Arc<Mutex>` shared with everybody | per port an ingress task (`handle_external_packets`) and an egress task (`handle_internal_packets`): receive, lock, `process_packet`, unlock, send what came out |
| management interface | `client/src/bin/softnpu.rs` 370-402, `lib/src/lib.rs` | the tables in the pipeline; the datagram sockets `<uds_path>/server` and `<uds_path>/client` | `TableAdd`, `TableRemove`, `RadixRequest`, `DumpRequest` |
| softnpu start | `client/src/bin/softnpu.rs` 329-378, 405-442 | the links, the loaded library, the socket file | open both links of each port, load the program, spawn the handlers, bind the socket |
| table dump over the UART | `client/src/lib.rs` | the tty's settings and its input queue | flush, send the request, read up to the newline |
| program load over 9P | `client/src/p9.rs` | a 9P session over a tty | version, attach, walk, open, chunked writes |
| zones | `client/src/bin/npuzone.rs` 92-157, 349-584 | simnet links, vnics, zones, their datasets, the runtime directory | `create`, `destroy`, with the RAII resources of the library `ztest` |
| artifact fetch | `client/src/bin/npuzone.rs` 158-347 | files in the runtime directory and their digests | resolve a branch, fetch the digest, compare, download |
| npuvm | `client/src/bin/npuvm.rs` | files, SMF services, packages, the dendrite image | `install`, `uninstall`, downloads with retries, `pkg` with retries |
| configuration, command line, CI | `client/src/config.rs`, `client/src/cli.rs`, `.github/` | - | - |

### How they interact

`npuzone create` makes the links and two zones, and starts `softnpu` in one of
them; `npuvm` prepares the machine dendrite runs on. In the `softnpu` process all
tasks share one thing, the pipeline behind a `std::sync::Mutex`: the two handlers
of every port and the management loop, which is the main task (`block_on`). A
handler takes the mutex for `process_packet`, the management loop for an update
and for a dump. Clients talk to the management loop through datagram sockets:
requests go to one path, every answer goes to one other fixed path, with no
request number in it. `dump_tables_propolis` and `load_program` do the same
through the serial lines of a virtual machine.

### What is hard about them, and what makes them correct

*Packet handlers.* Interleavings of `2 * ports` tasks over one mutex and the same
links; a panic in a task, which is the end of this task only, unless it holds the
guard: then the mutex is poisoned, and every `lock().unwrap()` from then on
panics as well. Correct: packets go where the pipeline said and nowhere else, in
the order it emitted them; nobody holds the guard where he may wait; a panic
outside the pipeline leaves the rest of the process at work; a task dies of what it
was given itself, and of nothing that others were given.

*Management interface.* Requests of several clients in one queue, a client that
leaves before its answer, answers that do not fit into a datagram, a queue that is
full, panics as above - of the main task, with which the process exits. Correct:
requests take effect one at a time and in order, a dump shows the tables of one
moment; an answer is for the question the client takes it for; only a client can
hold up the loop.

*Start and stop.* A failure half way, a second instance on the same socket path,
`kill -9`. Correct: the process that answers is the one that forwards.

*UART and 9P.* Bytes of an earlier exchange, lost bytes, short writes. Correct: a
dump that is returned is the answer to this request; a load never puts a part of a
program to work by failing, and as long as it runs its bar tells whether every byte so far
is at its place (at its end nothing does: it fills the bar and reports that it is done).

*Zones.* A step that fails half way through `create`; order of what is undone.
Correct: after a failed `create` nothing is left, after a good one everything is;
`destroy` after either leaves nothing but what it failed to delete, for its deletions
may fail and it goes on.

*Artifacts, npuvm.* A branch that moves between two requests, a transfer that
breaks, a lock held by somebody else, an uninstall after half an install. Correct:
what is on disk is what the digest says; `uninstall` after any prefix of `install`
succeeds and `install` after it too; retries end.

`PROJECT.json` lists the hazards one by one, with their lines and the properties
that watch them.

## 2. Plan

Modules in order, the most important behaviour first:

1. `SharedPipeline`, `DataPlane`, `Management`, `SoftNpu`: the running process
   (done), `ControlPlane`: the promise of the management interface (done),
   `SoftNpuProofs`, `ControlPlaneProofs`: their proofs (done).
2. `NpuZone`: create and destroy with a failure at every step, several at once, and
   the drop order of the resources (done).
3. `NpuVm`, `Download`: install, uninstall and their partial failures; the retry loops
   of `pkg` and of the downloads (done).
4. `Artifacts`: the two resolutions of a branch, digest and transfer (done).
5. `P9Load`, `UartDump`: the two protocols over serial lines (done).
6. `Lifecycle`: start, stop and a second instance on one socket path; `Runtime`: it and
   `Artifacts` on one runtime directory (done).
7. `P9LoadProofs`, `RuntimeProofs`, `DownloadProofs`, `NpuVmProofs`, `NpuZoneProofs`,
   `UartDumpProofs`: the proofs of these (done).

A run asks one question of one configuration; a new module adds its properties to a
run of its own, and shares one where the configuration is the same.

## 3. The modules

* `SharedPipeline` - the mutex and what it guards. `Lock`, `LockPanics`, `Unlock`
  are `lock().unwrap()` and the drop of the guard; `Unwind` is a panic, which drops
  a guard the task holds and so poisons; `LeaveBlock` is the end of the loop over the
  output and of an arm of the match, where a guard that was bound there would be dropped
  (in the code none is: it matters to the slips); `CallPanics` is a panic inside the dlopened
  pipeline, which unwinds like any other or, when the library brought a runtime of
  its own, aborts the process. The tables are the set of keysets with an entry: two
  entries with one keyset are one, and what parameters an entry has plays no part.
* `DataPlane` - the handlers. `pc[h]` is where handler `h` is between two points at
  which others can run: in its receive, before the mutex, in the call, in the loop
  over the output. A frame is an identity and a length, for the buffers cut and
  slice by length; a packet that comes out is the verdict of the P4 program: egress
  port, length of `header_data`, and the sidecar field its bytes 16-17 hold. `Dest`
  is `handle_external_packet` / `handle_internal_packet` with
  `handle_packet_to_ext_port` and `handle_packet_to_cpu_port`: a link, a drop, or a
  panic where `header_data` is too short. `tx` is the history of each link, and what a
  dead handler had in hand stays in `pkt` and `outq`, to tell what it died of. The P4
  program and DLPI are external: the program may return any sequence of `Verdicts`
  and, if `PipelineMayPanic`, panic; sends may fail; frames arrive at any time.
* `Management` - the main task and its clients. `mpc`, `msg` and `reply` are the
  loop and the locals of `handle_management_message`; `sock` and `inbox` are the
  queues of the two sockets. A client (external) binds its path, sends, reads and
  leaves; it binds before it asks, for one that asks without a socket is one that
  left at once. `asked` is a history of the questions it has not had an answer to.
* `SoftNpu` - the process: their interleaving, fairness, the invariants that speak of
  both, and the refinement of `ControlPlane`.
* `ControlPlane` - what clients may rely on: a queue, tables and answers; `Serve`
  takes one request and does all of it in one step.
* `NpuZone` - runs of `npuzone create` and `npuzone destroy` on one name, in any
  number and at once, each at its own `pc`. The machine is the simnet links that
  exist, the dataset, the zones with the links in each, and `softnpu.toml`. A run of
  create makes them one by one; `Drops` is what the return of an error drops, in
  Rust's order: the locals of the inner function, then those of the outer one, then
  the fields of `Resources`. `Plan` is what destroy deletes, up to the point where
  its arguments stop it. Any step may fail, and a run may be killed, which runs no
  destructor. A deletion of destroy that fails (`DeleteFails`) leaves all of the resource
  or a part of it and is passed over, as the code does with every one of them; `missed`
  is the history of those. `ztest` and the administration of zones and links are external: making
  what exists fails, a dataset is destroyed by force (the code asks for `-rf` before
  it halts the zones), and `forced`, chosen once for a system, says whether a link
  that a zone uses can be deleted, for which nothing in the code decides.
* `NpuVm` - runs of `npuvm install` and `npuvm uninstall`, one after the other. `pc`
  and `k` are the step and the round of its loop; the machine is what there is of the
  image, its manifests, the `swadm` link and the two artifacts, with the version of
  each, what SMF knows of the services, and the driver. SMF (external) never forgets a
  service, may restore deleted dependencies at an import, and puts properties in
  effect at a refresh. Branches move at any time; a commit given on the command line
  is a branch that does not move. Where a step can fail half way it leaves `Torn`.
* `Download` - the two download loops, which are copies of each other: attempts, the
  file, `last_error`. They differ where the response code cannot be read, which one
  retries and the other returns; the model may do either. libcurl and the server are external. `NpuVm` takes from it that
  a download that succeeds leaves the whole file and that one that fails leaves
  anything.
* `UartDump` - runs of `dump_tables_propolis`, one after the other. `dpc` and `buf` are
  where a run is and what it has read; the tty (`raw`, `rx`) is opened in its first mode
  with nothing queued and loses both with its last close. `Readable` is what VMIN and
  VTIME, or the canonical mode, say of a read; the answer comes in four pieces, which is
  enough to be cut anywhere that matters. Propolis, external, serves one request after
  the other and sends whether or not somebody listens. `quiet` is the history of whether
  it had nothing left to send at the flush.
* `P9Load` - runs of `load_program`, one after the other. `tried` and `dev` are the search
  for the device, in any order of the devices, `i` and `bar` the loop over the program
  and its progress bar, which the end of the loop fills (`GoOn`). A server, external, stores each write at its offset, may take
  less than it is sent, and runs what it has stored at the clunk. Byte `x` of the program
  of run `n` is the pair of both, so bytes of two programs cannot be taken for each other.
* `Artifacts` - runs of `fetch_required_artifacts` into one directory, any number at once.
  A run resolves the commit of a file's URL, resolves that of the digest and compares
  (one step: nothing between them depends on anything that was read before),
  truncates, and writes piece by piece at its own offset, so that pieces of two runs
  may overlap or leave a hole. A file that is missing and one that is empty are the same:
  both are downloaded. Heads move, builds appear later, and a commit without one has
  an error page, which is a file like any other for code that does not read the response
  code. `group` is the history of the runs since nothing was under way.
* `Lifecycle` - `npu start`, `npu stop` and the start of `softnpu`: processes, each at its
  own `ppc`, and the owner of the socket file, alive or not. A process is a copy of the
  shell until its exec, and `pkill softnpu` does not find it.
* `Runtime` - both on one runtime directory: a process loads what is in the files at that
  moment. A whole file loads, an error page or an empty one does not, and of a part of a
  file either may be true.
* `SoftNpuProofs`, `ControlPlaneProofs`, `P9LoadProofs`, `UartDumpProofs`, `DownloadProofs`,
  `NpuVmProofs`, `NpuZoneProofs`, `RuntimeProofs` - theorems and their lemmas (section 5).
  `ControlPlaneProofs` is about the management interface, its refinement of `ControlPlane`
  and what its clients can rely on; `RuntimeProofs` about `Artifacts` first, then about the
  processes; each of the others about the module of its name.
* `MCSoftNpu`, `MCNpuZone`, `MCNpuVm`, `MCDownload`, `MCUartDump`, `MCP9Load`,
  `MCRuntime` - values for TLC.

Definitions with a comment that starts with "Slip" are not part of the model:
each is a plausible error in the operation below it, and one property of a run
fails when it takes that operation's place.

## 4. The runs

| run | shows |
|---|---|
| `packets` | `TypeOK`, `RightLink`, `PerPortOrder`, `EachDiesOfItsOwn`: two ports of different MTUs, four handlers, every verdict the handlers tell apart, frames that fit and frames that do not |
| `panics` | `NoGuardAcrossAwait`, `PoisonFreezesTables`, `ServesInOrder`, `HandlersReturn`, `OnlyTheClientHoldsUp`, `RequestsDrain`: a panic in every call, clients that vanish; the management interface implements `ControlPlane`, and nobody waits for ever for the mutex |
| `clients` | `ProcessLives`, `AnswersMatch`, `RadixIsTheLastPort`, `OnlyThePipelinePoisons`: good clients, the worst traffic (long frames, short headers), two ports of which one has a larger MTU |
| `hostframes` | `HostFramesGetIn` fails: see the findings |
| `zones` | `ZoneTypeOK`, `CleanFailure`, `CreatedStaysWhole`, `DestroyLeavesNothing`: three runs of create or destroy on one name, by count, by list and by a list with an error, with command lines that match and that do not, with deletions that fail, where links in zones can be deleted and where they cannot |
| `hostzone` | `HostZoneHasItsPorts` fails: see the findings |
| `vm` | `VmTypeOK`, `InstallCanGoOn`, `NeverUnconfigured`, `InstalledIsComplete`, `UninstallIsOrderly`: any three runs, each failed or killed anywhere |
| `uninstall` | `UninstallCanGoOn` fails: see the findings |
| `download` | `DownloadTypeOK`, `OkMeansWhole`, `DownloadEnds`: the loops of `download_file_with_retry` and of `fetch_dendrite_image` |
| `uart` | `UartTypeOK`, `QuietDumpIsRight`, `DumpEnds`: three dumps, failed or killed anywhere, while the tables change |
| `p9` | `P9TypeOK`, `RunsWholePrograms`, `BarTellsWhatIsStored`, `SoundLoadsSucceed`, `LoadEnds`: two loads, failed or killed anywhere, among three devices and by servers of four sorts |
| `runtime` | `RuntimeTypeOK`, `FetchedIsRight`, `WhatIsWantedStays`, `BindFailsOnlyInARace`, `SomebodyAnswers`, `RunsWhatWasWanted`: fetches and processes on one runtime directory |

### Bounds

`NumPorts` is 2 where packets of different ports can meet on a link (`packets`) or
ports differ (`clients`) and 1 elsewhere: two handlers and the main task already make three tasks for one
mutex, one in it, one waiting, one poisoning. `MaxFrames` is 2 where order
matters, so that two frames of one handler, or one of each, are under way;
`MaxOut` is 2 in `packets`, so that one frame makes two packets: two frames are enough
for one handler to die, in the midst of an output that it has sent a part of, while another
receives, waits, is in the call or sends. `MaxRequests`
2 to 4: an update between two dumps, a dump before and after. `ClientCap` 1 or 2:
a full queue is reached with fewer answers than requests. `DumpLimit` is 0 or 1
against one key, so that a dump that fits no datagram occurs or cannot. With an MTU of 100 the
lengths 96, 114 and 130 are the three that code distinguishes: room for the
sidecar header, a full MTU frame with its Ethernet header, more than the buffer.
`CHECK_DEADLOCK FALSE` in every configuration: when the bounded frames and
requests have run out, or the process has exited, there is nothing left to do.

`Commands` has three runs, two for one that fails beside one that stands, and a third
for what a failure lets in; they are symmetric. One port has two links by count and
one by list, which is enough for a run to fail between two links; two ports
(`hostzone`) are needed to tell the first half of the links from the links
of the hosts. `MaxMissed` bounds the resources that deletions of destroy fail to
delete, to one: a link or one of its two ends, a dataset, or a zone, halted or not, and
what that keeps another deletion from. A run does each step once, so there is nothing else
to bound; when all runs have ended nothing is left to do.

`MaxRuns` is 3 in `vm`: an uninstall between two installs, or two broken runs before a
good one; every run starts from what the last one left, and that is one of the same
few kinds of leftovers after two runs as after many. Two versions, two configurations
and two commits are enough for an old one, a new one and a change between two
downloads. A file of three pieces can break off before, between and after; five
attempts are the code's own bound.

`uart`: three dumps, so that one can be garbled by what two before it have left; one
change of the tables, to tell two answers apart. `p9`: a message has room for two
bytes, and programs of none, three, four and five bytes are shorter than a chunk, leave a
part of one after one or two whole ones, and fill chunks to the last; two loads, for what the second finds in the server.
`runtime` has several workloads (`Workloads`): two fetches that meet, with heads that move
or beside a process, three processes that race, and one fetch with one or two processes,
for a fetch and a process meet in the files only. Two commits with files of three and two pieces tell a longer leftover from a
shorter one; runs begin on an empty directory or on one an earlier create has filled.

### Fairness

`Spec` has weak fairness of each handler (`Handle(h)`) and of the main task
(`Manage`): the multi-threaded runtime of tokio polls every task that can go on,
each blocked thread of the mutex is runnable once it is free, and calls into the
pipeline end (return, panic, abort). `std::sync::Mutex` is not fair, so weak
fairness of a *waiting* task is enough only because others cannot take the mutex
for ever: frames and requests are bounded in the model; under an endless stream
of both the code promises no more than the scheduler of the operating system.
Clients, network and host are not fair: they may stop at any point. `ZoneSpec`,
`VmSpec` and `RuntimeSpec` have no fairness: only safety is stated of them. `UartSpec` has
weak fairness of the run and of Propolis, which yields and goes on when its FIFO has been
read; `P9Spec` supposes that each message is answered or fails. In both a run may be killed
at any time, and a run that could wait for a line that nobody sends (its mode could not be
set) is not promised an end. `DownloadSpec` has weak fairness
of its one thread, which supposes that libcurl ends a transfer without progress, as the
code tells it to (`low_speed_time`); a paused transfer is not supposed to end. One
property, `RequestsDrain`, has a client that goes on reading as its premise
(`ReadingClient`), for the promise is to such clients only.

## 5. What is proved

With TLAPS, for every value of the constants: any number of ports, frames, runs, processes
and moves of branches, any frame lengths and verdicts, programs and files of any size, any
devices, servers and command lines.

| theorem | module |
|---|---|
| `TypeCorrect`: `Spec => []TypeOK` | `SoftNpuProofs` |
| `GuardIsNotHeldAcrossAwait`: `Spec => []NoGuardAcrossAwait` | `SoftNpuProofs` |
| `PoisonIsFinal`: `Spec => PoisonFreezesTables` | `SoftNpuProofs` |
| `FaultsDoNotPoison`: `Spec => []OnlyThePipelinePoisons` | `SoftNpuProofs` |
| `PacketsGoWhereTheyShould`: `Spec => []RightLink` | `SoftNpuProofs` |
| `RadixIsRight`: `Spec => []RadixIsTheLastPort` | `SoftNpuProofs` |
| `HandlersOutliveOthers`: `Spec => []EachDiesOfItsOwn` | `SoftNpuProofs` |
| `PacketsStayInOrder`: `Spec => []PerPortOrder` | `SoftNpuProofs` |
| `ShortFramesGetIn`: `Spec => []HostFramesGetIn`, where frames are short enough | `SoftNpuProofs` |
| `TasksAreBusyBriefly`: no waiting in a circle, and bounds on the steps of each task | `SoftNpuProofs` |
| `ServiceIsInOrder`: `Spec => ServesInOrder` | `ControlPlaneProofs` |
| `AnswersAreMatched`: `Spec => []AnswersMatch` | `ControlPlaneProofs` |
| `AnswersCanBeTaken`: what waits for a client is what it asked for | `ControlPlaneProofs` |
| `ProcessSurvives`: `Spec => []ProcessLives` | `ControlPlaneProofs` |
| `DumpsAreTyped`: `UartSpec => []UartTypeOK` | `UartDumpProofs` |
| `QuietDumpsAreRight`: `UartSpec => []QuietDumpIsRight` | `UartDumpProofs` |
| `ReadersAreServed`: `UartSpec => []ReaderIsServed` | `UartDumpProofs` |
| `DumpsAreShort`: a bound on the steps of a dump | `UartDumpProofs` |
| `LoadsAreTyped`: `P9Spec => []P9TypeOK` | `P9LoadProofs` |
| `WholeProgramsRun`: `P9Spec => []RunsWholePrograms` | `P9LoadProofs` |
| `BarsAreHonest`: `P9Spec => []BarTellsWhatIsStored` | `P9LoadProofs` |
| `SoundServersAreLoaded`: `P9Spec => []SoundLoadsSucceed` | `P9LoadProofs` |
| `LoadsAreShort`: a bound on the steps of a load | `P9LoadProofs` |
| `RuntimesAreTyped`: `RuntimeSpec => []RuntimeTypeOK` | `RuntimeProofs` |
| `BindsFailInRacesOnly`: `RuntimeSpec => []BindFailsOnlyInARace` | `RuntimeProofs` |
| `RequestsReachSomebody`: `RuntimeSpec => []SomebodyAnswers` | `RuntimeProofs` |
| `FetchesAreRight`: `RuntimeSpec => []FetchedIsRight` | `RuntimeProofs` |
| `WantedFilesStay`: `RuntimeSpec => WhatIsWantedStays` | `RuntimeProofs` |
| `WhatWasWantedRuns`: `RuntimeSpec => []RunsWhatWasWanted` | `RuntimeProofs` |
| `DownloadsAreTyped`: `DownloadSpec => []DownloadTypeOK` | `DownloadProofs` |
| `DownloadsAreWhole`: `DownloadSpec => []OkMeansWhole` | `DownloadProofs` |
| `DownloadsAreShort`: a bound on the steps of a download | `DownloadProofs` |
| `VmsAreTyped`: `VmSpec => []VmTypeOK` | `NpuVmProofs` |
| `InstallsCanGoOn`: `VmSpec => []InstallCanGoOn` | `NpuVmProofs` |
| `ServicesAreConfigured`: `VmSpec => []NeverUnconfigured` | `NpuVmProofs` |
| `InstallsAreComplete`: `VmSpec => []InstalledIsComplete` | `NpuVmProofs` |
| `UninstallsAreOrderly`: `VmSpec => []UninstallIsOrderly` | `NpuVmProofs` |
| `ImportedImagesCanBeRemoved`: `VmSpec => []((known = Services) => []UninstallCanGoOn)` | `NpuVmProofs` |
| `RunsAreShort`: a bound on the steps of an install and of an uninstall | `NpuVmProofs` |
| `ZonesAreTyped`: `ZoneSpec => []ZoneTypeOK` | `NpuZoneProofs` |
| `CreatedZonesStay`: `ZoneSpec => []CreatedStaysWhole` | `NpuZoneProofs` |
| `FailuresAreClean`: `NamesApart => (ZoneSpec => []CleanFailure)` | `NpuZoneProofs` |
| `DestroyedZonesAreGone`: `ZoneSpec => []DestroyLeavesNothing` | `NpuZoneProofs` |

They rest on the named assumptions of the modules: `PortsAssumption` (run() refuses
more ports than a `u16` counts with the CPU port), `DataPlaneAssumption` (DLPI
delivers whole Ethernet headers, the P4 program's ports are `u16`),
`ManagementAssumption` (a finite set of keys), `P9Assumption` (a message has room for
some data besides the header of a write, sizes are natural numbers, and a machine has
finitely many devices), `UartDumpAssumption` (bounds are natural numbers),
`ArtifactsAssumption`, `NpuVmAssumption` and `DownloadAssumption` (bounds and sizes are
natural numbers, files are not empty, what stands for nothing is no commit or version) and
`LifecycleAssumption` (what stands for no process is none), `NpuZoneAssumption` (what a
command line is). Three theorems have a premise besides. `FailuresAreClean` supposes that no
link a user brings along has the name of one that npuzone makes (`NamesApart`). Without it a
second create could put a link that the first one is about to drop into its zone, and
where links in zones cannot be deleted it would stay. `ShortFramesGetIn` supposes what the
code lacks (finding `hostframes`): frames at least `SidecarHdr - L2_HEADROOM` = 4 bytes
shorter than the MTU of each port. `AnswersCanBeTaken` supposes clients that stay for their
answers, as `AnswersMatch` does.

### The running process

The inductive invariant is `IInv == TypeOK /\ NoGuardAcrossAwait /\
PoisonedIsFree`. `NoGuardAcrossAwait` is not inductive without the types, and says
which task holds the guard at each program counter; `PoisonedIsFree` is needed for
`PoisonIsFinal`, for a task that already held the guard when the mutex was poisoned
could go on. On top of it: `RightLink` needs that every packet in a handler's
output is the handler's own (`OutputIsItsOwn`), for the link depends on which
handler sends; `RadixIsTheLastPort` that the answer in hand has the right radix
already (`RadixIsNumPorts`).

`EachDiesOfItsOwn` is an invariant of the steps of one handler: a handler dies of a
poisoned mutex, of a panic in the pipeline, of its own frame or of its own packet
(`WaysToDie`). Where nothing panics in the pipeline the mutex is not poisoned
(`FaultsDoNotPoison`), which takes the first two away; the others are a frame from the host
that is too long for the port (`LongFramesPanic`) and a packet for the CPU port without a
whole header (`ShortHeadersPanic`). A step of one handler, of a client or of the main task
leaves the others as they are (`OthersStay`), and a dead one never moves again (`TheDeadRest`),
so what it died of stays in its hands.

`PerPortOrder` is kept by `OrderInv`: every frame has a number, and each handler has them
in order - what it has sent before its output, its output before the frame in its hand,
and that before those that wait (`Ordered`). Two handlers may send on one link; `Before`
compares packets of one handler only, so a send by one has nothing to show for the
other.

`TasksAreBusyBriefly` is what the liveness properties of the process rest on besides
fairness: by `IInv` the holder of the mutex is in a call, so no tasks wait for each other;
and `HandlerLeft`, which the length of the output bounds (`OutputIsBounded`), falls with every
step a busy handler takes and with nobody else's, `MainLeft` likewise.

The refinement of `ControlPlane` has one step per action: taking a request from the
socket, taking the mutex and everything the handlers do are stutters; `MgUpdate`,
`MgDump` and the receipt of a radix request or of junk are `Serve`; a death of the main
task is `Stop`.

*Answers.* `AnswersMatch` says of three places - answers out, request in hand, requests
queued - that their questions together are those the client has open, in order. Each step
moves one from a place to the next (`ChainTakes`, `ChainMoves`) or adds one at the end, so with
the types it is inductive by itself; what takes work is `Questions`, a recursive function
over a queue. A table of its values is defined by what its first and its next value are
(`IsTally`); that there is one and only one for every queue is by induction over the
length, which the library's induction theorems cannot be used for: `SetInduction`
takes the least element of the set of lengths for which it fails, by the well-foundedness of
the natural numbers. From that follow what the questions of a queue are after
a request is added or taken. `ProcessLives` needs that a client with an open question
has its path bound (`AskedIsBound`): then an answer in hand is for an open question
(`AnswersMatch`), its client is there, the dump fits (`Cardinality(Keys) <= DumpLimit`), and
`unwrap` finds no error; and nothing else has poisoned the mutex (`FaultsDoNotPoison`).

### The programs around it

*Dumps.* `QuietInv`: while a quiet run has the tty, either its request is not served and the
line is empty (`Unserved`), or what has been read, what has arrived and what is still to be
sent are together one line of tables not older than the request (`UnderWay`). A read that
finds the newline in a part of a line has found all of it (`EndOfLineIsAll`), and a whole
line parses (`LineParses`). It needs that a run reads nothing before it has asked
(`FreshRun`). `ReadersAreServed` rests on the newline being the last of what is still to be
sent (`AnswerHasItsEnd`).

*Loads.* `LoadInv`: before the end of the loop the progress bar is never ahead of the
offset, and falls behind for good as soon as a server takes less than it was sent; while it
is not behind, every byte before the offset is at its place (`Reached`). So a load that is
under way or broken off can be read from its bar (`BarTellsWhatIsStored`). At the end the
bar is filled whatever it showed (`p9.rs:105`) and tells nothing: a load cut short by its
server looks like any other. That chunks tile the program is `ChunkFits`.

*Processes.* `PathInv`: two that come up at once know of each other (`raced`); one that has
removed the socket and finds one there is in such a race; the socket of a killed process is
there only until somebody removes it; and when there is none though somebody serves, one is
about to bind or has crashed before he could.

*Fetches.* `FetchInv` says of a group of overlapping runs that want one commit (`Good`):
once any of them is past a file, every piece of it is in its place or still to be written
by one of them (`Filling`). That needs what a run may have resolved, given where the heads
were when the group began (`Could`), and that a run that is alone opens only what it must
(`AloneInv`), for a truncation undoes what is there. If heads move, only a run that is alone is
sure of whole files: `LoneInv` says of each file such a run is past that it is one of
the heads there have been since it began, or the page of one that was not built, for a commit
that is built stays so (`OutcomeStays`). `WhatIsWantedStays` follows from the
latter, an action property of the same steps; `RunsWhatWasWanted` needs that a process
has nothing loaded before it is started, and that those it speaks of have been started
since the directory came to rest (`ImageInv`).

*Downloads.* `DownloadInv`: what is in the file is the beginning of what this attempt
receives, and of nothing before it; `last_error` is not set again once an attempt has
succeeded.

*Installs.* `VmInv` says what each step of a run has behind it: which files are there
(`FilesInv`), which services SMF knows, with which properties, and which are enabled
(`ServicesInv`), and what an uninstall has taken away (`RemovedInv`). A run may fail or
be killed at every step and the next one starts from that, so each of these is stated of the
steps of one run and of nothing that an earlier one may have left.

*Zones.* `HoldInv`: as long as there is no destroy, what a create has made or has still to
drop is there and nobody else's (`Holds`, `Apart`), each thing once (`Once`), and its zone
and the configuration are of its own links (`Own`) - the latter because the first link of
every create is `shi0`, of which there is one. For `CleanFailure` also the reverse: what is
there is somebody's (`CleanInv`), and where links in zones cannot be deleted a create that
drops has its zone first (`ZoneFirst`). For `DestroyLeavesNothing`: what is there was made
for some create (`MadeInv`), and a destroy that names all of it after all of them have
ended still has all that is left before it, or has missed it: `Remaining` says this of
the dataset, of each zone and of each link, and of a link that may also be held by a zone that
was missed, where a link in a zone cannot be deleted (`LastInv`). A deletion takes a thing
off what is before the destroy because it is gone, a failed one because it is in `missed`
(`Miss`, `MissGoesOn`).

*Ends.* `DumpsAreShort`, `LoadsAreShort`, `DownloadsAreShort` and `RunsAreShort` each have a
number that every step of a run makes smaller and no other step larger: of bytes to come
and requests to serve; of devices to look at and bytes to write; of attempts and the pieces of a
file; of steps and rounds of the loops. So a loop of the code cannot go round for
ever, which is the half of `DumpEnds`, `LoadEnds` and `DownloadEnds` that a proof without
`ENABLED` can have; the other half is that some step can always be taken, which TLC
checks with the fairness of section 4. A change of the tables, or a commit, leaves the
number as it is.

### Only model-checked

The liveness properties: `HandlersReturn`, `OnlyTheClientHoldsUp`, `RequestsDrain`,
`DownloadEnds`, `DumpEnds` and `LoadEnds`. They rest on weak fairness, and so on `ENABLED`,
which is out of the prover's reach. All other properties of the passing runs are theorems.

## 6. Findings

* `hostframes` (`softnpu.rs:192`): the egress handler's buffer has room for 20 bytes
  besides the MTU, and it needs 38 for a full MTU frame: 14 of Ethernet and 24 of
  the sidecar header. `frame[38..n + 24]` panics, and with it the only task that
  reads the port's host side. It takes a configuration whose `mtu` is that of the
  link; with an `mtu` 18 bytes larger than the link's it does not happen
  (`ShortFramesGetIn`).

* `hostzone` (`npuzone.rs:533`): the host zone takes the first half of the links as
  the hosts', but they were made host and network in turn. With two ports it gets
  `shx0` and `spx0` instead of `shx0` and `shx1`, which the diagram at the head of
  the file shows; with `--ports` it gets half of the hosts' links, with one port none.

* `uninstall` (`npuvm.rs:161`): `uninstall_dendrite` disables the services first and
  returns the error of one that SMF does not know. After an install that failed
  before all three manifests were imported, uninstall fails every time and never
  gets to the image it is documented to remove, though the removal is written for
  an image of which parts are missing. Running install again does work
  (`InstallCanGoOn`), and once the three are imported no uninstall stops there
  (`ImportedImagesCanBeRemoved`).

## 7. What is not modelled

The contents of packets, headers and table entries; the P4 program itself; the
wording of logs; DLPI, which may lose what is sent and delivers whole frames. The
instant between the drop of the guard and the abort, when a panic of a foreign
runtime passes through `softnpu`, in which another task could see the poison.
Receive errors, which are logged and change nothing. What `ztest` leaves behind when making a
link or a zone fails half way; and its destructors, which a failed create runs, are taken to
delete what they are to, but for links in zones. A kill in the midst of the write of the
UART request, of which part would then be on the line. Two dumps, or two loads, at once on one line: the programs
take no lock, and nothing in them could tell the answers apart. The end of a file beyond a
shorter program in a 9P server that keeps it. What happens to a `softnpu` whose library is
truncated under it, and a `remove_file` of the socket that is refused. A transfer of
`npuzone` that never ends: it sets no time limit. The one
client path with two clients at once: who reads an answer is decided outside the code.
Names of links, TOML, the command line and the logs; the build and CI.
