# TraceFox in TLA+

TraceFox samples a Linux host (`agent/`, C), sends one UDP frame per sample, and
turns the frames into VictoriaMetrics samples (`server/`, Python). A Wireshark plugin
(`wireshark/`, Lua) judges captured frames, and a PowerShell script (`windows/`) runs
the server side on Windows. This directory holds TLA+ models of the parts in which
timing, failures, limits and integer widths matter, the TLC configurations that check
them, and proofs checked by TLAPS. `PROJECT.json` maps every definition to the source
lines it stands for, and lists the hazards of the code with the properties that cover
them.

## The system and its parts

    collectors -> frame assembly -> UDP -> parser -> receiver -> queue -> sender -> VictoriaMetrics
    (*_collect)   (tlv.c, *_push)    |    (tracefox_protocol.py)  (metrics_forwarder.py)
         ^                           +--> Wireshark plugin (tracefox.lua)
    main loop, configuration,
    signals (main.c)                 supervisor (tracefox.ps1) starts and restarts
                                     VictoriaMetrics, the forwarder and Grafana

| Part | Source | Module | Status |
|---|---|---|---|
| forwarder threads, queue, retries, shutdown | `server/metrics_forwarder.py` | `Forwarder`, `TelemetryChannel` | modelled |
| frame assembly, frame budget | `agent/src/tlv.c`, the `*_push` functions, `main.c` | `Frame` | modelled |
| frame parser | `server/tracefox_protocol.py` | `Frame` | modelled |
| main loop, deadlines, signals, reload, configuration | `agent/src/main.c` | `Agent` | modelled |
| cpu, memory, network, disk, filesystem collectors | `cpu.c`, `mem.c`, `net.c`, `disk.c`, `fs.c` | `Collectors` | modelled |
| thread collector | `agent/src/proc.c` | `ThreadHistory`, `ThreadGroup`, `Collectors` | modelled |
| process collector | `agent/src/proc.c` | `ProcHistory`, `Collectors` | partly: no RSS |
| Wireshark plugin | `wireshark/tracefox.lua` | `Dissector`, `Capture` | partly: no display tree |
| Windows supervisor and commands | `windows/tracefox.ps1` | `Supervisor` | partly: downloads and configuration are steps that may fail |
| conversion to Prometheus text | `metrics_forwarder.py` | a body in `Forwarder` | partly: no text, no uptime |
| test server, smoke test, dashboards, packaging | | - | not modelled: no state |

## The modules

**`Forwarder`** has the three threads of `metrics_forwarder.py`. A body is named by
its arrival number. Every operation on the `queue.Queue` is one step, since the
queue's lock makes it atomic; everything else interleaves, including the three
operands of the sender's loop condition and the two `put_nowait`s of
`enqueue_latest`. A failed push may or may not have reached VictoriaMetrics. `acked`,
`lost` and `received` are history variables. `TelemetryChannel` is what the pipeline
promises without threads: in order, at least once, dropping only near the old end
and only while something newer waits. `Pending` and `vm` give the refinement mapping.

**`Frame`** follows one frame from the collected payloads through `tlv_put` to
`parse_frame`. A TLV is its type, length byte, count and flag; an entry is the window
of bytes it occupies, so that "arrives" means that the parser reads the window the
agent wrote. The `(uint8_t)` casts are `% 256`; the buffer has its real 1400 bytes.

**`Agent`** is `main.c`: configuration from defaults, file and command line (parsed
again, in place, at each reload), the sampling loop and its absolute deadlines. A
signal may arrive between any two steps; during `clock_nanosleep` it interrupts it.
Time is relative to now: `starts` holds the ages of the last two samples, which count up
to `MaxAge`, so that time needs no bound beyond that and `MaxLate`.

**`Collectors`** is one sample: the collectors in the order of `collector_list.def`, each
of which may fail, then the push of all payloads whatever failed. What matters about
a reading is which earlier one it is compared with, so the state holds spans: how many
samples ago the CPU, the process and each disk were read, when `last_sample_time` was
taken, and how long an interval `cpu_total_diff` covers. `written` says of each payload
whether it is of this sample. The kernel's counters may stand still, move or, where
the kernel lets them, fall. `reload` replaces every context, as SIGHUP does. There may be
any number of watch groups, each with its processes and threads; the loops of
`proc_collect` end at `MaxProcGroups` groups and `tracker_add_pid` at `ListLimit` processes.

**`ThreadGroup`** has the operators of `collect_thread_group`: the scan with its limit per
process, the saturating counters, the candidates and the sort. Candidates that compare
equal may come in any order, as `qsort` is not stable. `CountsTrue` and `TopTrue` state
the result without the scan: a count, a sum and an order over the set of threads.
`ForEach` is a loop over a sequence; the loop of `disk_collect` is one too.

**`ThreadHistory`** is the open-addressed table of `find_thread_slot`, with the garbage
collection at the end of each collection and the generation counter that wraps. The
kernel starts, runs, ends and reuses threads at any time. `prev` and `cur` record what
the last and the present collection have read.

**`ProcHistory`** is the process table of `find_slot`, the tracker that refreshes the list
of pids now and then, and the loop that counts instances. A pid may pass to a new
process before the tracker notices. One watch group is modelled, in the order of pids; the
list ends at `ProcTrack` of them. The names of the two tables are distinct, since `MCHistory`
extends both and runs either of them, chosen in the initial state, and the proofs use each
of them beside `Collectors`.

**`Dissector`** is `analyse_frame` with its two tables, the scan Wireshark makes in the
order of the capture, frames shown again in any order, and the resets.
**`Capture`** composes it with agents that number their frames, restart and wrap, and
with a network that loses, duplicates and reorders. Frames carry their run and place
in it as history, so that "missing" can be compared with what was really sent.

**`Supervisor`** has the processes that run `start`, `stop` and `supervise`. They
interleave at every access to the mutex, the stop request, the state file and the ports.
Components bind their port some time after they start, and may exit at any time; a
supervisor may be killed at any time, and every step the script does not guard may
throw. `status` only reads and has no action. `lost` records that a supervisor was killed or
that an exception came between the creation of a process and its assignment.

The `MC*` modules give the constants their values.

## What is checked

| Run | Bounds | Shows |
|---|---|---|
| `Forwarder` | queue 2, 4 frames, 2 failed pushes | no uncaught `queue.Full`, conservation, newest kept, order, exact counters, at most one frame left at shutdown, refinement of `TelemetryChannel`; a signal ends the process, every frame is acknowledged or evicted |
| `Frame` | up to 3 disks, 9 mounts, 4 interfaces, 8 groups | everything gathered arrives; thread groups shrink just enough, and one is left out only when not even its header fits |
| `Agent` | 2 command lines, 3 files, 1 edit, 2 late ticks, ages up to 6 | no lost reload, one output, no bursts, interval never 0; SIGHUP reloads, SIGTERM stops |
| `Collectors` | 3 CPU classes, cache of 2 for 3 disks, 3 samples, 2 failed reads, up to 6 threads with 3 candidates, a scan limit of 2 and counters up to 4; 2 watch groups of which a payload holds 1, lists of 3 processes | nothing stale is pushed, shares add up, shares and rates are over the right interval, every disk is reported, thread counts and Top-N are true or flagged |
| `History` | threads: 3 (2 collide), 2 slots, generations mod 4, 2 incarnations; processes: 3 with colliding pids, 2 slots and a list of 2, 2 ticks, 1 reuse | ticks are charged to the right thread; the table is exact between collections; of several slots of a pid the one with the last reading is used |
| `Capture` | 2 streams, sequence mod 5 from 3, window 2, 3 frames, 2 runs | the analysis does not depend on the order of showing; no loss goes unreported, also across a wrap, and the count is exact unless the predecessor was late; late frames and duplicates are flagged |
| `Supervisor` | 2 components, 2 commands, 2 supervisors, 1 restart; 2 exits, or 1 supervisor lost | one supervisor, no orphans, a true state file; crashes are handled and stop requests honoured |

The bounds are the smallest at which the cases meet: a queue that fills, is drained
and evicted from at once; a table with a collision, a hole and no free slot; a
generation or a sequence number that wraps; a file that changes during a reload; a
deadline missed twice; a read that fails in one sample and is felt in the next; a disk
cache with one slot too few; two starts, or a start and a stop, that overlap a crash.
The generation takes the values 1 to 3 in `History`, so that a slot freed in the second
collection is a hole in the third, before the wrap clears the table; in `ThreadHistory_known` it is
mod 8 with 3 slots, and the trace ends before any wrap. In `Agent_prefixes` the list of
prefixes holds 4, enough for the file and the command line at the first start.
In `Supervisor` a lost supervisor weighs two faults, an exit one. Deadlock is not checked there: the
system rests once its commands are done. In `Collectors` threads are listed only in the
first sample, as `ThreadGroup` keeps no state between samples.

Five runs expect a violation. Each states what a comment or the README says and shows
a behaviour of the code that disagrees (`findings` in `PROJECT.json` quotes the lines):

| Run | Shows |
|---|---|
| `Frame_disks` | with 4 disks the length byte wraps (265 becomes 9), and no disk arrives; 10 mount points do the same |
| `Frame_truncation` | the fourth thread group is dropped at `proc.c:756` and no `truncated` flag is set in the frame |
| `Agent_prefixes` | after SIGHUP only the first `-P` prefix is left |
| `ThreadHistory_known` | a busy thread is reported with 0 % after a neighbour's slot was freed |
| `ProcHistory_probing` | two processes share a slot of a table that is large enough for both |

Smaller observations, without a run of their own:

* A ninth watch group with processes (`proc.c:679`) or threads (`proc.c:724`), and the 65th
  process of a group (`proc.c:524`), are dropped without a flag, while `README.md:85` gives
  each group a TLV; `ThreadCountsTrue` and `TopNTrue` claim nothing about them.
* After a late frame the plugin counts frames as missing that it has seen: of a run captured
  in the order 1, 0, 2 nothing is lost, and frame 2 has `missing_packets` 1, which
  `wireshark/README.md:30` explains as a number that was not captured. A frame that is
  captured later counts as missing too. `MissingExact` demands the opposite direction
  always (no loss unreported) and equality unless this happened.
* When `/proc/meminfo` cannot be opened, the load average of the last sample is sent
  again (`NoStaleValues` has this exception).
* When `/proc/stat` cannot be read, process shares are divided by 1 in that sample, and by
  the ticks of two samples in the next one; `SharesOverOneInterval` excludes both.
* A disk whose name is longer than 15 characters takes a new cache slot in every sample.
  Names are cut to 7 characters in the frame, so two disks can share one.
* A disk that is missing from one listing is afterwards rated over too short a time.
* Of two `start` commands at once, the one whose supervisor finds the mutex taken may
  see a healthy system, then its own supervisor gone, and request a stop.
* `stop` gives up after 20 seconds, before a supervisor that waits 30 for VictoriaMetrics
  looks for the request; the request is honoured later. A request written while a
  supervisor starts may be removed by it, or by a concurrent `start`, and is then lost;
  `StopHonoured` does not count it.
* A restarted agent looks like a loss or a duplicate when its count passes the old one.
* `enqueue_latest` may evict from a queue that the sender has just made room in; a frame
  may have exactly 1400 bytes; a process that has used no clock tick yet is never
  counted as an instance, and one that got a used pid is measured against its former owner.

### Fairness

`FairSpec` of `Forwarder` schedules only the main thread, whose waits all have timeouts:
nothing is assumed of VictoriaMetrics. `EveryFrameSettles` assumes in addition that the
two other threads run (`ThreadsFair`) and, by `MaxErrors`, that an outage ends. In `Agent`,
the process is scheduled and time passes; no signal, edit or failing clock is fair. In
`Supervisor`, as long as some supervisor has a step to take, one takes a step: its waits
have timeouts and Windows schedules it. Commands, components and faults are never fair, nor
are frames and signals. `Collectors` and `Capture` state no liveness.

## What is proved

The theorems hold for every value of the constants, under the `ASSUME`s of the modules,
which type them (queue size any integer; table size positive; generation width
at least 2; samples within the limits of `tracefox.h`; the wrap window smaller than the
modulus; component names distinct; pids positive). Those of `Collectors` say in addition
that 1000 fits into a `uint16_t` and a word is no narrower than 32 bits, that the kernel lists
a disk once and under a name, that `strncpy` does not cut a name it has cut before, and
that ids, names and shares of threads and the configured `top_n` are numbers.

* **`Forwarder_proofs`**: all safety invariants of the run, and the refinement. None of
  them is inductive; the strengthening says that the queue holds the consecutive bodies
  `Gone+1 .. Put`, where `Gone` is what the sender or the eviction has taken and `Put`
  what the receiver has finished putting, and ties each program counter to the
  variables it has set.
* **`Frame_proofs`**: the writer stays in its buffer and no push is refused. The
  strengthening bounds `len` at each step by the sum of what the earlier pushes can
  have written. For every sample the agent can gather, the server then reads back the
  disks *exactly* if there are at most three of them, and the other lists exactly if there
  are at most nine mounts: the theorems are equivalences, so they delimit the findings of
  `Frame_disks` from both sides. Thread groups arrive in order, whole or marked, and none is
  left out while a group without entries would fit, which is the limit that
  `Frame_truncation` runs into. These need
  a second invariant, of the layout (`LInv`): every TLV lies within the frame and has the
  count of the sample, a list whose push is past is in the frame, and the thread groups
  are its last TLVs, one for each group pushed.
* **`Agent_proofs`**: type correctness (the interval is never 0, whatever the file and the
  command line say); no SIGHUP is lost, one output is open, samples are spaced. The second
  and third follow from an invariant that orders the versions of the file (read,
  signalled, current) and ties the outputs to the program counter. The last needs the fact
  that a deadline lies after the sample before it, so that the deadline after next lies
  more than an interval after it.
* **`Collectors_proofs`**, the order of the calls: nothing stale is pushed, and process
  shares are over one interval. A collector that has been called in this sample has
  written or cleared its payload; and while no failed read is felt, the CPU and process
  readings are as old as each other.
* **`Collectors_proofs`**, `cpu.c`: the shares add up to 100 %, for any number of fields
  and any counters that did not fall, as long as the ticks of the interval times 1000 fit
  into 64 bits (`TicksInRange`; the counters of a machine do for longer than it will run).
  A sum of quotients, each rounded down, misses the whole by less than one unit per field.
* **`Collectors_proofs`**, `disk.c`: disk rates are over the right interval, and every
  disk is reported while the cache has room. The invariant (`DiskInv`) says that the used
  slots of the cache come before the free ones, that every disk of the last listing owns a
  slot, the first one with its name, whose age is that of `last_sample_time`, and that
  full names own one slot each. Each turn of the loop keeps this and makes its own entry
  true.
* **`Threads_proofs`**, the Top-N: every readable thread of a group is counted once and
  under its state, and the Top-N are the busiest candidates with all their instances and
  their whole share, or the entry is marked as truncated; for every number of groups,
  every limit, and every order `qsort` may give to equal candidates. This is said of the
  groups whose processes fit into the list of the tracker, and that such a group has an
  entry if no more groups have threads than a payload holds: beyond these limits the code
  drops silently. The two loops of `collect_thread_group` keep `Counted`: unless the
  outcome is marked, its counters are the sizes of the sets of threads they have come
  past, and its candidates are the identities of these, each once, with the size and the
  sum of its set. It also says that a scan that has counted a thread shows one, so that a
  group without an entry has none.
* **`Threads_proofs`**, the table: type correctness; ticks are charged to their thread,
  and the table between collections is the last reading without duplicates. The
  strengthening says that a slot of the current generation agrees with this collection and
  belongs to a thread already read, and that any other slot agrees with the last
  collection. It needs no fact about probe chains, which is why cutting them is harmless
  for this property.
* **`Collectors_proofs`**, the process table: type correctness, and a pid is measured from
  its last reading. As long as no slot has had to be shared, the first slot a pid owns, in
  the order in which `find_slot` looks, holds its last reading; later ones may hold older
  readings and are not reached, since garbage collection frees all slots of a pid or none.
* **`Capture_proofs`**: the tables fit the capture; a frame is judged against its
  predecessor, because in a scan a stream state is the last frame of the stream that
  the scan has passed; and `forward_sequence_delta` is exact within the wrap window.
  No loss within the window therefore goes unreported, the count is exact unless the
  predecessor was late, and late and repeated frames are flagged, for every modulus and
  window. These need the invariant `Numbered`: within one run of an agent,
  `sequence - nth` is the same for all frames up to a multiple of the modulus. The proof
  corrected the property: a step back is flagged as a regression up to a distance of
  `Modulus - 2 * WrapWindow`; beyond it, a frame near 0 after one near the maximum is
  taken for a wrap. In the real plugin that is 2^32 - 2^17 frames.
* **`Supervisor_proofs`**: type correctness, in which the restarts of a component stay
  within their limit; one supervisor at a time, no orphans, a true state file. The
  strengthening says what each place of `Invoke-Supervisor` relies on: no process before
  the start, none yet for the components still to be started, the old process gone where a
  new one is started, and all of them gone when the files and the mutex are removed.

Loops and sums are folds, that is recursive functions over the subsets of a finite set, and
induction theorems with an operator as parameter cannot be instantiated here. What can be
used is that every non-empty set of naturals has a least element: `Sums_proofs` derives
from it induction for *sets* of naturals and of subsets, that a fold over a finite set
exists and satisfies its equation, and from that the rule for a loop.
`Collectors_proofs` and `Threads_proofs` rest on it.

Three theorems delimit findings: they say under which conditions on the constants the
properties that the violation runs refute do hold, so that no other cause is left.

* `KnownUnlessCollision` (`ThreadHistory_known`): if no two threads hash to the same slot, a
  known thread is measured against its last reading in every collection except the one
  that clears the table after a wrap of `thread_generation`. The invariant (`KInv`)
  says that every thread is in the slot it hashes to, and that this slot has the last
  reading, or the present one once it is made.
* `OwnSlotUnlessCollision` (`ProcHistory_probing`): if no two watched pids hash to the same
  slot, none is given another one's, and every difference is from its own last reading.
* `FirstPrefixWins` (`Agent_prefixes`): if no configuration file fills the list of prefixes,
  the first prefix of `-P` survives every reload; with one prefix at most, the command line
  wins. The invariant is that the first prefix stays in `argv`.

Only model-checked: liveness (it needs fairness, outside the prover's reach).
The type invariants of `ThreadHistory`, `ProcHistory` and `Capture` are proved and not checked
again by the runs.

## Not modelled

* Wording, logging and text formats; name resolution; how `/proc` files are parsed and the
  values that are only copied from them; the fields inside an entry; what `-f` writes.
* The text of the metrics and the uptime in it: a difference of timestamps of the agent's
  clock, with no control of its own.
* The RSS of processes, the display tree of the Wireshark plugin, and the print functions:
  output computed from what is modelled.
* Download and unpacking of the Windows runtime (`Ensure-Runtime`), the parsing of
  `config.env`, and log rotation: sequential file work, present as steps that may throw.
* A handle to the mutex that a command holds for a moment while it tests for a supervisor.
* Dashboards, alert rules, container and build files, the test server and the smoke test.
