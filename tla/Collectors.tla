----------------------------- MODULE Collectors ------------------------------
(***************************************************************************)
(* One sample of the agent: main.c calls the collectors in the order of    *)
(* collector_list.def, every one of which may fail and leaves its last     *)
(* payload behind, and then pushes all payloads, whatever failed.  cpu.c,  *)
(* mem.c, net.c, disk.c, fs.c and the rates of proc.c.                     *)
(*                                                                         *)
(* A reading is compared with an earlier one.  What matters is how many    *)
(* samples ago that one was taken, so the readings themselves are kept     *)
(* relative to it: `since' is what the kernel has counted since then, and  *)
(* a span is the number of samples since then (None: there is no reading). *)
(* Of the payloads only the last one written is kept as it is; the others  *)
(* are reduced to whether they were written in this sample.                *)
(***************************************************************************)
EXTENDS Integers, Functions, ThreadGroup

CONSTANTS
    Classes,         \* the fields of cpu_payload
    Ticks,           \* what the kernel may count per class between two samples
    WordMod,         \* 2^64, the range of unsigned long long
    U16Mod, U32Mod,  \* 2^16 and 2^32, the casts of the payload fields
    Listings,        \* contents of /proc/diskstats: lines [name, change, zero]
    Partitions,      \* names is_partition_name skips
    CacheName(_),    \* a name as strncpy stores it in the cache (15 characters)
    MaxDisks,        \* TF_MAX_DISKS
    MaxInterfaces,   \* TF_MAX_INTERFACES
    MaxFs,           \* TF_MAX_FS
    Interfaces, Mounts,   \* contents of /proc/net/dev and /proc/mounts
    Watched,         \* watch_group_count
    Groups,          \* task directories of the processes that match each watch group
    ListLimit,       \* TF_PROC_TRACK, the processes a watch group keeps
    MaxProcGroups,   \* TF_MAX_PROC_GROUPS, the groups a payload holds
    Configs,         \* [disabled, mode, include_tid, top_n]
    MaxFaults,       \* bound: reads of /proc that fail
    MaxSamples       \* bound: samples

Scale == 1000        \* TF_CPU_PERCENT_SCALE, TF_PCT10_MAX
None == -1
Free == "free"       \* a cache slot without a name

ASSUME CollectorsAssumption ==
    /\ U16Mod \in Nat /\ U16Mod > Scale /\ U32Mod \in Nat \ {0}
    /\ WordMod \in Nat /\ WordMod >= U32Mod
    /\ IsFiniteSet(Classes) /\ Ticks \subseteq [Classes -> Int]
    /\ MaxDisks \in Nat \ {0} /\ MaxInterfaces \in Nat /\ MaxFs \in Nat
    /\ ListLimit \in Nat /\ MaxProcGroups \in Nat
    /\ MaxFaults \in Nat /\ MaxSamples \in Nat

\* The kernel lists a disk once; no name is empty, and a name that was cut to the
\* length of the cache's is not cut again.
ASSUME ListingsAssumption ==
    \A lines \in Listings :
        /\ lines \in Seq([name : STRING, change : Int, zero : BOOLEAN])
        /\ \A i, j \in DOMAIN lines : lines[i].name = lines[j].name => i = j
        /\ \A i \in DOMAIN lines :
              /\ lines[i].name # Free
              /\ CacheName(lines[i].name) \in STRING \ {Free}
              /\ CacheName(CacheName(lines[i].name)) = CacheName(lines[i].name)

\* What readdir and the stat files give for a thread.
Task ==
    [pid : Int, tid : Int, name : Int, letter : STRING, share : Nat,
     readable : BOOLEAN, slot : BOOLEAN]

ASSUME GroupsAssumption == Watched \in Nat /\ Groups \subseteq [1..Watched -> Seq(Seq(Task))]
ASSUME ConfigsAssumption == \A c \in Configs : c.top_n \in Nat

VARIABLES
    pc,          \* the collector main calls next, or "push"
    cfg,         \* the part of agent_config the collectors read
    written,     \* for every payload: "zero", in this sample "now", or "before"
    last,        \* the payload written last
    cpu,         \* cpu_ctx: the reading it compares with
    sctx,        \* sample_context.cpu_total_diff: the span of the total it holds,
                 \* or None for the 1 it starts with
    disk,        \* disk_ctx: cache and last_sample_time
    proc,        \* proc_ctx: for every watch group the reading of a process of it
    faults,      \* reads that failed so far
    samples,     \* samples begun so far
    felt,        \* history: samples in which a failed read may still be felt
    met          \* history: disks listed since disk_init (ever) and in the last listing
                 \* (before), and whether every listing was timed

vars == <<pc, cfg, written, last, cpu, sctx, disk, proc, faults, samples, felt, met>>

Payloads == {"cpu", "mem", "load", "net", "disk", "fs", "proc"}
NoPayload == [kind |-> "none"]

cpu_init == [since |-> [c \in Classes |-> 0], span |-> None]
disk_init == [cache |-> [i \in 1..MaxDisks |-> [name |-> Free, zero |-> TRUE, span |-> None]],
              time |-> None]
proc_init == [g \in 1..Watched |-> None]
NothingMet == [ever |-> {}, before |-> {}, timed |-> TRUE]

Init ==
    /\ pc = "cpu"
    /\ cfg \in Configs
    /\ written = [p \in Payloads |-> "zero"] /\ last = NoPayload
    /\ cpu = cpu_init /\ disk = disk_init /\ proc = proc_init
    /\ sctx = None
    /\ faults = 0 /\ samples = 1 /\ felt = 0
    /\ met = NothingMet

Older(span) == IF span = None THEN None ELSE span + 1

\* A read of /proc that fails.
Fault == faults < MaxFaults /\ faults' = faults + 1 /\ felt' = 2
NoFault == UNCHANGED <<faults, felt>>

-----------------------------------------------------------------------------
(* cpu.c                                                                   *)

Word(n) == n % WordMod

\* Mutant: the total is taken before iowait is added.
diff_totalNoIowait(diff) == SumFunctionOnSet(diff, Classes \ {"iowait"})

\* total - prev_total
diff_total(diff) == SumFunction(diff)

NonZero(n) == IF n = 0 THEN 1 ELSE n

CpuShare(diff, class) ==
    ((Word(Word(diff[class]) * Scale)) \div NonZero(Word(diff_total(diff)))) % U16Mod

\* /proc/stat cannot be opened, read or parsed: the payload is cleared, the
\* previous reading stays, and sctx keeps the 1 that main put there.
cpu_collect_fails ==
    /\ pc = "cpu" /\ samples <= MaxSamples
    /\ Fault
    /\ \E ticks \in Ticks :
          cpu' = IF cpu.span = None
                   THEN cpu
                   ELSE [cpu EXCEPT !.since = [c \in Classes |-> @[c] + ticks[c]]]
    /\ written' = [written EXCEPT !["cpu"] = "zero"]
    /\ last' = NoPayload
    /\ pc' = "mem"
    /\ UNCHANGED <<cfg, sctx, disk, proc, samples, met>>

cpu_collect ==
    /\ pc = "cpu" /\ samples <= MaxSamples
    /\ NoFault
    /\ \E ticks \in Ticks :
          LET diff == [c \in Classes |-> cpu.since[c] + ticks[c]]
          IN  IF cpu.span = None
                THEN /\ written' = [written EXCEPT !["cpu"] = "zero"]
                     /\ sctx' = None
                     /\ last' = NoPayload
                ELSE /\ written' = [written EXCEPT !["cpu"] = "now"]
                     /\ sctx' = cpu.span
                     /\ last' = [kind |-> "cpu", diff |-> diff,
                                 share |-> [c \in Classes |-> CpuShare(diff, c)]]
    /\ cpu' = [since |-> [c \in Classes |-> 0], span |-> 0]
    /\ pc' = "mem"
    /\ UNCHANGED <<cfg, disk, proc, samples, met>>

-----------------------------------------------------------------------------
(* mem.c, net.c, fs.c                                                      *)

\* Mutant: a failure of /proc/meminfo keeps the payload of the last sample.
mem_collect_failsKeeps ==
    /\ pc = "mem" /\ Fault
    /\ UNCHANGED written
    /\ last' = NoPayload /\ pc' = "net"
    /\ UNCHANGED <<cfg, cpu, sctx, disk, proc, samples, met>>

\* /proc/meminfo cannot be opened: mem is cleared, load is not looked at.
mem_collect_fails ==
    /\ pc = "mem" /\ Fault
    /\ written' = [written EXCEPT !["mem"] = "zero"]
    /\ last' = NoPayload /\ pc' = "net"
    /\ UNCHANGED <<cfg, cpu, sctx, disk, proc, samples, met>>

mem_collect ==
    /\ pc = "mem"
    /\ \E loadavg \in BOOLEAN :
          /\ IF loadavg THEN NoFault ELSE Fault
          /\ written' = [written EXCEPT !["mem"] = "now",
                                        !["load"] = IF loadavg THEN "now" ELSE "zero"]
    /\ last' = NoPayload /\ pc' = "net"
    /\ UNCHANGED <<cfg, cpu, sctx, disk, proc, samples, met>>

\* The entries read from a listing: the lines that are not skipped (lo, or a
\* line of /proc/net/dev that does not parse; a type that is not in fs_whitelist, or
\* a mount that statvfs refuses) up to the limit of the payload.
Entries(lines, max) ==
    LET kept == SelectSeq(lines, LAMBDA line : ~line.skip)
    IN  SubSeq(kept, 1, Min({Len(kept), max}))

\* A listing that cannot be read leaves count = 0, and push sends nothing.
ListCollect(kind, lists, max, next) ==
    /\ pc = kind
    /\ \/ /\ Fault
          /\ written' = [written EXCEPT ![kind] = "zero"]
          /\ last' = NoPayload
       \/ /\ NoFault
          /\ \E lines \in lists :
                /\ written' = [written EXCEPT ![kind] = IF Entries(lines, max) = <<>>
                                                          THEN "zero" ELSE "now"]
                /\ last' = [kind |-> kind, entries |-> Entries(lines, max)]
    /\ pc' = next
    /\ UNCHANGED <<cfg, cpu, sctx, disk, proc, samples, met>>

\* The loop over /proc/mounts ends at a line that does not parse.
Parsed(lines) ==
    LET bad == {i \in DOMAIN lines : ~lines[i].parses}
    IN  IF bad = {} THEN lines ELSE SubSeq(lines, 1, Min(bad) - 1)

net_collect == ListCollect("net", Interfaces, MaxInterfaces, "disk")
fs_collect == ListCollect("fs", {Parsed(lines) : lines \in Mounts}, MaxFs, "proc")

-----------------------------------------------------------------------------
(* disk.c                                                                  *)

NoSlot == 0

\* Mutant: takes a free slot before it looks for the disk's own.
disk_cache_slotFreeFirst(cache, name) ==
    LET own == {i \in DOMAIN cache : cache[i].name = name}
        free == {i \in DOMAIN cache : cache[i].name = Free}
    IN  IF free # {} THEN Min(free) ELSE IF own # {} THEN Min(own) ELSE NoSlot

disk_cache_slot(cache, name) ==
    LET own == {i \in DOMAIN cache : cache[i].name = name}
        free == {i \in DOMAIN cache : cache[i].name = Free}
    IN  IF own # {} THEN Min(own) ELSE IF free # {} THEN Min(free) ELSE NoSlot

\* The counters are all zero after this reading.
ZeroReading(cached, line) ==
    IF cached.span = None \/ line.change < 0 THEN line.zero ELSE cached.zero /\ line.change = 0

\* One turn of the loop over /proc/diskstats; have_prev is ~cached.zero.
DiskLine(out, line, elapsed) ==
    LET slot == disk_cache_slot(out.cache, line.name)
    IN  IF \/ Len(out.entries) >= MaxDisks
           \/ line.name \in Partitions
           \/ slot = NoSlot
          THEN out
          ELSE LET cached == out.cache[slot]
               IN  [cache |-> [out.cache EXCEPT ![slot] =
                                 [name |-> CacheName(line.name),
                                  zero |-> ZeroReading(cached, line), span |-> 0]],
                    entries |-> Append(out.entries,
                                  [of |-> line.name,
                                   have_prev |-> ~cached.zero,
                                   delta |-> IF cached.zero THEN 0 ELSE Word(line.change) % U32Mod,
                                   change |-> line.change,
                                   span |-> cached.span, elapsed |-> elapsed])]

Whole(lines) == {lines[i].name : i \in DOMAIN lines} \ Partitions

\* What the kernel may list: a counter moves only from a reading there is, and
\* falls only when the disk was replaced by one that has counted less.
Possible(lines) ==
    \A i \in DOMAIN lines : lines[i].change # 0 =>
        \E s \in DOMAIN disk.cache : /\ disk.cache[s].name = lines[i].name
                                     /\ lines[i].change < 0 => ~disk.cache[s].zero

\* Mutant: the time of the sample is stored although nothing was read.
disk_collect_failsStores ==
    /\ pc = "disk" /\ Fault
    /\ disk' = [disk EXCEPT !.time = 0]
    /\ written' = [written EXCEPT !["disk"] = "zero"]
    /\ last' = NoPayload /\ pc' = "fs"
    /\ UNCHANGED <<cfg, cpu, sctx, proc, samples, met>>

\* /proc/diskstats cannot be opened: count = 0; the cache and last_sample_time stay.
disk_collect_fails ==
    /\ pc = "disk" /\ Fault
    /\ UNCHANGED disk
    /\ written' = [written EXCEPT !["disk"] = "zero"]
    /\ last' = NoPayload /\ pc' = "fs"
    /\ UNCHANGED <<cfg, cpu, sctx, proc, samples, met>>

\* Without a time of the last sample, or of this one, the nominal interval of
\* one sample is used.
disk_collect ==
    /\ pc = "disk"
    /\ \E lines \in Listings, have_sample_time \in BOOLEAN :
          LET elapsed == IF have_sample_time /\ disk.time # None THEN disk.time ELSE 1
              out == ForEach(LAMBDA o, line : DiskLine(o, line, elapsed),
                             [cache |-> disk.cache, entries |-> <<>>], lines)
          IN  /\ Possible(lines)
              /\ IF have_sample_time THEN NoFault ELSE Fault
              /\ disk' = [cache |-> out.cache,
                          time |-> IF have_sample_time THEN 0 ELSE disk.time]
              /\ written' = [written EXCEPT !["disk"] = IF out.entries = <<>> THEN "zero" ELSE "now"]
              /\ last' = [kind |-> "disk", entries |-> out.entries, listed |-> Whole(lines),
                          before |-> met.before]
              /\ met' = [ever |-> met.ever \cup Whole(lines),
                         before |-> {out.entries[i].of : i \in DOMAIN out.entries},
                         timed |-> met.timed /\ have_sample_time]
    /\ pc' = "fs"
    /\ UNCHANGED <<cfg, cpu, sctx, proc, samples>>

-----------------------------------------------------------------------------
(* proc.c                                                                  *)

\* Bound: what collect_thread_group returns does not depend on what was collected
\* before, so threads are listed only in a first sample without a fault or a disk.
TaskDirs ==
    IF samples = 1 /\ faults = 0 /\ met.ever = {}
      THEN Groups ELSE {[g \in 1..Watched |-> <<>>]}

\* tracker_add_pid: a process that finds the list of its group full is only logged.
PidList(processes) == SubSeq(processes, 1, Min({Len(processes), ListLimit}))

\* The groups that get into a payload: the first of those with something to report.
FirstGroups(groups) ==
    {g \in groups : Cardinality({h \in groups : h < g}) < MaxProcGroups}

\* What collect_thread_group may produce for every watch group.
ThreadEntries(groups) ==
    LET entries == [g \in 1..Watched |->
                      collect_thread_group(PidList(groups[g]), cfg.mode, cfg.include_tid, cfg.top_n)]
    IN  {e \in [1..Watched -> UNION {entries[g] : g \in 1..Watched}] :
            \A g \in 1..Watched : e[g] \in entries[g]}

\* Of every group a process: not in the tracker's list, which takes its reading out
\* of the table; listed but unreadable, which leaves the reading; or read.  A group
\* without a process that was read before gives no entry, and one without threads no
\* thread entry.
proc_collect ==
    /\ pc = "proc"
    /\ IF cfg.disabled
         THEN /\ written' = [written EXCEPT !["proc"] = "zero"]
              /\ last' = NoPayload
              /\ UNCHANGED proc /\ NoFault
         ELSE \E groups \in TaskDirs : \E entries \in ThreadEntries(groups) :
              \E found \in [1..Watched -> {"absent", "unreadable", "read"}] :
                /\ IF \E g \in 1..Watched : found[g] = "unreadable" THEN Fault ELSE NoFault
                /\ proc' = [g \in 1..Watched |-> CASE found[g] = "absent" -> None
                                                  [] found[g] = "unreadable" -> proc[g]
                                                  [] found[g] = "read" -> 0]
                /\ written' = [written EXCEPT !["proc"] = "now"]
                /\ last' = [kind |-> "proc", total |-> sctx, groups |-> groups,
                            spans |-> [g \in FirstGroups({h \in 1..Watched :
                                                  found[h] = "read" /\ proc[h] # None}) |-> proc[g]],
                            threads |-> [g \in FirstGroups({h \in 1..Watched :
                                                  cfg.mode # "off" /\ entries[h].total # 0}) |-> entries[g]]]
    /\ pc' = "push"
    /\ UNCHANGED <<cfg, cpu, sctx, disk, samples, met>>

-----------------------------------------------------------------------------
(* main.c                                                                  *)

\* The frame is built from the payloads as they are, and the next sample begins
\* with a fresh sample_context.
push ==
    /\ pc = "push"
    /\ written' = [p \in Payloads |-> IF written[p] = "now" THEN "before" ELSE written[p]]
    /\ last' = NoPayload
    /\ cpu' = [cpu EXCEPT !.span = Older(@)]
    /\ disk' = [cache |-> [i \in 1..MaxDisks |-> [disk.cache[i] EXCEPT !.span = Older(@)]],
                time |-> Older(disk.time)]
    /\ proc' = [g \in 1..Watched |-> Older(proc[g])]
    /\ sctx' = None
    /\ samples' = samples + 1
    /\ felt' = IF felt = 0 THEN 0 ELSE felt - 1
    /\ pc' = "cpu"
    /\ UNCHANGED <<cfg, faults, met>>

\* Mutant: the process collector keeps its context.
reloadKeepsProc ==
    /\ pc = "cpu" /\ samples > 1
    /\ cfg' \in Configs
    /\ written' = [p \in Payloads |-> "zero"] /\ last' = NoPayload
    /\ cpu' = cpu_init /\ disk' = disk_init
    /\ sctx' = None
    /\ faults' = 0 /\ samples' = 1 /\ felt' = 0
    /\ met' = NothingMet
    /\ UNCHANGED <<pc, proc>>

\* SIGHUP: destroy_agent_state and init_agent_state replace every context.
reload ==
    /\ pc = "cpu" /\ samples > 1
    /\ cfg' \in Configs
    /\ written' = [p \in Payloads |-> "zero"] /\ last' = NoPayload
    /\ cpu' = cpu_init /\ disk' = disk_init /\ proc' = proc_init
    /\ sctx' = None
    /\ faults' = 0 /\ samples' = 1 /\ felt' = 0
    /\ met' = NothingMet
    /\ UNCHANGED pc

Next ==
    \/ cpu_collect \/ cpu_collect_fails
    \/ mem_collect \/ mem_collect_fails
    \/ net_collect
    \/ disk_collect \/ disk_collect_fails
    \/ fs_collect
    \/ proc_collect
    \/ push
    \/ reload

Spec == Init /\ [][Next]_vars

-----------------------------------------------------------------------------
(* Properties.                                                             *)

\* A collector that fails clears its payload: main pushes no value of an earlier
\* sample.  The one exception is the load average, which mem_collect leaves alone
\* when it returns early for want of /proc/meminfo.
NoStaleValues ==
    pc = "push" =>
        \A p \in Payloads : written[p] = "before" => p = "load" /\ written["mem"] = "zero"

\* The shares cpu_collect computes account for the whole interval, up to the
\* rounding of every field, and none exceeds 100 %, as long as no counter of
\* /proc/stat went back (the kernel lets iowait do so).
CpuSharesAddUp ==
    /\ last.kind = "cpu"
    /\ \A c \in Classes : last.diff[c] >= 0
    /\ diff_total(last.diff) > 0
    => /\ SumFunction(last.share) \in (Scale - Cardinality(Classes) + 1)..Scale
       /\ \A c \in Classes : last.share[c] \in 0..Scale

\* A process is charged against the ticks of the very interval its own ticks were
\* counted in: cpu_total_diff and the process's previous reading are equally old,
\* unless a read of /proc failed in this sample or the one before.
SharesOverOneInterval ==
    last.kind = "proc" /\ felt = 0 => \A g \in DOMAIN last.spans : last.spans[g] = last.total

\* The change of a disk's counters is divided by the time in which it happened:
\* elapsed_ms reaches back to the reading the disk is compared with, also when
\* /proc/diskstats could not be read in between, for every disk of the listing
\* before; and the delta is that change, unless the counters were reset.
DiskRatesTrue ==
    last.kind = "disk" /\ met.timed =>
        \A i \in DOMAIN last.entries :
            LET e == last.entries[i]
            IN  e.of \in last.before /\ e.have_prev =>
                    /\ e.span = e.elapsed
                    /\ e.change \in 0..(U32Mod - 1) => e.delta = e.change

\* Every whole disk the kernel lists is reported as long as the disks met since
\* disk_init, present or not, fit into the cache with their full names.
DisksReported ==
    /\ last.kind = "disk"
    /\ Cardinality(met.ever) <= MaxDisks
    /\ \A d \in met.ever : CacheName(d) = d
    => {last.entries[i].of : i \in DOMAIN last.entries} = last.listed

\* Every process of group g is in the tracker's list.
Tracked(g) == Len(last.groups[g]) <= ListLimit

\* Every thread of a group is counted once and under its state, or the entry
\* carries TRUNCATED: at the scan limit and at the limit of a uint16_t.  A group with
\* a thread that could be read has an entry.  Both hold within the two limits that
\* proc.c passes over in silence: a group of more processes than the tracker lists,
\* and more groups with threads than a payload holds.
ThreadCountsTrue ==
    last.kind = "proc" =>
        LET threaded == {g \in DOMAIN last.groups : ReadablePlaces(last.groups[g]) # {}}
        IN  /\ \A g \in DOMAIN last.threads :
                  Tracked(g) => CountsTrue(last.threads[g], last.groups[g])
            /\ cfg.mode # "off" /\ Cardinality(threaded) <= MaxProcGroups =>
                  \A g \in threaded : Tracked(g) => g \in DOMAIN last.threads

\* The Top-N holds the busiest threads, or thread names, of a group whose processes
\* are all listed, with all their instances and their whole share, or the entry
\* carries TRUNCATED: when the candidates are full, and when a thread found no slot
\* in the table of ticks.
TopNTrue ==
    last.kind = "proc" /\ cfg.mode = "top" =>
        \A g \in DOMAIN last.threads :
            Tracked(g) => TopTrue(last.threads[g], last.groups[g], cfg.include_tid, cfg.top_n)

=============================================================================
