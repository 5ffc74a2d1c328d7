----------------------------- MODULE MCCollectors ----------------------------
(***************************************************************************)
(* Small instances of Collectors: three CPU classes of which iowait may    *)
(* fall, a cache of two disks with three whole disks and a partition, and  *)
(* two watch groups of up to four processes and five threads.              *)
(***************************************************************************)
EXTENDS Collectors, TLC

MCClasses == {"user", "idle", "iowait"}
MCTicks == {[user |-> u, idle |-> 2 - u, iowait |-> w] : u \in {1, 2}, w \in {-1, 1}}

Line(name, change, zero) == [name |-> name, change |-> change, zero |-> zero]
Lines(names) == [1..Len(names) -> {TRUE, FALSE} \X {-1, 0, 2}]
ListingsOf(names) ==
    {[i \in DOMAIN names |-> Line(names[i], f[i][2], f[i][1])] : f \in Lines(names)}

MCListings ==
    ListingsOf(<<>>) \cup ListingsOf(<<"sda">>)
        \cup {<<Line("sda", c, FALSE), Line("sdb", 0, FALSE)>> : c \in {-1, 0, 2}}
        \cup {<<Line("sda", 0, FALSE), Line("sda1", 0, FALSE), Line("sdc", 0, FALSE)>>}

MCPartitions == {"sda1"}
MCInterfaces == {<<[name |-> "lo", skip |-> TRUE], [name |-> "eth0", skip |-> FALSE],
                   [name |-> "wlan0", skip |-> FALSE]>>}
MCMounts == {<<[name |-> "/", skip |-> FALSE, parses |-> p],
               [name |-> "/srv", skip |-> FALSE, parses |-> TRUE]>> : p \in BOOLEAN}

\* The name of the third disk does not fit into the cache.
MCCacheName(name) == IF name = "sdc" THEN "sd" ELSE name

\* Kinds of threads: three names, idle and busy ones, one whose stat file is
\* gone and one without a slot in the table of ticks.
Kind(name, letter, share) ==
    [name |-> name, letter |-> letter, share |-> share, readable |-> TRUE, slot |-> TRUE]

Kinds ==
    {Kind(1, "R", 2), Kind(2, "R", 1), Kind(3, "t", 3),
     [Kind(1, "R", 1) EXCEPT !.readable = FALSE], [Kind(2, "S", 2) EXCEPT !.slot = FALSE]}

Dir(pid, kinds) ==
    [t \in DOMAIN kinds |-> kinds[t] @@ [pid |-> pid, tid |-> 10 * pid + t]]

\* One process of three threads, one more than the scan limit; two of two, which may
\* have more names than there are candidates; three with more threads than the counters
\* hold; or four, which is more than the list holds.
FirstGroup ==
    {<<Dir(1, a)>> : a \in [1..3 -> Kinds]}
        \cup {<<Dir(1, a), Dir(2, b)>> : a, b \in [1..2 -> Kinds]}
        \cup {<<Dir(1, <<k, k>>), Dir(2, <<k, k>>), Dir(3, <<k>>)>> : k \in Kinds}
        \cup {[p \in 1..4 |-> Dir(p, <<k>>)] : k \in Kinds}

\* A second group without processes, or with one that has a busy thread; a payload
\* holds one group.
MCGroups == FirstGroup \X {<<>>, <<Dir(5, <<Kind(3, "t", 3)>>)>>}

MCConfigs ==
    {[disabled |-> FALSE, mode |-> "top", include_tid |-> tid, top_n |-> 2] : tid \in BOOLEAN}
        \cup {[disabled |-> FALSE, mode |-> m, include_tid |-> FALSE, top_n |-> 1] : m \in {"off", "summary"}}
        \cup {[disabled |-> TRUE, mode |-> "top", include_tid |-> FALSE, top_n |-> 2]}

=============================================================================
