---------------------------- MODULE Agent_proofs -----------------------------
(***************************************************************************)
(* Types, no SIGHUP is lost, one output is open and samples keep distance, *)
(* for every command line, file, number of edits, clock and order of       *)
(* signals.                                                                *)
(*                                                                         *)
(* The first two are strengthened to every place of main: how many outputs *)
(* are open there, and that no SIGHUP asked for a file that is not yet     *)
(* written, so that reading it catches up with every earlier one.  The     *)
(* third follows the deadlines (Pace, below), and what becomes of the      *)
(* prefixes of -P follows what strtok_r leaves in argv.                    *)
(***************************************************************************)
EXTENDS Agent, TLAPS

Config ==
    [interval : 1..MaxInterval, top_n : 1..MaxTopN, prefixes : Seq(STRING), version : Nat]

\* A configuration as init_agent_state leaves it.
WellFormed(c) == c \in Config /\ Len(c.prefixes) <= MaxCommPrefix

Types ==
    /\ argv \in CommandLine /\ argv.config = given.config /\ argv.interval = given.interval
    /\ file \in Files /\ version \in Nat /\ version <= MaxEdits
    /\ wanted \in Nat /\ wanted <= version
    /\ WellFormed(cfg) /\ cfg.version <= version

Registers ==
    /\ keep_running \in BOOLEAN /\ reload_config_flag \in BOOLEAN
    /\ seq \in 0..(SeqMod - 1)

\* The output is closed before init_config and opened by init_open.
Outputs ==
    /\ pc \in {"init_config", "init_open", "exited"} => handles = 0
    /\ pc \in {"first", "loop", "reload", "sample", "wait", "test", "to_sleep", "sleep",
               "destroy"} => handles = 1
    /\ pc = "aborted" => handles = 0
    /\ pc \in Gone \cup {"init_config", "init_open", "first", "loop", "reload", "sample",
                         "wait", "test", "to_sleep", "sleep", "destroy"}

IInv == Types /\ Registers /\ NoStaleConfig /\ Outputs

\* config_add_proc_prefix never holds more than TF_MAX_COMM_PREFIX prefixes.
LEMMA PrefixesFit ==
    ASSUME NEW l \in Seq(STRING), NEW m \in Seq(STRING)
    PROVE  AddPrefixes(l, m) \in Seq(STRING) /\ Len(AddPrefixes(l, m)) <= MaxCommPrefix
<1> DEFINE all == l \o m
           n == IF Len(all) < MaxCommPrefix THEN Len(all) ELSE MaxCommPrefix
<1>1. all \in Seq(STRING) /\ Len(all) \in Nat
  OBVIOUS
<1>2. AddPrefixes(l, m) = SubSeq(all, 1, n)
  BY Zenon DEF AddPrefixes
<1> HIDE DEF all
<1>3. n \in 0..Len(all) /\ n <= MaxCommPrefix
  BY <1>1, ConstantsAssumption
<1> HIDE DEF n
<1>4. SubSeq(all, 1, n) \in Seq(STRING) /\ Len(SubSeq(all, 1, n)) = n
  BY <1>1, <1>3
<1> QED BY <1>2, <1>3, <1>4

\* load_config_file takes a value only from its range.
LEMMA FileRead ==
    ASSUME NEW d \in Config, NEW f \in ConfigFile, version \in Nat
    PROVE  WellFormed(load_config_file(d, f)) /\ load_config_file(d, f).version = version
<1> DEFINE i == IF f.interval \in 1..MaxInterval THEN f.interval ELSE d.interval
           t == IF f.top_n \in 1..MaxTopN THEN f.top_n ELSE d.top_n
           p == AddPrefixes(d.prefixes, f.prefixes)
<1>1. load_config_file(d, f) = [d EXCEPT !.interval = i, !.top_n = t,
                                         !.prefixes = p, !.version = version]
  BY DEF load_config_file
<1>2. i \in 1..MaxInterval /\ t \in 1..MaxTopN
  BY Zenon DEF Config
<1>3. p \in Seq(STRING) /\ Len(p) <= MaxCommPrefix
  BY PrefixesFit DEF Config, ConfigFile
<1> HIDE DEF i, t, p
<1> QED BY <1>1, <1>2, <1>3 DEF Config, WellFormed

\* getopt turns a zero interval into one second and leaves the version alone.
LEMMA OptionsRead ==
    ASSUME NEW d \in Config, argv \in CommandLine
    PROVE  WellFormed(getopt(d)) /\ getopt(d).version = d.version
<1> DEFINE cast == argv.interval % 65536
           i == IF argv.interval = NoOption THEN d.interval
                ELSE IF cast = 0 THEN 1 ELSE cast
           p == AddPrefixes(d.prefixes, argv.prefixes)
<1>1. getopt(d) = [d EXCEPT !.interval = i, !.prefixes = p]
  BY DEF getopt
<1>2. i \in 1..MaxInterval
  <2>1. argv.interval \in Nat => cast \in Nat /\ cast <= MaxInterval
    BY DEF MaxInterval
  <2>2. MaxInterval \in Nat /\ 1 <= MaxInterval
    BY DEF MaxInterval
  <2>3. argv.interval \in Nat \cup {NoOption} /\ d.interval \in 1..MaxInterval
    BY DEF CommandLine, Config
  <2> HIDE DEF cast
  <2> QED BY <2>1, <2>2, <2>3
<1>3. p \in Seq(STRING) /\ Len(p) <= MaxCommPrefix
  BY PrefixesFit DEF Config, CommandLine
<1> HIDE DEF cast, i, p
<1> QED BY <1>1, <1>2, <1>3 DEF Config, WellFormed

\* The configuration main.c starts from.
LEMMA Defaults == config_defaults \in Config /\ WellFormed(config_defaults)
<1>1. MaxInterval \in Nat /\ 5 <= MaxInterval
  BY DEF MaxInterval
<1> QED BY <1>1, ConstantsAssumption
        DEF config_defaults, Config, WellFormed, DefaultInterval, DefaultTopN, MaxTopN

\* Whatever the file and the command line say, the configuration that init_agent_state
\* puts together is well formed and has the version of the file it read.
LEMMA ConfigRead ==
    ASSUME init_config, pc' # "aborted", Types
    PROVE  WellFormed(cfg') /\ cfg'.version = version
<1> DEFINE c == IF file.there THEN load_config_file(config_defaults, file)
                ELSE [config_defaults EXCEPT !.version = version]
<1>1. cfg' = getopt(c)
  BY Zenon DEF init_config
<1>2. file \in ConfigFile /\ argv \in CommandLine /\ version \in Nat
  BY ConstantsAssumption, Zenon DEF Types
<1>3. c \in Config /\ c.version = version
  <2>1. CASE file.there
    <3>1. c = load_config_file(config_defaults, file)
      BY <2>1, Zenon
    <3> HIDE DEF c
    <3> QED BY <1>2, <3>1, FileRead, Defaults, Zenon DEF WellFormed
  <2>2. CASE ~file.there
    <3>1. c = [config_defaults EXCEPT !.version = version]
      BY <2>2, Zenon
    <3> HIDE DEF c
    <3> QED BY <1>2, <3>1, Defaults DEF Config
  <2> QED BY <2>1, <2>2, Zenon
<1> HIDE DEF c
<1> QED BY <1>1, <1>2, <1>3, OptionsRead, Zenon

LEMMA InitInvariant == Init => IInv
<1> SUFFICES ASSUME Init PROVE IInv
  OBVIOUS
<1>1. argv \in CommandLine /\ argv = given /\ file \in Files
  BY ConstantsAssumption, Zenon DEF Init
<1>2. /\ pc = "init_config" /\ handles = 0 /\ version = 0 /\ wanted = 0 /\ seq = 0
      /\ keep_running = TRUE /\ reload_config_flag = FALSE /\ cfg = config_defaults
  BY Zenon DEF Init
<1>3. WellFormed(cfg) /\ cfg.version = 0
  BY <1>2, Defaults DEF config_defaults
<1>4. Types
  BY <1>1, <1>2, <1>3, ConstantsAssumption DEF Types
<1>5. Registers
  <2>1. seq \in 0..(SeqMod - 1)
    BY <1>2, ConstantsAssumption
  <2> QED BY <1>2, <2>1, Zenon DEF Registers
<1> QED BY <1>2, <1>4, <1>5 DEF IInv, NoStaleConfig, Outputs, Gone

\* A step that leaves the configuration and its sources alone.
LEMMA TypesKept ==
    ASSUME Types, UNCHANGED <<argv, given, file, version, wanted, cfg>>
    PROVE  Types'
BY Zenon DEF Types, WellFormed

LEMMA StepsPreserve == ASSUME IInv, Steps PROVE IInv'
<1>1. CASE init_config
  <2>1. /\ UNCHANGED <<keep_running, reload_config_flag, given, file, version, wanted,
                       handles, seq>>
        /\ pc = "init_config" /\ pc' \in {"aborted", "init_open"}
        /\ pc' = "aborted" => UNCHANGED <<cfg, argv>>
        /\ pc' = "init_open" => argv' = strtok(argv)
    <3>1. "aborted" # "init_open"
      OBVIOUS
    <3> QED BY <1>1, <3>1, Zenon DEF init_config
  <2>2. Types /\ Registers'
    BY <2>1, Zenon DEF IInv, Registers
  <2>3. CASE pc' = "aborted"
    <3>1. Types'
      BY <2>1, <2>2, <2>3, TypesKept, Zenon
    <3> QED BY <2>1, <2>2, <2>3, <3>1 DEF IInv, NoStaleConfig, Outputs, Gone
  <2>4. CASE pc' = "init_open"
    <3>1. WellFormed(cfg') /\ cfg'.version = version
      BY <1>1, <2>2, <2>4, ConfigRead
    <3>2. argv' \in CommandLine /\ argv'.config = argv.config /\ argv'.interval = argv.interval
      BY <2>1, <2>2, <2>4 DEF strtok, CommandLine, Types
    <3>3. Types'
      <4>1. /\ argv'.config = given'.config /\ argv'.interval = given'.interval
            /\ file' \in Files /\ version' \in Nat /\ version' <= MaxEdits
            /\ wanted' \in Nat /\ wanted' <= version'
        BY <2>1, <2>2, <3>2, Zenon DEF Types
      <4>2. cfg'.version <= version'
        BY <2>1, <2>2, <3>1 DEF Types
      <4> QED BY <3>1, <3>2, <4>1, <4>2, Zenon DEF Types, WellFormed
    <3>4. NoStaleConfig'
      BY <2>1, <2>2, <3>1 DEF NoStaleConfig, Types
    <3> QED BY <2>1, <2>2, <2>4, <3>3, <3>4 DEF IInv, Outputs, Gone
  <2> QED BY <2>1, <2>3, <2>4
<1>2. CASE ~init_config
  <2>1. UNCHANGED <<argv, given, file, version, wanted, cfg, keep_running>>
    BY <1>2, Zenon DEF Steps, init_open, init_fails, first_sample, loop, reload, sample,
       wait_for_next_sample, test_flags, enter_sleep, wake, destroy
  <2>2. Types'
    BY <2>1, TypesKept, Zenon DEF IInv
  <2>3. Registers'
    <3>1. seq' = seq \/ seq' = (seq + 1) % SeqMod
      BY <1>2, Zenon DEF Steps, init_open, init_fails, first_sample, loop, reload, sample,
         wait_for_next_sample, test_flags, enter_sleep, wake, destroy
    <3>2. seq' \in 0..(SeqMod - 1)
      BY <3>1, ConstantsAssumption DEF IInv, Registers
    <3>3. reload_config_flag' = reload_config_flag \/ reload_config_flag' = FALSE
      BY <1>2, Zenon DEF Steps, init_open, init_fails, first_sample, loop, reload, sample,
         wait_for_next_sample, test_flags, enter_sleep, wake, destroy
    <3>4. keep_running' \in BOOLEAN /\ reload_config_flag' \in BOOLEAN
      BY <2>1, <3>3, Zenon DEF IInv, Registers
    <3> QED BY <3>2, <3>4, Zenon DEF Registers
  <2>4. NoStaleConfig' /\ Outputs'
    <3>1. CASE init_open \/ init_fails
      BY <3>1 DEF init_open, init_fails, IInv, NoStaleConfig, Outputs, Gone
    <3>2. CASE first_sample \/ loop \/ test_flags \/ enter_sleep \/ wake
      BY <3>2 DEF first_sample, loop, test_flags, enter_sleep, wake, IInv, NoStaleConfig,
         Outputs, Gone
    <3>3. CASE reload \/ destroy
      BY <3>3 DEF reload, destroy, IInv, NoStaleConfig, Outputs, Gone
    <3>4. CASE sample
      BY <3>4 DEF sample, IInv, NoStaleConfig, Outputs, Gone
    <3>5. CASE wait_for_next_sample
      BY <3>5 DEF wait_for_next_sample, IInv, NoStaleConfig, Outputs, Gone
    <3> QED BY <1>2, <3>1, <3>2, <3>3, <3>4, <3>5, Zenon DEF Steps
  <2> QED BY <2>2, <2>3, <2>4, Zenon DEF IInv
<1> QED BY <1>1, <1>2, Zenon

\* A signal handler may run at any place, and the file may be edited at any place.
LEMMA WorldPreserves ==
    ASSUME IInv, clock_fails \/ Signal \/ EditFile \/ Tick \/ Exited \/ UNCHANGED vars
    PROVE  IInv'
<1>1. CASE clock_fails \/ Tick \/ Exited \/ UNCHANGED vars
  <2>1. /\ UNCHANGED <<argv, given, file, version, wanted, cfg, keep_running,
                       reload_config_flag, seq, handles>>
        /\ pc' = pc \/ (pc \in {"first", "wait", "sleep"} /\ pc' = "destroy")
    BY <1>1, Zenon DEF clock_fails, Tick, Exited, vars
  <2>2. Types' /\ Registers'
    BY <2>1, TypesKept, Zenon DEF IInv, Registers
  <2> QED BY <2>1, <2>2 DEF IInv, NoStaleConfig, Outputs, Gone
<1>2. CASE Signal
  <2>1. PICK sig \in {"SIGHUP", "SIGTERM"} : handle_signal(sig)
    BY <1>2, Zenon DEF Signal
  <2>2. /\ UNCHANGED <<argv, given, file, version, cfg, handles, seq>>
        /\ pc' = IF pc = "sleep" THEN "test" ELSE pc
    BY <2>1, Zenon DEF handle_signal
  <2>3. /\ wanted' = wanted \/ wanted' = version
        /\ reload_config_flag' \/ (reload_config_flag' = reload_config_flag /\ wanted' = wanted)
    BY <2>1, Zenon DEF handle_signal
  <2>4. Types'
    <3>1. wanted' \in Nat /\ wanted' <= version
      BY <2>3 DEF IInv, Types
    <3> QED BY <2>2, <3>1, Zenon DEF IInv, Types, WellFormed
  <2>5. Registers'
    <3>1. keep_running' \in BOOLEAN /\ reload_config_flag' \in BOOLEAN
      BY <2>1, Zenon DEF handle_signal, IInv, Registers
    <3> QED BY <2>2, <3>1, Zenon DEF IInv, Registers
  <2>6. NoStaleConfig'
    BY <2>2, <2>3 DEF IInv, NoStaleConfig, Gone
  <2>7. Outputs'
    BY <2>2 DEF IInv, Outputs, Gone
  <2> QED BY <2>4, <2>5, <2>6, <2>7, Zenon DEF IInv
<1>3. CASE EditFile
  <2>1. /\ UNCHANGED <<pc, argv, given, wanted, cfg, keep_running, reload_config_flag, seq,
                       handles>>
        /\ file' \in Files /\ version' = version + 1 /\ version < MaxEdits
    BY <1>3, Zenon DEF EditFile
  <2>2. /\ version' \in Nat /\ version' <= MaxEdits /\ wanted <= version'
        /\ cfg.version <= version'
    BY <2>1, ConstantsAssumption DEF IInv, Types, WellFormed, Config
  <2>3. Types'
    BY <2>1, <2>2, Zenon DEF IInv, Types, WellFormed
  <2> QED BY <2>1, <2>3, Zenon DEF IInv, Registers, NoStaleConfig, Outputs
<1> QED BY <1>1, <1>2, <1>3, Zenon

LEMMA NextPreserves == IInv /\ [Next]_vars => IInv'
BY StepsPreserve, WorldPreserves, Zenon DEF Next

-----------------------------------------------------------------------------
(* The pace of the samples.  A deadline lies after the sample before it, so *)
(* that the deadline after the next lies more than one interval after it.  *)

\* The i-th last sample, if there is one, is more than x ticks old.
Older(i, x) == i <= Len(starts) => starts[i] > x \/ starts[i] = MaxAge

PaceTypes ==
    /\ ahead \in Int /\ starts \in Seq(Nat) /\ Len(starts) <= 2
    /\ cfg.interval \in Nat \ {0}

\* Between the choice of a deadline and the sample it is for.
Waiting == {"loop", "sample", "test", "to_sleep", "sleep"}

Pace ==
    /\ pc = "sample" => ahead <= 0
    /\ pc = "loop" => ahead <= 0 \/ reload_config_flag \/ ~keep_running
    /\ pc = "wait" => Older(2, -ahead)
    /\ pc \in Waiting => Older(1, -ahead) /\ Older(2, Interval - ahead)

PInv == PaceTypes /\ Pace

LEMMA IntervalPositive == ASSUME PaceTypes PROVE Interval \in Nat \ {0} /\ MaxAge \in Nat \ {0}
<1>1. \A m, n \in Nat \ {0} : m * n \in Nat \ {0}
  OBVIOUS
<1> QED BY <1>1, ConstantsAssumption DEF PaceTypes, Interval

LEMMA InitPace == Init => PInv
BY DEF Init, PInv, PaceTypes, Pace, Waiting, config_defaults, DefaultInterval

\* A step that moves neither the clock nor the configuration keeps the types.
LEMMA StandsStill ==
    ASSUME PInv, cfg' = cfg, ahead' = ahead, starts' = starts
    PROVE  /\ PaceTypes'
           /\ Interval' = Interval
           /\ \A i, x : Older(i, x) => Older(i, x)'
BY Zenon DEF PInv, PaceTypes, Interval, Older

\* A step that moves neither, and leaves the places Pace speaks of or stays among
\* those between a deadline and its sample, keeps Pace.
LEMMA PlainStep ==
    ASSUME PInv, cfg' = cfg, ahead' = ahead, starts' = starts,
           \/ pc' \notin Waiting \cup {"wait"}
           \/ /\ pc \in Waiting /\ pc' \in Waiting
              /\ pc' = "sample" => ahead <= 0
              /\ pc' = "loop" => ahead <= 0 \/ reload_config_flag' \/ ~keep_running'
    PROVE  PInv'
<1>1. PaceTypes'
  BY StandsStill, Zenon
<1>2. CASE pc' \notin Waiting \cup {"wait"}
  BY <1>1, <1>2, Zenon DEF PInv, Pace, Waiting
<1>3. CASE /\ pc \in Waiting /\ pc' \in Waiting
           /\ pc' = "sample" => ahead <= 0
           /\ pc' = "loop" => ahead <= 0 \/ reload_config_flag' \/ ~keep_running'
  <2>1. Older(1, -ahead) /\ Older(2, Interval - ahead)
    BY <1>3, Zenon DEF PInv, Pace
  <2>2. Older(1, -ahead)' /\ Older(2, Interval - ahead)'
    BY <2>1, Zenon DEF Older, Interval
  <2>3. pc' # "wait"
    BY <1>3 DEF Waiting
  <2> QED BY <1>1, <1>3, <2>2, <2>3, Zenon DEF PInv, Pace
<1> QED BY <1>2, <1>3, Zenon

\* A deadline is chosen in the future and, with the one before it after the last
\* sample but one, more than an interval after that sample.
LEMMA WaitPace == ASSUME PInv, wait_for_next_sample PROVE PInv'
<1>1. /\ pc = "wait" /\ pc' = "test" /\ cfg' = cfg /\ starts' = starts
      /\ ahead' = IF ahead + Interval <= 0 THEN Interval ELSE ahead + Interval
  BY Zenon DEF wait_for_next_sample
<1>2. Interval \in Nat \ {0} /\ MaxAge \in Nat \ {0} /\ Interval' = Interval
  BY <1>1, IntervalPositive DEF PInv, Interval
<1>3. PaceTypes'
  BY <1>1, <1>2 DEF PInv, PaceTypes
<1>4. Older(1, -ahead)'
  BY <1>1, <1>2 DEF PInv, PaceTypes, Older
<1>5. Older(2, Interval - ahead)'
  <2>1. Older(2, -ahead)
    BY <1>1, Zenon DEF PInv, Pace
  <2> QED BY <1>1, <1>2, <2>1 DEF PInv, PaceTypes, Older
<1> QED BY <1>1, <1>3, <1>4, <1>5 DEF PInv, Pace, Waiting

\* A sample begins at its deadline or later.
LEMMA SamplePace == ASSUME PInv, sample PROVE PInv'
<1>1. /\ pc = "sample" /\ pc' = "wait" /\ cfg' = cfg /\ ahead' = ahead
      /\ starts' = IF starts = <<>> THEN <<0>> ELSE <<0, starts[1]>>
  BY Zenon DEF sample
<1>2. /\ Interval \in Nat \ {0} /\ MaxAge \in Nat \ {0} /\ Interval' = Interval
      /\ starts \in Seq(Nat) /\ ahead \in Int /\ ahead <= 0
  BY <1>1, IntervalPositive DEF PInv, PaceTypes, Pace, Interval
<1>3. CASE starts = <<>>
  <2>1. starts' = <<0>>
    BY <1>1, <1>3, Zenon
  <2> QED BY <1>1, <1>2, <2>1 DEF PInv, PaceTypes, Pace, Waiting, Older
<1>4. CASE starts # <<>>
  <2>1. Len(starts) >= 1 /\ starts[1] \in Nat
    BY <1>2, <1>4
  <2>2. starts' = <<0, starts[1]>>
    BY <1>1, <1>4, Zenon
  <2>3. starts[1] > -ahead \/ starts[1] = MaxAge
    BY <1>1, <2>1 DEF PInv, Pace, Waiting, Older
  <2> QED BY <1>1, <1>2, <2>1, <2>2, <2>3 DEF PInv, PaceTypes, Pace, Waiting, Older
<1> QED BY <1>3, <1>4

\* A tick makes every sample older and every deadline nearer.
LEMMA TickPace == ASSUME PInv, Tick PROVE PInv'
<1>1. /\ ahead' = ahead - 1 /\ pc' = pc /\ cfg' = cfg
      /\ keep_running' = keep_running /\ reload_config_flag' = reload_config_flag
      /\ starts' = [i \in DOMAIN starts |-> IF starts[i] < MaxAge THEN starts[i] + 1
                                             ELSE MaxAge]
  BY Zenon DEF Tick
<1>2. /\ Interval \in Nat \ {0} /\ MaxAge \in Nat \ {0} /\ Interval' = Interval
      /\ starts \in Seq(Nat) /\ ahead \in Int
  BY <1>1, IntervalPositive DEF PInv, PaceTypes, Interval
<1>3. /\ starts' \in Seq(Nat) /\ Len(starts') = Len(starts)
      /\ \A i \in 1..Len(starts) : /\ starts[i] \in Nat
                                   /\ starts'[i] = IF starts[i] < MaxAge THEN starts[i] + 1
                                                   ELSE MaxAge
  <2> DEFINE f == [i \in 1..Len(starts) |-> IF starts[i] < MaxAge THEN starts[i] + 1
                                             ELSE MaxAge]
  <2>1. DOMAIN starts = 1..Len(starts) /\ \A i \in 1..Len(starts) : starts[i] \in Nat
    BY <1>2
  <2>2. starts' = f
    BY <1>1, <2>1, Zenon
  <2>3. f \in [1..Len(starts) -> Nat]
    BY <1>2, <2>1
  <2>4. f \in Seq(Nat) /\ Len(f) = Len(starts)
    BY <1>2, <2>3
  <2> QED BY <2>1, <2>2, <2>4
<1>4. PaceTypes'
  BY <1>1, <1>2, <1>3 DEF PInv, PaceTypes
<1>5. ASSUME NEW i \in 1..2, NEW x \in Int, Older(i, x)
      PROVE  i <= Len(starts') => starts'[i] > x + 1 \/ starts'[i] = MaxAge
  BY <1>2, <1>3, <1>5 DEF Older
<1>7. pc = "wait" => Older(2, -ahead)'
  BY <1>1, <1>2, <1>5 DEF PInv, Pace, Older
<1>8. pc \in Waiting => Older(1, -ahead)' /\ Older(2, Interval - ahead)'
  BY <1>1, <1>2, <1>5 DEF PInv, Pace, Older
<1>9. ahead <= 0 => ahead' <= 0
  BY <1>1, <1>2
<1> QED BY <1>1, <1>4, <1>7, <1>8, <1>9, Zenon DEF PInv, Pace

LEMMA NextPace == IInv /\ PInv /\ [Next]_vars => PInv'
<1> SUFFICES ASSUME IInv, PInv, [Next]_vars PROVE PInv'
  OBVIOUS
<1>1. CASE init_config
  <2>1. /\ pc' \in {"aborted", "init_open"} /\ ahead' = ahead /\ starts' = starts
    BY <1>1, Zenon DEF init_config, clock
  <2>2. CASE pc' = "aborted"
    <3>1. cfg' = cfg
      BY <1>1, <2>2 DEF init_config
    <3> QED BY <2>1, <2>2, <3>1, PlainStep DEF Waiting
  <2>3. CASE pc' # "aborted"
    <3>1. cfg'.interval \in Nat \ {0}
      BY <1>1, <2>3, ConfigRead DEF IInv, WellFormed, Config
    <3> QED BY <2>1, <3>1 DEF PInv, PaceTypes, Pace, Waiting
  <2> QED BY <2>2, <2>3
<1>2. CASE init_open \/ init_fails \/ reload \/ destroy \/ clock_fails
  <2>1. /\ cfg' = cfg /\ ahead' = ahead /\ starts' = starts
        /\ pc' \in {"first", "aborted", "init_config", "exited", "destroy"}
    BY <1>2, Zenon DEF init_open, init_fails, reload, destroy, clock_fails, clock
  <2> QED BY <2>1, PlainStep DEF Waiting
<1>3. CASE first_sample
  BY <1>3 DEF first_sample, PInv, PaceTypes, Pace, Waiting, Older
<1>4. CASE loop
  <2>1. /\ cfg' = cfg /\ ahead' = ahead /\ starts' = starts /\ pc = "loop"
        /\ pc' \in {"destroy", "reload"} \/ (pc' = "sample" /\ keep_running /\ ~reload_config_flag)
    BY <1>4, Zenon DEF loop, clock
  <2>2. pc' = "sample" => ahead <= 0
    BY <2>1 DEF PInv, Pace
  <2> QED BY <2>1, <2>2, PlainStep DEF Waiting
<1>5. CASE sample
  BY <1>5, SamplePace
<1>6. CASE wait_for_next_sample
  BY <1>6, WaitPace
<1>7. CASE test_flags \/ enter_sleep \/ wake
  <2>1. /\ cfg' = cfg /\ ahead' = ahead /\ starts' = starts /\ pc \in {"test", "to_sleep", "sleep"}
        /\ \/ pc' \in {"to_sleep", "sleep"}
           \/ pc' = "loop" /\ (ahead <= 0 \/ reload_config_flag' \/ ~keep_running')
    <3>1. CASE test_flags
      <4>1. /\ pc' = "to_sleep" \/ (pc' = "loop" /\ ~(keep_running /\ ~reload_config_flag))
            /\ pc = "test" /\ reload_config_flag' = reload_config_flag
            /\ keep_running' = keep_running
        BY <3>1, Zenon DEF test_flags
      <4>2. cfg' = cfg /\ ahead' = ahead /\ starts' = starts
        BY <3>1, Zenon DEF test_flags, clock
      <4>3. pc' = "loop" => reload_config_flag' \/ ~keep_running'
        BY <4>1
      <4> QED BY <4>1, <4>2, <4>3, Zenon
    <3>2. CASE enter_sleep
      BY <3>2, Zenon DEF enter_sleep, clock
    <3>3. CASE wake
      BY <3>3, Zenon DEF wake, clock
    <3> QED BY <1>7, <3>1, <3>2, <3>3, Zenon
  <2> QED BY <2>1, PlainStep DEF Waiting
<1>8. CASE Signal
  <2>1. PICK sig \in {"SIGHUP", "SIGTERM"} : handle_signal(sig)
    BY <1>8, Zenon DEF Signal
  <2>2. /\ cfg' = cfg /\ ahead' = ahead /\ starts' = starts
        /\ pc' = IF pc = "sleep" THEN "test" ELSE pc
        /\ reload_config_flag' \/ ~keep_running'
    BY <2>1, Zenon DEF handle_signal, clock
  <2>3. Older(2, -ahead) => Older(2, -ahead)'
    BY <2>2, Zenon DEF Older
  <2>5. CASE pc = "wait"
    BY <2>2, <2>3, <2>5, StandsStill DEF PInv, Pace, Waiting
  <2>6. CASE pc # "wait"
    <3>1. pc \in Waiting => pc' \in Waiting /\ (pc' = "sample" => ahead <= 0)
      BY <2>2 DEF Waiting, PInv, Pace
    <3>2. pc \notin Waiting => pc' \notin Waiting \cup {"wait"}
      BY <2>2, <2>6 DEF Waiting
    <3> QED BY <2>2, <3>1, <3>2, PlainStep, Zenon
  <2> QED BY <2>5, <2>6
<1>9. CASE Tick
  BY <1>9, TickPace
<1>10. CASE EditFile \/ Exited \/ UNCHANGED vars
  <2>1. /\ pc' = pc /\ reload_config_flag' = reload_config_flag /\ cfg' = cfg
        /\ keep_running' = keep_running /\ ahead' = ahead /\ starts' = starts
    BY <1>10, Zenon DEF EditFile, Exited, vars, clock
  <2> QED BY <2>1, Zenon DEF PInv, PaceTypes, Pace, Older, Interval
<1> QED BY <1>1, <1>2, <1>3, <1>4, <1>5, <1>6, <1>7, <1>8, <1>9, <1>10, Zenon DEF Next, Steps

-----------------------------------------------------------------------------
\* Whatever init_agent_state reads, from the file and from the command line, main.c runs
\* with an interval of one second at least and 65535 at most, a top-N and a list of
\* prefixes that fit their arrays; every variable keeps its type.
THEOREM TypeCorrect == Spec => []TypeOK
<1>1. IInv /\ PInv => TypeOK
  <2> SUFFICES ASSUME IInv, PInv PROVE TypeOK
    OBVIOUS
  <2>1. /\ version \in 0..MaxEdits /\ wanted \in 0..version /\ cfg.version \in 0..version
    BY ConstantsAssumption DEF IInv, Types, WellFormed, Config
  <2>2. /\ cfg.interval \in 1..MaxInterval /\ cfg.top_n \in 1..MaxTopN
        /\ Len(cfg.prefixes) <= MaxCommPrefix
    BY DEF IInv, Types, WellFormed, Config
  <2>3. ahead \in Int
    BY Zenon DEF PInv, PaceTypes
  <2> QED BY <2>1, <2>2, <2>3, Zenon DEF TypeOK, IInv, Types, Registers, Outputs
<1>2. Init => IInv /\ PInv
  BY InitInvariant, InitPace
<1>3. IInv /\ PInv /\ [Next]_vars => (IInv /\ PInv)'
  BY NextPreserves, NextPace
<1> QED BY <1>1, <1>2, <1>3, PTL DEF Spec

\* main.c clears reload_config_flag before it reads anything, so that no SIGHUP is lost:
\* unless a reload is pending or running, the configuration is as recent as the last one
\* asked for.
THEOREM NoSighupLost == Spec => []NoStaleConfig
<1>1. IInv => NoStaleConfig
  BY DEF IInv
<1> QED BY <1>1, InitInvariant, NextPreserves, PTL DEF Spec

\* Over any number of reloads main.c has one socket or log file open while it samples,
\* and none when it has ended.
THEOREM ExactlyOneOutput == Spec => []OneOutput
<1>1. IInv => OneOutput
  BY DEF IInv, Outputs, OneOutput, Gone
<1> QED BY <1>1, InitInvariant, NextPreserves, PTL DEF Spec

\* wait_for_next_sample drops the deadlines that have passed: however late the samples
\* are, and whatever the interval, a sample and the last but one before it are more than one
\* interval apart.
THEOREM SamplesSpaced == Spec => []NoBurst
<1>1. PInv => NoBurst
  <2> SUFFICES ASSUME PInv, pc = "sample", Len(starts) = 2
               PROVE  starts[2] > Interval \/ starts[2] = MaxAge
    BY DEF NoBurst
  <2>1. ahead <= 0 /\ ahead \in Int /\ Interval \in Nat
    BY IntervalPositive, Zenon DEF PInv, PaceTypes, Pace
  <2>2. starts[2] \in Nat
    <3>1. starts \in Seq(Nat)
      BY Zenon DEF PInv, PaceTypes
    <3>2. \A i \in 1..Len(starts) : starts[i] \in Nat
      BY <3>1
    <3> QED BY <3>2
  <2>3. Older(2, Interval - ahead)
    BY DEF PInv, Pace, Waiting
  <2> QED BY <2>1, <2>2, <2>3 DEF Older
<1>2. Init => IInv /\ PInv
  BY InitInvariant, InitPace
<1>3. IInv /\ PInv /\ [Next]_vars => (IInv /\ PInv)'
  BY NextPreserves, NextPace
<1> QED BY <1>1, <1>2, <1>3, PTL DEF Spec

-----------------------------------------------------------------------------
(* The prefixes of the command line.  strtok_r leaves the first of them in  *)
(* argv, and the getopt loop appends it to what the file has listed.        *)

\* No configuration file fills the list of prefixes by itself.
FilesLeaveRoom == \A f \in Files : Len(f.prefixes) < MaxCommPrefix

\* No -P argument lists more than one prefix.
OnePrefixEach == \A a \in Argvs : Len(a.prefixes) <= 1

\* The first prefix of -P, if there is one, is one of those in effect.
FirstInEffect == given.prefixes # <<>> => given.prefixes[1] \in Range(cfg.prefixes)

FirstKept ==
    /\ given \in Argvs
    /\ given.prefixes # <<>> => argv.prefixes # <<>> /\ argv.prefixes[1] = given.prefixes[1]
    /\ pc \notin {"init_config", "aborted"} => FirstInEffect

\* config_add_proc_prefix takes at least one more prefix unless the list is full.
LEMMA FirstFits ==
    ASSUME NEW l \in Seq(STRING), NEW m \in Seq(STRING), m # <<>>, Len(l) < MaxCommPrefix
    PROVE  m[1] \in Range(AddPrefixes(l, m))
<1> DEFINE all == l \o m
           n == IF Len(all) < MaxCommPrefix THEN Len(all) ELSE MaxCommPrefix
           k == Len(l) + 1
<1>1. Len(m) >= 1
  OBVIOUS
<1>2. all \in Seq(STRING) /\ Len(all) = Len(l) + Len(m) /\ k \in 1..Len(all) /\ all[k] = m[1]
  BY <1>1
<1>3. AddPrefixes(l, m) = SubSeq(all, 1, n)
  BY Zenon DEF AddPrefixes
<1>4. n \in 0..Len(all) /\ k \in 1..n
  BY <1>1, <1>2, ConstantsAssumption
<1> HIDE DEF all, n, k
<1>5. /\ DOMAIN SubSeq(all, 1, n) = 1..n
      /\ SubSeq(all, 1, n)[k] = all[k]
  BY <1>2, <1>4
<1> QED BY <1>2, <1>3, <1>4, <1>5 DEF Range

\* The list that load_config_file leaves is no longer than the file's.
LEMMA FileLeavesRoom ==
    ASSUME FilesLeaveRoom, NEW f \in Files
    PROVE  Len(AddPrefixes(<<>>, f.prefixes)) < MaxCommPrefix
<1> DEFINE s == f.prefixes
<1>1. s \in Seq(STRING) /\ Len(s) < MaxCommPrefix
  BY ConstantsAssumption DEF FilesLeaveRoom, ConfigFile
<1> HIDE DEF s
<1>2. <<>> \o s = s
  BY <1>1
<1>3. AddPrefixes(<<>>, s) = SubSeq(s, 1, Len(s))
  BY <1>1, <1>2 DEF AddPrefixes
<1>4. Len(SubSeq(s, 1, Len(s))) = Len(s)
  BY <1>1
<1> QED BY <1>1, <1>3, <1>4 DEF s

\* init_agent_state puts the first prefix of argv into effect, and leaves it in argv.
LEMMA FirstRead ==
    ASSUME FilesLeaveRoom, IInv, FirstKept, init_config, pc' # "aborted"
    PROVE  FirstKept'
<1> DEFINE c == IF file.there THEN load_config_file(config_defaults, file)
                ELSE [config_defaults EXCEPT !.version = version]
<1>1. cfg' = getopt(c) /\ argv' = strtok(argv) /\ given' = given
  BY Zenon DEF init_config
<1>2. file \in Files /\ file \in ConfigFile /\ argv \in CommandLine /\ version \in Nat
  BY ConstantsAssumption, Zenon DEF IInv, Types
<1>3. c \in Config /\ Len(c.prefixes) < MaxCommPrefix
  <2>1. CASE file.there
    <3>1. c = load_config_file(config_defaults, file)
      BY <2>1, Zenon
    <3>2. load_config_file(config_defaults, file).prefixes = AddPrefixes(<<>>, file.prefixes)
      BY DEF load_config_file, config_defaults
    <3> HIDE DEF c
    <3>3. c \in Config
      BY <1>2, <3>1, FileRead, Defaults, Zenon DEF WellFormed
    <3>4. Len(c.prefixes) < MaxCommPrefix
      BY <1>2, <3>1, <3>2, FileLeavesRoom, Zenon
    <3> QED BY <3>3, <3>4
  <2>2. CASE ~file.there
    <3>1. c = [config_defaults EXCEPT !.version = version]
      BY <2>2, Zenon
    <3> HIDE DEF c
    <3>2. c \in Config
      BY <1>2, <3>1, Defaults DEF Config
    <3>3. c.prefixes = <<>>
      BY <3>1 DEF config_defaults
    <3> QED BY <3>2, <3>3, ConstantsAssumption
  <2> QED BY <2>1, <2>2, Zenon
<1> HIDE DEF c
<1>4. getopt(c).prefixes = AddPrefixes(c.prefixes, argv.prefixes)
  BY <1>3 DEF getopt, Config
<1>5. argv.prefixes \in Seq(STRING) /\ c.prefixes \in Seq(STRING)
  BY <1>2, <1>3 DEF CommandLine, Config
<1>6. ASSUME given.prefixes # <<>>
      PROVE  /\ argv'.prefixes # <<>> /\ argv'.prefixes[1] = given.prefixes[1]
             /\ given.prefixes[1] \in Range(cfg'.prefixes)
  <2>1. argv.prefixes # <<>> /\ argv.prefixes[1] = given.prefixes[1]
    BY <1>6 DEF FirstKept
  <2>2. argv'.prefixes = SubSeq(argv.prefixes, 1, 1)
    BY <1>1, <1>2, <2>1 DEF strtok, CommandLine
  <2>3. ASSUME NEW s \in Seq(STRING), s # <<>>
        PROVE  SubSeq(s, 1, 1) # <<>> /\ SubSeq(s, 1, 1)[1] = s[1]
    <3>1. Len(s) >= 1
      BY <2>3
    <3>2. Len(SubSeq(s, 1, 1)) = 1 /\ SubSeq(s, 1, 1)[1] = s[1]
      BY <2>3, <3>1
    <3>3. Len(<<>>) # 1
      OBVIOUS
    <3> QED BY <3>2, <3>3, Zenon
  <2>4. argv'.prefixes # <<>> /\ argv'.prefixes[1] = given.prefixes[1]
    BY <1>5, <2>1, <2>2, <2>3, Zenon
  <2>5. argv.prefixes[1] \in Range(AddPrefixes(c.prefixes, argv.prefixes))
    BY <1>3, <1>5, <2>1, FirstFits
  <2> QED BY <1>1, <1>4, <2>1, <2>4, <2>5, Zenon
<1> QED BY <1>1, <1>6, Zenon DEF FirstKept, FirstInEffect

LEMMA NextFirst == FilesLeaveRoom /\ IInv /\ FirstKept /\ [Next]_vars => FirstKept'
<1> SUFFICES ASSUME FilesLeaveRoom, IInv, FirstKept, [Next]_vars PROVE FirstKept'
  OBVIOUS
<1>1. CASE init_config
  <2>1. CASE pc' # "aborted"
    BY <1>1, <2>1, FirstRead
  <2>2. CASE pc' = "aborted"
    <3>1. UNCHANGED <<argv, given>>
      BY <1>1, <2>2, Zenon DEF init_config
    <3> QED BY <2>2, <3>1, Zenon DEF FirstKept
  <2> QED BY <2>1, <2>2
<1>2. CASE /\ UNCHANGED <<argv, given, cfg>>
           /\ pc' \in {"init_config", "aborted"} \/ pc \notin {"init_config", "aborted"}
  BY <1>2, Zenon DEF FirstKept, FirstInEffect
<1>3. CASE UNCHANGED <<argv, given, cfg, pc>>
  BY <1>3, Zenon DEF FirstKept, FirstInEffect
<1>4. Steps /\ ~init_config =>
          UNCHANGED <<argv, given, cfg>> /\ pc \notin {"init_config", "aborted"}
  BY DEF Steps, init_open, init_fails, first_sample, loop, reload, sample, wait_for_next_sample,
         test_flags, enter_sleep, wake, destroy
<1>5. clock_fails => UNCHANGED <<argv, given, cfg>> /\ pc \notin {"init_config", "aborted"}
  BY DEF clock_fails
<1>6. Signal => UNCHANGED <<argv, given, cfg>> /\ (pc' = pc \/ pc = "sleep")
  BY DEF Signal, handle_signal
<1>7. EditFile \/ Tick \/ Exited \/ UNCHANGED vars => UNCHANGED <<argv, given, cfg, pc>>
  BY DEF EditFile, Tick, Exited, vars
<1> QED BY <1>1, <1>2, <1>3, <1>4, <1>5, <1>6, <1>7 DEF Next

\* Over any number of reloads the first prefix given with -P stays in effect, if
\* no configuration file fills the list: what strtok_r loses from argv is the rest.
\* Where no -P lists more than one, the command line therefore wins.
THEOREM FirstPrefixWins ==
    FilesLeaveRoom =>
        (Spec => [](pc = "sample" => FirstInEffect /\ (OnePrefixEach => CommandLineWins)))
<1>1. IInv /\ FirstKept =>
          (pc = "sample" => FirstInEffect /\ (OnePrefixEach => CommandLineWins))
  <2> SUFFICES ASSUME FirstKept, pc = "sample"
               PROVE  FirstInEffect /\ (OnePrefixEach => CommandLineWins)
    OBVIOUS
  <2>1. FirstInEffect
    BY DEF FirstKept
  <2>2. ASSUME OnePrefixEach PROVE Range(given.prefixes) \subseteq Range(cfg.prefixes)
    <3>1. given.prefixes \in Seq(STRING) /\ Len(given.prefixes) <= 1
      BY <2>2, ConstantsAssumption DEF FirstKept, OnePrefixEach, CommandLine
    <3>2. ASSUME NEW s \in Seq(STRING), Len(s) <= 1, NEW x \in Range(s)
          PROVE  s # <<>> /\ x = s[1]
      BY <3>2 DEF Range
    <3> QED BY <2>1, <3>1, <3>2, Zenon DEF FirstInEffect
  <2> QED BY <2>1, <2>2 DEF CommandLineWins
<1>2. Init => IInv /\ FirstKept
  <2>1. Init => FirstKept
    BY DEF Init, FirstKept
  <2> QED BY <2>1, InitInvariant
<1>3. ASSUME FilesLeaveRoom
      PROVE  Spec => [](pc = "sample" => FirstInEffect /\ (OnePrefixEach => CommandLineWins))
  <2>1. IInv /\ FirstKept /\ [Next]_vars => (IInv /\ FirstKept)'
    BY <1>3, NextPreserves, NextFirst
  <2> QED BY <1>1, <1>2, <2>1, PTL DEF Spec
<1> QED BY <1>3
=============================================================================
