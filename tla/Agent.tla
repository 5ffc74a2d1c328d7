-------------------------------- MODULE Agent --------------------------------
(***************************************************************************)
(* src/agent/src/main.c: the configuration sources, the sampling loop with *)
(* its deadlines, and the signals that stop or reload the agent.           *)
(*                                                                         *)
(* A signal handler may run between any two steps.  Time is counted in     *)
(* ticks, TicksPerSec to the second, and kept relative to now: `ahead' is  *)
(* next_sample - now, and `starts' holds the ages of the last two samples. *)
(***************************************************************************)
EXTENDS Naturals, Integers, Sequences, Functions

CONSTANTS
    Argvs,           \* command lines
    Files,           \* contents of the configuration file
    MaxCommPrefix,   \* TF_MAX_COMM_PREFIX
    SeqMod,          \* 2^32: seq is a uint32_t
    TicksPerSec,
    MaxEdits,        \* bound: changes of the configuration file
    MaxLate,         \* bound: ticks by which a sample may miss its deadline
    MaxAge           \* bound: ages of samples are not told apart beyond this

NoOption == -1       \* an option or a key that is not given
NoFile == [interval |-> NoOption, top_n |-> NoOption, prefixes |-> <<>>, there |-> FALSE]

DefaultInterval == 5
DefaultTopN == 5
MaxTopN == 7
MaxInterval == 65535         \* the interval is a uint16_t

CommandLine ==
    [interval : Nat \cup {NoOption}, prefixes : Seq(STRING), config : BOOLEAN]
ConfigFile ==
    [interval : Int, top_n : Int, prefixes : Seq(STRING), there : BOOLEAN]

ASSUME ConstantsAssumption ==
    /\ MaxCommPrefix \in Nat \ {0} /\ SeqMod \in Nat \ {0} /\ TicksPerSec \in Nat \ {0}
    /\ MaxEdits \in Nat /\ MaxLate \in Nat /\ MaxAge \in Nat \ {0}
    /\ Argvs \subseteq CommandLine /\ \A a \in Argvs : IsInjective(a.prefixes)
    /\ Files \subseteq ConfigFile

VARIABLES
    pc,              \* where main is
    keep_running, reload_config_flag,
    argv,            \* the command line, which getopt and strtok_r work on in place
    given,           \* history: the command line the agent was started with
    file, version,   \* the configuration file, and how often it has been edited
    wanted,          \* history: version at the last SIGHUP
    cfg,             \* agent_config, with the version of the file it was read from
    handles,         \* open sockets and log files
    seq, ahead, starts

clock == <<ahead, starts>>
vars == <<pc, keep_running, reload_config_flag, argv, given, file, version, wanted,
          cfg, handles, seq, clock>>

config_defaults ==
    [interval |-> DefaultInterval, top_n |-> DefaultTopN, prefixes |-> <<>>, version |-> 0]

Init ==
    /\ pc = "init_config"
    /\ keep_running = TRUE /\ reload_config_flag = FALSE
    /\ argv \in Argvs /\ given = argv
    /\ file \in Files /\ version = 0 /\ wanted = 0
    /\ cfg = config_defaults
    /\ handles = 0 /\ seq = 0 /\ ahead = 0 /\ starts = <<>>

-----------------------------------------------------------------------------
(* Configuration.                                                          *)

\* config_add_proc_prefix, for a list: what does not fit is ignored.
AddPrefixes(list, more) ==
    LET all == list \o more
    IN  SubSeq(all, 1, IF Len(all) < MaxCommPrefix THEN Len(all) ELSE MaxCommPrefix)

\* load_config_file: a value out of its range leaves the one before.
load_config_file(c, f) ==
    [c EXCEPT !.interval = IF f.interval \in 1..MaxInterval THEN f.interval ELSE @,
              !.top_n = IF f.top_n \in 1..MaxTopN THEN f.top_n ELSE @,
              !.prefixes = AddPrefixes(@, f.prefixes),
              !.version = version]

\* Mutant: does not turn a zero interval into one second.
getoptNoClamp(c) ==
    [c EXCEPT !.interval = IF argv.interval = NoOption THEN @ ELSE argv.interval % 65536,
              !.prefixes = AddPrefixes(@, argv.prefixes)]

\* The getopt loop: -i is cast to uint16_t, and 0 becomes 1.
getopt(c) ==
    [c EXCEPT !.interval = IF argv.interval = NoOption THEN @
                           ELSE IF argv.interval % 65536 = 0 THEN 1
                           ELSE argv.interval % 65536,
              !.prefixes = AddPrefixes(@, argv.prefixes)]

\* strtok_r ends the -P argument after its first prefix, in argv itself.
strtok(a) == [a EXCEPT !.prefixes = SubSeq(@, 1, IF @ = <<>> THEN 0 ELSE 1)]

\* init_agent_state up to the collectors.  A file named by -c must be there.
init_config ==
    /\ pc = "init_config"
    /\ IF argv.config /\ ~file.there
         THEN pc' = "aborted" /\ UNCHANGED <<cfg, argv>>
         ELSE /\ cfg' = getopt(IF file.there THEN load_config_file(config_defaults, file)
                               ELSE [config_defaults EXCEPT !.version = version])
              /\ argv' = strtok(argv)
              /\ pc' = "init_open"
    /\ UNCHANGED <<keep_running, reload_config_flag, given, file, version, wanted,
                   handles, seq, clock>>

\* Mutant: clears the flag when the reload is complete.
init_openClears ==
    /\ pc = "init_open"
    /\ handles' = handles + 1
    /\ pc' = "first"
    /\ reload_config_flag' = FALSE
    /\ UNCHANGED <<keep_running, argv, given, file, version, wanted, cfg, seq, clock>>

\* init_agent_state: the collectors and the socket or log file.
init_open ==
    /\ pc = "init_open"
    /\ handles' = handles + 1
    /\ pc' = "first"
    /\ UNCHANGED <<keep_running, reload_config_flag, argv, given, file, version,
                   wanted, cfg, seq, clock>>

\* A collector, fopen, resolve_addr or socket fails: main returns 1, at a reload
\* as at the start, and closes nothing.
init_fails ==
    /\ pc = "init_open"
    /\ pc' = "aborted"
    /\ UNCHANGED <<keep_running, reload_config_flag, argv, given, file, version,
                   wanted, cfg, handles, seq, clock>>

-----------------------------------------------------------------------------
(* main                                                                    *)

\* main takes the time of the first sample.
first_sample ==
    /\ pc = "first"
    /\ ahead' = 0 /\ starts' = <<>>
    /\ pc' = "loop"
    /\ UNCHANGED <<keep_running, reload_config_flag, argv, given, file, version,
                   wanted, cfg, handles, seq>>

\* clock_gettime or clock_nanosleep fails, other than with EINTR.
clock_fails ==
    /\ pc \in {"first", "wait", "sleep"}
    /\ pc' = "destroy"
    /\ UNCHANGED <<keep_running, reload_config_flag, argv, given, file, version,
                   wanted, cfg, handles, seq, clock>>

\* while (keep_running) { if (reload_config_flag) ...
loop ==
    /\ pc = "loop"
    /\ pc' = IF ~keep_running THEN "destroy"
             ELSE IF reload_config_flag THEN "reload" ELSE "sample"
    /\ UNCHANGED <<keep_running, reload_config_flag, argv, given, file, version,
                   wanted, cfg, handles, seq, clock>>

\* Mutant: does not close what init_agent_state is about to open again.
reloadNoDestroy ==
    /\ pc = "reload"
    /\ reload_config_flag' = FALSE
    /\ pc' = "init_config"
    /\ UNCHANGED <<keep_running, argv, given, file, version, wanted, cfg, handles,
                   seq, clock>>

\* Mutant: a reload starts the agent afresh, with keep_running set.
reloadRestarts ==
    /\ pc = "reload"
    /\ reload_config_flag' = FALSE
    /\ keep_running' = TRUE
    /\ handles' = handles - 1
    /\ pc' = "init_config"
    /\ UNCHANGED <<argv, given, file, version, wanted, cfg, seq, clock>>

\* The flag is cleared before anything is read.
reload ==
    /\ pc = "reload"
    /\ reload_config_flag' = FALSE
    /\ handles' = handles - 1          \* destroy_agent_state
    /\ pc' = "init_config"
    /\ UNCHANGED <<keep_running, argv, given, file, version, wanted, cfg, seq,
                   clock>>

\* Collect, assemble the frame, and number it.
sample ==
    /\ pc = "sample"
    /\ seq' = (seq + 1) % SeqMod
    /\ starts' = IF starts = <<>> THEN <<0>> ELSE <<0, starts[1]>>
    /\ pc' = "wait"
    /\ UNCHANGED <<keep_running, reload_config_flag, argv, given, file, version,
                   wanted, cfg, handles, ahead>>

Interval == cfg.interval * TicksPerSec

\* Mutant: keeps a deadline that has already passed.
wait_for_next_sampleCatchUp ==
    /\ pc = "wait"
    /\ ahead' = ahead + Interval
    /\ pc' = "test"
    /\ UNCHANGED <<keep_running, reload_config_flag, argv, given, file, version,
                   wanted, cfg, handles, seq, starts>>

\* wait_for_next_sample: the next deadline, or one interval from now if that
\* has already passed.
wait_for_next_sample ==
    /\ pc = "wait"
    /\ ahead' = IF ahead + Interval <= 0 THEN Interval ELSE ahead + Interval
    /\ pc' = "test"
    /\ UNCHANGED <<keep_running, reload_config_flag, argv, given, file, version,
                   wanted, cfg, handles, seq, starts>>

\* while (keep_running && !reload_config_flag); a signal that comes after the
\* test and before clock_nanosleep does not interrupt the sleep.
test_flags ==
    /\ pc = "test"
    /\ pc' = IF keep_running /\ ~reload_config_flag THEN "to_sleep" ELSE "loop"
    /\ UNCHANGED <<keep_running, reload_config_flag, argv, given, file, version,
                   wanted, cfg, handles, seq, clock>>

enter_sleep ==
    /\ pc = "to_sleep"
    /\ pc' = "sleep"
    /\ UNCHANGED <<keep_running, reload_config_flag, argv, given, file, version,
                   wanted, cfg, handles, seq, clock>>

\* clock_nanosleep returns 0, not before the deadline.
wake ==
    /\ pc = "sleep"
    /\ ahead <= 0
    /\ pc' = "loop"
    /\ UNCHANGED <<keep_running, reload_config_flag, argv, given, file, version,
                   wanted, cfg, handles, seq, clock>>

\* destroy_agent_state, and return 0.
destroy ==
    /\ pc = "destroy"
    /\ handles' = handles - 1
    /\ pc' = "exited"
    /\ UNCHANGED <<keep_running, reload_config_flag, argv, given, file, version,
                   wanted, cfg, seq, clock>>

Steps ==
    \/ init_config \/ init_open \/ init_fails \/ first_sample \/ loop \/ reload
    \/ sample \/ wait_for_next_sample \/ test_flags \/ enter_sleep \/ wake
    \/ destroy

-----------------------------------------------------------------------------
(* The rest of the world.                                                  *)

Gone == {"exited", "aborted"}

\* handle_signal; clock_nanosleep returns EINTR.
handle_signal(sig) ==
    /\ pc \notin Gone
    /\ IF sig = "SIGHUP"
         THEN /\ reload_config_flag' = TRUE
              /\ wanted' = version
              /\ UNCHANGED keep_running
         ELSE /\ keep_running' = FALSE
              /\ UNCHANGED <<reload_config_flag, wanted>>
    /\ pc' = IF pc = "sleep" THEN "test" ELSE pc
    /\ UNCHANGED <<argv, given, file, version, cfg, handles, seq, clock>>

Signal == \E sig \in {"SIGHUP", "SIGTERM"} : handle_signal(sig)

EditFile ==
    /\ pc \notin Gone
    /\ version < MaxEdits
    /\ file' \in Files
    /\ version' = version + 1
    /\ UNCHANGED <<pc, keep_running, reload_config_flag, argv, given, wanted, cfg,
                   handles, seq, clock>>

Tick ==
    /\ pc \notin Gone
    /\ ahead > -MaxLate
    /\ ahead' = ahead - 1
    /\ starts' = [i \in DOMAIN starts |-> IF starts[i] < MaxAge THEN starts[i] + 1
                                          ELSE MaxAge]
    /\ UNCHANGED <<pc, keep_running, reload_config_flag, argv, given, file, version,
                   wanted, cfg, handles, seq>>

Exited == pc \in Gone /\ UNCHANGED vars

Next == Steps \/ clock_fails \/ Signal \/ EditFile \/ Tick \/ Exited

Spec == Init /\ [][Next]_vars

\* The process is scheduled and time passes; no signal need ever come, and the
\* clock never need fail.
FairSpec == Spec /\ WF_vars(Steps) /\ WF_vars(Tick)

-----------------------------------------------------------------------------
(* Properties.                                                             *)

\* Every variable has its type; an interval is never zero, whichever source it
\* came from, so that the loop never spins.
TypeOK ==
    /\ pc \in Gone \cup {"init_config", "init_open", "first", "loop", "reload", "sample",
                         "wait", "test", "to_sleep", "sleep", "destroy"}
    /\ keep_running \in BOOLEAN /\ reload_config_flag \in BOOLEAN
    /\ argv.config = given.config /\ argv.interval = given.interval
    /\ file \in Files /\ version \in 0..MaxEdits
    /\ wanted \in 0..version /\ cfg.version \in 0..version
    /\ cfg.interval \in 1..MaxInterval /\ cfg.top_n \in 1..MaxTopN
    /\ Len(cfg.prefixes) <= MaxCommPrefix
    /\ seq \in 0..(SeqMod - 1) /\ ahead \in Int

\* A SIGHUP is never lost to a reload that is already under way: unless one is
\* pending or running, the configuration in use is at least as recent as the
\* file was at the last SIGHUP.
NoStaleConfig ==
    \/ reload_config_flag
    \/ pc \in {"reload", "init_config"} \cup Gone
    \/ cfg.version >= wanted

\* main.c samples with exactly one socket or log file open, however often it
\* has been reloaded, and leaves none open when it ends well.
OneOutput ==
    /\ handles \in {0, 1}
    /\ pc \in {"sample", "wait", "test", "to_sleep", "sleep"} => handles = 1
    /\ pc = "exited" => handles = 0

\* A sample that was late is not followed by a burst: when a sample begins, the last
\* but one lies more than one interval back, even if every deadline is missed.
NoBurst == pc = "sample" /\ Len(starts) = 2 => starts[2] > Interval \/ starts[2] = MaxAge

\* A SIGHUP leads to a reload or to the end of the agent, even if it comes
\* between the test of the flag and clock_nanosleep.
ReloadHappens == reload_config_flag ~> pc \in {"init_config"} \cup Gone

\* SIGINT and SIGTERM end the agent, even during a reload.
StopHappens == ~keep_running ~> pc \in Gone

\* README: the command line has the highest priority.  The prefixes of -P are
\* in effect whenever the agent samples.
CommandLineWins ==
    pc = "sample" => Range(given.prefixes) \subseteq Range(cfg.prefixes)
=============================================================================
