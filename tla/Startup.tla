------------------------------ MODULE Startup ------------------------------
(***************************************************************************)
(* What happens before the threads start: parse_args (src/main.c), then    *)
(* load_config_file on the YAML file (src/config.c), then either           *)
(* validate_config or output_init (src/output.c), and the exit code of     *)
(* every way out.                                                          *)
(*                                                                         *)
(* Options and lines come one at a time in any order, as often as one      *)
(* likes; each is told by what the code does with it.  A text field is     *)
(* told by whether it is empty.  Lines that are blank or comments, and     *)
(* options and keys that set nothing the steps told here look at, leave    *)
(* the state alone; the retry settings are the constants of HttpOutput and *)
(* RetryBackoff.                                                           *)
(***************************************************************************)
EXTENDS Integers

CONSTANTS Metrics,     \* cpu, memory, disk and network
          MaxNumber    \* bound of the model: numbers in options and lines

ASSUME NumberAssumption == MaxNumber \in Nat \ {0}

OutputTypes == {"stdout", "file", "http_post"}
Sections == {"none", "output", "collect", "log"}
Numbers == 0 .. MaxNumber
Environments == {"unset", "empty", "set"}

VARIABLES phase,      \* args, load, validate, init, running or exited
          exit_code,  \* what main returned, or -1
          cfg,        \* the part of syswatch_config_t that is looked at
          hidden,     \* the metrics the command line switched off
          section,    \* load_config_file's section; "unread" before it is called
          env,        \* PULSE_RECEIVER_URL
          g_output    \* what output_init left: mode, output_url, batch parameters

vars == <<phase, exit_code, cfg, hidden, section, env, g_output>>

Config == [interval_sec : Numbers \ {0}, show : SUBSET Metrics, show_processes : BOOLEAN,
           config_path : BOOLEAN, validate_only : BOOLEAN,
           output_type : OutputTypes, output_url : BOOLEAN, output_path : BOOLEAN,
           batch_size : Numbers, batch_interval : Numbers]

Output == [mode : OutputTypes, output_url : BOOLEAN, batch_size : Nat, batch_interval : Nat]

TypeOK ==
    /\ phase \in {"args", "load", "validate", "init", "running", "exited"}
    /\ exit_code \in -1 .. 4
    /\ cfg \in Config
    /\ hidden \subseteq Metrics
    /\ section \in Sections \cup {"unread"}
    /\ env \in Environments
    /\ g_output \in Output
-----------------------------------------------------------------------------
(* batch_size and batch_interval 0 mean that no line has set them. *)
init_default_config ==
    [interval_sec |-> 1, show |-> Metrics, show_processes |-> FALSE,
     config_path |-> FALSE, validate_only |-> FALSE,
     output_type |-> "stdout", output_url |-> FALSE, output_path |-> FALSE,
     batch_size |-> 0, batch_interval |-> 0]

Init ==
    /\ phase = "args" /\ exit_code = -1
    /\ cfg = init_default_config
    /\ hidden = {}
    /\ section = "unread"
    /\ env \in Environments
    /\ g_output = [mode |-> "stdout", output_url |-> FALSE, batch_size |-> 0, batch_interval |-> 0]

Return(code) ==
    /\ phase' = "exited"
    /\ exit_code' = code
    /\ UNCHANGED <<cfg, hidden, section, env, g_output>>

Goto(p) ==
    /\ phase' = p
    /\ UNCHANGED <<exit_code, cfg, hidden, section, env, g_output>>

Bug_InRange(n) == n >= 0

(* The ranges of parse_int_in_range and parse_int_value, less their upper ends. *)
InRange(n) == n >= 1
-----------------------------------------------------------------------------
(* An option: cfg and the record of hidden metrics change, nothing else. *)
Option(newcfg, newhidden) ==
    /\ phase = "args"
    /\ cfg' = newcfg
    /\ hidden' = newhidden
    /\ UNCHANGED <<phase, exit_code, section, env, g_output>>

OptInterval(n) ==
    IF InRange(n) THEN Option([cfg EXCEPT !.interval_sec = n], hidden)
                  ELSE phase = "args" /\ Return(1)

OptHide(m) == Option([cfg EXCEPT !.show = @ \ {m}], hidden \cup {m})

OptProcesses == Option([cfg EXCEPT !.show_processes = TRUE], hidden)

OptConfig == Option([cfg EXCEPT !.config_path = TRUE], hidden)

OptValidate == Option([cfg EXCEPT !.validate_only = TRUE], hidden)

(* --help and --version call exit(0); a bad option or value is refused. *)
OptExit == phase = "args" /\ \E code \in {0, 1} : Return(code)

AllDisabled(c) == c.show = {} /\ ~c.show_processes

(* The end of the options: positional is their number.  --validate-config  *)
(* takes one as its path; any other is refused.                            *)
ArgsDone(positional) ==
    LET takes == cfg.validate_only /\ ~cfg.config_path /\ positional > 0
        left == IF takes THEN positional - 1 ELSE positional
        given == cfg.config_path \/ takes
    IN  /\ phase = "args"
        /\ IF left > 0 \/ AllDisabled(cfg) \/ ~given
             THEN Return(1)
             ELSE /\ phase' = "load"
                  /\ cfg' = [cfg EXCEPT !.config_path = given]
                  /\ section' = "none"
                  /\ UNCHANGED <<exit_code, hidden, env, g_output>>

parse_args ==
    \/ \E n \in Numbers : OptInterval(n)
    \/ \E m \in Metrics : OptHide(m)
    \/ OptProcesses \/ OptConfig \/ OptValidate \/ OptExit
    \/ \E positional \in 0 .. 2 : ArgsDone(positional)
-----------------------------------------------------------------------------
(* A line that sets a field; fields set by earlier lines are overwritten,  *)
(* and so are those set by options.                                        *)
Set(newcfg, newsection) ==
    /\ phase = "load"
    /\ cfg' = newcfg
    /\ section' = newsection
    /\ UNCHANGED <<phase, exit_code, hidden, env, g_output>>

SetNumber(field, n, newsection) ==
    IF InRange(n) THEN Set([cfg EXCEPT ![field] = n], newsection)
                  ELSE phase = "load" /\ Return(2)

(* A section header: no indent, no value. *)
LineSection(s) == Set(cfg, s)

(* A scalar without indent closes the section, valid or not. *)
set_scalar_top_level ==
    \/ \E n \in Numbers : SetNumber("interval_sec", n, "none")
    \/ Set(cfg, "none")

set_output_key ==
    /\ section = "output"
    /\ \/ \E t \in OutputTypes : Set([cfg EXCEPT !.output_type = t], section)
       \/ \E text \in BOOLEAN, field \in {"output_url", "output_path"} :
            Set([cfg EXCEPT ![field] = text], section)
       \/ \E n \in Numbers, field \in {"batch_size", "batch_interval"} :
            SetNumber(field, n, section)

set_collect_key ==
    /\ section = "collect"
    /\ \/ \E m \in Metrics :
            \/ Set([cfg EXCEPT !.show = @ \cup {m}], section)
            \/ Set([cfg EXCEPT !.show = @ \ {m}], section)
       \/ \E flag \in BOOLEAN : Set([cfg EXCEPT !.show_processes = flag], section)

(* No file, a wrong indent, no colon, a nested key with no section, an     *)
(* unknown key or a value that does not parse.  A value of log is checked  *)
(* here and never used.                                                    *)
LoadFails == phase = "load" /\ Return(2)

LoadDone == phase = "load" /\ Goto(IF cfg.validate_only THEN "validate" ELSE "init")

load_config_file ==
    \/ \E s \in {"output", "collect", "log"} : LineSection(s)
    \/ set_scalar_top_level \/ set_output_key \/ set_collect_key
    \/ LoadFails \/ LoadDone
-----------------------------------------------------------------------------
(* The path of file output is not asked for. *)
Bug_validate_config(c) ==
    c.output_type = "http_post" => c.output_url /\ c.batch_size > 0 /\ c.batch_interval > 0

(* The version, the interval and the log fields were checked line by line  *)
(* and cannot fail here.                                                   *)
validate_config(c) ==
    /\ c.output_type = "file" => c.output_path
    /\ c.output_type = "http_post" =>
         c.output_url /\ c.batch_size > 0 /\ c.batch_interval > 0

Bug_Validate ==
    /\ phase = "validate"
    /\ IF validate_config(cfg) THEN Goto("init") ELSE Return(3)

Validate ==
    /\ phase = "validate"
    /\ Return(IF validate_config(cfg) THEN 0 ELSE 3)

Bug_OutputRefused(c) == c.output_type = "file" /\ ~c.output_path

(* What output_init has against a configuration. *)
OutputRefused(c) ==
    \/ c.output_type = "file" /\ ~c.output_path
    \/ c.output_type = "http_post" /\ ~c.output_url /\ env = "unset"

(* The variable alone is looked at. *)
Bug_UrlOf(c) == c.output_type = "http_post" /\ env = "set"

(* The url of http_post: the variable is taken instead of the file's, also *)
(* when it is empty.                                                       *)
UrlOf(c) ==
    /\ c.output_type = "http_post"
    /\ IF env = "unset" THEN c.output_url ELSE env = "set"

(* The file, libcurl or the batch array may let it down as well. *)
output_init ==
    /\ phase = "init"
    /\ \/ (OutputRefused(cfg) \/ cfg.output_type # "stdout") /\ Return(4)
       \/ /\ ~OutputRefused(cfg)
          /\ phase' = "running"
          /\ g_output' = [mode |-> cfg.output_type,
                          output_url |-> UrlOf(cfg),
                          batch_size |-> IF cfg.batch_size > 0 THEN cfg.batch_size ELSE 50,
                          batch_interval |->
                            IF cfg.batch_interval > 0 THEN cfg.batch_interval ELSE 2]
          /\ UNCHANGED <<exit_code, cfg, hidden, section, env>>

Finished == phase \in {"running", "exited"} /\ UNCHANGED vars

Next == parse_args \/ load_config_file \/ Validate \/ output_init \/ Finished

Spec == Init /\ [][Next]_vars
-----------------------------------------------------------------------------
(***************************************************************************)
(* A file that --validate-config accepts is not refused by output_init     *)
(* when the same file is used to run, whatever order its lines come in and *)
(* whatever the environment holds.                                         *)
(***************************************************************************)
ValidatedConfigRuns == phase = "init" /\ validate_config(cfg) => ~OutputRefused(cfg)

(***************************************************************************)
(* The backend that runs is the one last asked for; it has a path, or a    *)
(* URL unless the environment holds an empty one, and its batch parameters *)
(* are positive even where no line has set them, as http_post_batch and    *)
(* maybe_flush_http_batch need.                                            *)
(***************************************************************************)
RunningBackendUsable ==
    phase = "running" =>
        /\ g_output.mode = cfg.output_type
        /\ g_output.mode = "file" => cfg.output_path
        /\ g_output.mode = "http_post" /\ env # "empty" => g_output.output_url
        /\ g_output.batch_size > 0 /\ g_output.batch_interval > 0

(***************************************************************************)
(* "--validate-config parses and exits without running, returning non-zero *)
(* on invalid" (docs/CONTRACT.md): no output is opened, and a run that got *)
(* as far as the file returns 0 only for a valid one.                      *)
(***************************************************************************)
ValidateOnlyNeverRuns ==
    /\ cfg.validate_only => phase \notin {"init", "running"}
    /\ section # "unread" /\ exit_code = 0 => validate_config(cfg)
-----------------------------------------------------------------------------
(***************************************************************************)
(* What parse_args established is still so when the program runs: a metric *)
(* hidden by an option is hidden ("--no-cpu  Hide CPU columns"), and not   *)
(* everything is switched off ("All columns are disabled. Enable at least  *)
(* one metric.").                                                          *)
(***************************************************************************)
OptionsHold ==
    phase = "running" => hidden \cap cfg.show = {} /\ ~AllDisabled(cfg)
=============================================================================
