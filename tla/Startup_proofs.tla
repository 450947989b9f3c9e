--------------------------- MODULE Startup_proofs ---------------------------
(***************************************************************************)
(* Proofs about Startup, for every set of metrics and every range of       *)
(* numbers: its types, and the three promises made between the options,    *)
(* the configuration file and the output backend.                          *)
(***************************************************************************)
EXTENDS Startup, TLAPS

(* Every option, line and check leaves the fields it may set in range:     *)
(* parse_int_in_range and parse_int_value refuse what is not.              *)
LEMMA TypeStep == TypeOK /\ [Next]_vars => TypeOK'
<1> SUFFICES ASSUME TypeOK, [Next]_vars PROVE TypeOK'
  OBVIOUS
<1> USE NumberAssumption DEF TypeOK, Numbers
<1>a. ASSUME NEW code \in -1 .. 4, Return(code) PROVE TypeOK'
  BY <1>a DEF Return
<1>b. ASSUME NEW c \in Config, NEW h \in SUBSET Metrics, Option(c, h) PROVE TypeOK'
  BY <1>b DEF Option
<1>c. ASSUME NEW c \in Config, NEW s \in Sections, Set(c, s) PROVE TypeOK'
  BY <1>c DEF Set
<1>1. CASE parse_args
  <2>1. ASSUME NEW n \in Numbers, OptInterval(n) PROVE TypeOK'
    <3>1. CASE InRange(n)
      <4>1. [cfg EXCEPT !.interval_sec = n] \in Config
        BY <3>1 DEF InRange, Config
      <4>2. QED
        BY <2>1, <3>1, <4>1, <1>b DEF OptInterval
    <3>2. CASE ~InRange(n)
      BY <2>1, <3>2, <1>a DEF OptInterval
    <3>3. QED
      BY <3>1, <3>2
  <2>2. ASSUME NEW m \in Metrics, OptHide(m) PROVE TypeOK'
    <3>1. [cfg EXCEPT !.show = @ \ {m}] \in Config
      BY DEF Config
    <3>2. QED
      BY <2>2, <3>1, <1>b DEF OptHide
  <2>3. CASE OptProcesses \/ OptConfig \/ OptValidate
    <3>1. /\ [cfg EXCEPT !.show_processes = TRUE] \in Config
          /\ [cfg EXCEPT !.config_path = TRUE] \in Config
          /\ [cfg EXCEPT !.validate_only = TRUE] \in Config
      BY DEF Config
    <3>2. QED
      BY <2>3, <3>1, <1>b DEF OptProcesses, OptConfig, OptValidate
  <2>4. CASE OptExit
    BY <2>4, <1>a DEF OptExit
  <2>5. ASSUME NEW positional \in 0 .. 2, ArgsDone(positional) PROVE TypeOK'
    <3>1. ASSUME NEW given \in BOOLEAN PROVE [cfg EXCEPT !.config_path = given] \in Config
      BY DEF Config
    <3>2. cfg.config_path \in BOOLEAN /\ cfg.validate_only \in BOOLEAN
      BY DEF Config
    <3>3. CASE Return(1)
      BY <3>3, <1>a
    <3>4. CASE phase' = "load"
      <4>1. /\ UNCHANGED <<exit_code, hidden, env, g_output>>
            /\ section' = "none"
            /\ \E given \in BOOLEAN : cfg' = [cfg EXCEPT !.config_path = given]
        BY <2>5, <3>2, <3>4 DEF ArgsDone, Return
      <4>2. QED
        BY <3>1, <3>4, <4>1 DEF Sections
    <3>5. QED
      BY <2>5, <3>3, <3>4 DEF ArgsDone
  <2>6. QED
    BY <1>1, <2>1, <2>2, <2>3, <2>4, <2>5 DEF parse_args
<1>2. CASE load_config_file
  <2> USE DEF Sections
  <2>0. ASSUME NEW n \in Numbers, NEW f \in {"interval_sec", "batch_size", "batch_interval"},
               NEW s \in Sections, SetNumber(f, n, s)
        PROVE  TypeOK'
    <3>1. CASE InRange(n)
      <4>1. [cfg EXCEPT ![f] = n] \in Config
        BY <3>1 DEF InRange, Config
      <4>2. QED
        BY <2>0, <3>1, <4>1, <1>c DEF SetNumber
    <3>2. CASE ~InRange(n)
      BY <2>0, <3>2, <1>a DEF SetNumber
    <3>3. QED
      BY <3>1, <3>2
  <2>1. ASSUME NEW s \in {"output", "collect", "log"}, LineSection(s) PROVE TypeOK'
    BY <2>1, <1>c DEF LineSection
  <2>2. CASE set_scalar_top_level
    BY <2>0, <2>2, <1>c DEF set_scalar_top_level
  <2>3. CASE set_output_key
    <3>1. ASSUME NEW t \in OutputTypes PROVE [cfg EXCEPT !.output_type = t] \in Config
      BY DEF Config
    <3>2. ASSUME NEW text \in BOOLEAN, NEW f \in {"output_url", "output_path"}
          PROVE  [cfg EXCEPT ![f] = text] \in Config
      BY DEF Config
    <3>3. QED
      BY <2>0, <2>3, <3>1, <3>2, <1>c DEF set_output_key
  <2>4. CASE set_collect_key
    <3>1. ASSUME NEW m \in Metrics
          PROVE  [cfg EXCEPT !.show = @ \cup {m}] \in Config /\ [cfg EXCEPT !.show = @ \ {m}] \in Config
      BY DEF Config
    <3>2. ASSUME NEW flag \in BOOLEAN PROVE [cfg EXCEPT !.show_processes = flag] \in Config
      BY DEF Config
    <3>3. QED
      BY <2>4, <3>1, <3>2, <1>c DEF set_collect_key
  <2>5. CASE LoadFails
    BY <2>5, <1>a DEF LoadFails
  <2>6. CASE LoadDone
    BY <2>6 DEF LoadDone, Goto
  <2>7. QED
    BY <1>2, <2>1, <2>2, <2>3, <2>4, <2>5, <2>6 DEF load_config_file
<1>3. CASE Validate
  BY <1>3, <1>a DEF Validate
<1>4. CASE output_init
  <2>1. CASE Return(4)
    BY <2>1, <1>a
  <2>2. CASE phase' = "running"
    <3>1. cfg.output_type \in OutputTypes /\ cfg.batch_size \in Nat /\ cfg.batch_interval \in Nat
      BY DEF Config
    <3>a. UrlOf(cfg) \in BOOLEAN
      BY DEF Config, UrlOf
    <3>2. g_output' \in Output
      BY <1>4, <2>2, <3>1, <3>a DEF output_init, Output, Return
    <3>3. QED
      BY <1>4, <2>2, <3>2 DEF output_init, Return
  <2>3. QED
    BY <1>4, <2>1, <2>2 DEF output_init
<1>5. CASE Finished \/ UNCHANGED vars
  BY <1>5 DEF Finished, vars
<1>6. QED
  BY <1>1, <1>2, <1>3, <1>4, <1>5 DEF Next

(***************************************************************************)
(* Whatever options and lines come, in whatever order, the configuration   *)
(* and the backend's settings stay within their types.                     *)
(***************************************************************************)
THEOREM TypeCorrect == Spec => []TypeOK
<1>1. Init => TypeOK
  BY NumberAssumption
     DEF Init, TypeOK, init_default_config, Config, Output, OutputTypes, Numbers, Sections, Environments
<1>2. QED
  BY <1>1, TypeStep, PTL DEF Spec

-----------------------------------------------------------------------------
(* What --validate-config relies on: options are over when the file is     *)
(* read, exit codes are only set on the way out, and the output is only    *)
(* initialised without the option.                                         *)
PhaseInv ==
    /\ phase = "args" => section = "unread"
    /\ exit_code = -1 <=> phase # "exited"
    /\ phase \in {"init", "running"} => ~cfg.validate_only

(* The whole inductive invariant on top of TypeOK. *)
StartupInv == PhaseInv /\ RunningBackendUsable /\ ValidateOnlyNeverRuns

(* A line of the file leaves the options, and with them validate_only, alone. *)
LEMMA LoadStep ==
    ASSUME TypeOK, StartupInv, load_config_file
    PROVE  StartupInv'
<1> USE DEF TypeOK, StartupInv, PhaseInv, RunningBackendUsable, ValidateOnlyNeverRuns
<1>a. ASSUME phase = "load", Return(2) PROVE StartupInv'
  BY <1>a DEF Return
<1>b. ASSUME NEW c, NEW s, Set(c, s), c.validate_only = cfg.validate_only PROVE StartupInv'
  BY <1>b DEF Set
<1>c. ASSUME NEW f \in {"interval_sec", "show", "show_processes", "output_type", "output_url",
                        "output_path", "batch_size", "batch_interval"}, NEW v
      PROVE  [cfg EXCEPT ![f] = v].validate_only = cfg.validate_only
  BY DEF Config
<1>d. ASSUME NEW f \in {"interval_sec", "batch_size", "batch_interval"}, NEW n, NEW s,
             SetNumber(f, n, s)
      PROVE  StartupInv'
  <2>1. CASE Set([cfg EXCEPT ![f] = n], s)
    BY <2>1, <1>b, <1>c
  <2>2. CASE phase = "load" /\ Return(2)
    BY <2>2, <1>a
  <2>3. QED
    BY <1>d, <2>1, <2>2 DEF SetNumber
<1>1. ASSUME NEW s \in {"output", "collect", "log"}, LineSection(s) PROVE StartupInv'
  BY <1>1, <1>b DEF LineSection
<1>2. CASE set_scalar_top_level
  BY <1>2, <1>b, <1>d DEF set_scalar_top_level
<1>3. CASE set_output_key
  <2>1. ASSUME NEW t \in OutputTypes, Set([cfg EXCEPT !.output_type = t], section)
        PROVE  StartupInv'
    BY <2>1, <1>b, <1>c
  <2>2. ASSUME NEW text \in BOOLEAN, NEW f \in {"output_url", "output_path"},
               Set([cfg EXCEPT ![f] = text], section)
        PROVE  StartupInv'
    BY <2>2, <1>b, <1>c
  <2>3. QED
    BY <1>3, <1>d, <2>1, <2>2 DEF set_output_key
<1>4. CASE set_collect_key
  <2>1. ASSUME NEW v, Set([cfg EXCEPT !.show = v], section) \/ Set([cfg EXCEPT !.show_processes = v], section)
        PROVE  StartupInv'
    BY <2>1, <1>b, <1>c
  <2>2. QED
    BY <1>4, <2>1 DEF set_collect_key
<1>5. CASE LoadFails
  BY <1>5, <1>a DEF LoadFails
<1>6. CASE LoadDone
  BY <1>6 DEF LoadDone, Goto, validate_config, Config
<1>7. QED
  BY <1>1, <1>2, <1>3, <1>4, <1>5, <1>6 DEF load_config_file

(* Every other step keeps the invariant too: only --help and a bad option  *)
(* leave main with a code before the file is read.                         *)
LEMMA StartupStep == TypeOK /\ StartupInv /\ [Next]_vars => StartupInv'
<1> SUFFICES ASSUME TypeOK, StartupInv, [Next]_vars PROVE StartupInv'
  OBVIOUS
<1> USE DEF TypeOK, StartupInv, PhaseInv, RunningBackendUsable, ValidateOnlyNeverRuns
<1>1. CASE parse_args
  <2>1. ASSUME NEW code \in {0, 1}, phase = "args", Return(code) PROVE StartupInv'
    BY <2>1 DEF Return
  <2>2. ASSUME NEW c, NEW h, Option(c, h) PROVE StartupInv'
    BY <2>2 DEF Option
  <2>3. ASSUME NEW positional \in 0 .. 2, ArgsDone(positional) PROVE StartupInv'
    <3>1. CASE Return(1)
      BY <2>1, <2>3, <3>1 DEF ArgsDone
    <3>2. CASE phase' = "load" /\ UNCHANGED <<exit_code, hidden, env, g_output>>
      BY <2>3, <3>2 DEF ArgsDone
    <3>3. QED
      BY <2>3, <3>1, <3>2 DEF ArgsDone
  <2>4. QED
    BY <1>1, <2>1, <2>2, <2>3
       DEF parse_args, OptInterval, OptHide, OptProcesses, OptConfig, OptValidate, OptExit
<1>2. CASE load_config_file
  BY <1>2, LoadStep
<1>3. CASE Validate
  BY <1>3 DEF Validate, Return, validate_config
<1>4. CASE output_init
  <2>1. CASE Return(4)
    BY <1>4, <2>1 DEF output_init, Return
  <2>2. CASE phase' = "running"
    <3>1. /\ cfg' = cfg /\ env' = env /\ exit_code' = exit_code /\ section' = section
          /\ phase = "init" /\ ~OutputRefused(cfg)
          /\ g_output'.mode = cfg.output_type
          /\ g_output'.output_url = UrlOf(cfg)
      BY <1>4, <2>2 DEF output_init, Return
    <3>2. g_output'.batch_size > 0 /\ g_output'.batch_interval > 0
      BY <1>4, <2>2, NumberAssumption DEF output_init, Return, Config, Numbers
    <3>3. QED
      BY <2>2, <3>1, <3>2 DEF OutputRefused, UrlOf, Environments
  <2>3. QED
    BY <1>4, <2>1, <2>2 DEF output_init
<1>5. CASE Finished \/ UNCHANGED vars
  BY <1>5 DEF Finished, vars, validate_config
<1>6. QED
  BY <1>1, <1>2, <1>3, <1>4, <1>5 DEF Next

(* The invariant of all behaviours, from which the two theorems follow. *)
LEMMA StartupInvariant == Spec => [](TypeOK /\ StartupInv)
<1>1. Init => StartupInv
  BY DEF Init, init_default_config, StartupInv, PhaseInv, RunningBackendUsable,
         ValidateOnlyNeverRuns
<1>2. QED
  BY <1>1, TypeCorrect, StartupStep, PTL DEF Spec

(***************************************************************************)
(* With --validate-config no output is ever opened, and a run that got as  *)
(* far as the file returns 0 only for a valid configuration, for any       *)
(* sequence of options and lines.                                          *)
(***************************************************************************)
THEOREM ValidateOnly == Spec => []ValidateOnlyNeverRuns
  BY StartupInvariant, PTL DEF StartupInv

(***************************************************************************)
(* The backend that runs is the one last asked for.  It has a path, or the *)
(* URL of the environment or of the file, unless the environment's is      *)
(* there and empty; and its batch settings are positive: output_init's     *)
(* defaults fill in what no line has set.                                  *)
(***************************************************************************)
THEOREM BackendUsable == Spec => []RunningBackendUsable
  BY StartupInvariant, PTL DEF StartupInv

(***************************************************************************)
(* validate_config is at least as strict as output_init: a configuration   *)
(* it accepts is not refused, in any environment.                          *)
(***************************************************************************)
THEOREM ValidatedRuns == Spec => []ValidatedConfigRuns
<1>1. ValidatedConfigRuns
  BY DEF ValidatedConfigRuns, validate_config, OutputRefused
<1>2. QED
  BY <1>1, PTL
-----------------------------------------------------------------------------
(***************************************************************************)
(* The other side of the finding about the options.                        *)
(***************************************************************************)

(* What the command line hides stays hidden, and from the end of the       *)
(* options on something is shown.                                          *)
HiddenInv ==
    /\ hidden \cap cfg.show = {}
    /\ phase \notin {"args", "exited"} => ~AllDisabled(cfg)

(* A line outside the section collect leaves what is shown alone.          *)
LEMMA LineKeepsShown ==
    ASSUME TypeOK, load_config_file, ~set_collect_key
    PROVE  /\ cfg'.show = cfg.show /\ cfg'.show_processes = cfg.show_processes
           /\ hidden' = hidden /\ phase = "load"
<1> USE DEF TypeOK
<1>a. ASSUME NEW f \in {"interval_sec", "output_type", "output_url", "output_path", "batch_size",
                        "batch_interval"}, NEW v
      PROVE  /\ [cfg EXCEPT ![f] = v].show = cfg.show
             /\ [cfg EXCEPT ![f] = v].show_processes = cfg.show_processes
  BY DEF Config
<1>b. ASSUME NEW f \in {"interval_sec", "batch_size", "batch_interval"}, NEW n, NEW s,
             SetNumber(f, n, s)
      PROVE  /\ cfg'.show = cfg.show /\ cfg'.show_processes = cfg.show_processes
             /\ hidden' = hidden /\ phase = "load"
  <2>1. f \in {"interval_sec", "output_type", "output_url", "output_path", "batch_size",
               "batch_interval"}
    OBVIOUS
  <2>2. CASE Set([cfg EXCEPT ![f] = n], s)
    BY <1>a, <2>1, <2>2 DEF Set
  <2>3. CASE phase = "load" /\ Return(2)
    BY <2>3 DEF Return
  <2>4. QED
    BY <1>b, <2>2, <2>3 DEF SetNumber
<1>1. CASE \E s \in {"output", "collect", "log"} : LineSection(s)
  BY <1>1 DEF LineSection, Set
<1>2. CASE set_scalar_top_level
  BY <1>2, <1>b DEF set_scalar_top_level, Set
<1>3. CASE set_output_key
  <2>1. ASSUME NEW t, NEW f \in {"output_type", "output_url", "output_path"},
               Set([cfg EXCEPT ![f] = t], section)
        PROVE  /\ cfg'.show = cfg.show /\ cfg'.show_processes = cfg.show_processes
               /\ hidden' = hidden /\ phase = "load"
    BY <2>1, <1>a DEF Set
  <2>2. QED
    BY <1>3, <1>b, <2>1 DEF set_output_key
<1>4. CASE LoadFails \/ LoadDone
  BY <1>4 DEF LoadFails, LoadDone, Return, Goto
<1>5. QED
  BY <1>1, <1>2, <1>3, <1>4 DEF load_config_file

(* Every step but a line of the section collect keeps HiddenInv. *)
LEMMA HiddenStep ==
    TypeOK /\ HiddenInv /\ [Next]_vars /\ [~set_collect_key]_vars => HiddenInv'
<1> SUFFICES ASSUME TypeOK, HiddenInv, [Next]_vars, [~set_collect_key]_vars PROVE HiddenInv'
  OBVIOUS
<1> USE DEF TypeOK, HiddenInv, AllDisabled
<1>a. ASSUME NEW code, Return(code) PROVE HiddenInv'
  BY <1>a DEF Return
<1>1. CASE parse_args
  <2>1. ASSUME NEW n \in Numbers, OptInterval(n) PROVE HiddenInv'
    <3>1. [cfg EXCEPT !.interval_sec = n].show = cfg.show
      BY DEF Config
    <3>2. QED
      BY <1>a, <2>1, <3>1 DEF OptInterval, Option
  <2>2. ASSUME NEW m \in Metrics, OptHide(m) PROVE HiddenInv'
    <3>1. [cfg EXCEPT !.show = @ \ {m}].show = cfg.show \ {m}
      BY DEF Config
    <3>2. QED
      BY <2>2, <3>1 DEF OptHide, Option
  <2>3. CASE OptProcesses \/ OptConfig \/ OptValidate
    <3>1. /\ [cfg EXCEPT !.show_processes = TRUE].show = cfg.show
          /\ [cfg EXCEPT !.config_path = TRUE].show = cfg.show
          /\ [cfg EXCEPT !.validate_only = TRUE].show = cfg.show
      BY DEF Config
    <3>2. QED
      BY <2>3, <3>1 DEF OptProcesses, OptConfig, OptValidate, Option
  <2>4. CASE OptExit
    BY <1>a, <2>4 DEF OptExit
  <2>5. ASSUME NEW positional \in 0 .. 2, ArgsDone(positional) PROVE HiddenInv'
    <3>1. CASE Return(1)
      BY <1>a, <3>1
    <3>2. CASE ~Return(1)
      <4>1. ~AllDisabled(cfg) /\ hidden' = hidden /\ \E g : cfg' = [cfg EXCEPT !.config_path = g]
        BY <2>5, <3>2 DEF ArgsDone
      <4>2. PICK g : cfg' = [cfg EXCEPT !.config_path = g]
        BY <4>1
      <4>3. cfg'.show = cfg.show /\ cfg'.show_processes = cfg.show_processes
        BY <4>2 DEF Config
      <4>4. QED
        BY <4>1, <4>3
    <3>3. QED
      BY <3>1, <3>2
  <2>6. QED
    BY <1>1, <2>1, <2>2, <2>3, <2>4, <2>5 DEF parse_args
<1>2. CASE load_config_file
  <2>1. CASE ~set_collect_key
    BY <1>2, <2>1, LineKeepsShown
  <2>2. CASE UNCHANGED vars
    BY <2>2 DEF vars
  <2>3. QED
    BY <2>1, <2>2
<1>3. CASE Validate
  BY <1>3, <1>a DEF Validate
<1>4. CASE output_init
  BY <1>4, <1>a DEF output_init
<1>5. CASE Finished \/ UNCHANGED vars
  BY <1>5 DEF Finished, vars
<1>6. QED
  BY <1>1, <1>2, <1>3, <1>4, <1>5 DEF Next

(***************************************************************************)
(* A file without lines in its section collect shows nothing the command   *)
(* line hid, and not everything is switched off when the program runs:     *)
(* only set_collect_key can undo these two.  (Of other options it says     *)
(* nothing: poll_interval_seconds overrides --interval in any file.)       *)
(***************************************************************************)
THEOREM OptionsHoldWithoutCollect == Spec /\ [][~set_collect_key]_vars => []OptionsHold
<1>1. Init => HiddenInv
  BY DEF Init, init_default_config, HiddenInv
<1>2. HiddenInv => OptionsHold
  BY DEF HiddenInv, OptionsHold
<1>3. QED
  BY <1>1, <1>2, TypeCorrect, HiddenStep, PTL DEF Spec
=============================================================================
