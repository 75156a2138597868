------------------------------- MODULE Config -------------------------------
(***************************************************************************)
(* How a process of either program comes by its settings: options of the   *)
(* command line (both main.cpp), then ConfigLoader: the file, if one is    *)
(* named, the environment and the validation, then the overrides of the    *)
(* command line, and the configuration handed to the component.            *)
(*                                                                         *)
(* A text is a string of the model: "" is the empty one, the members of    *)
(* Channels begin with "aeron:", the domain of Numeral are the decimal     *)
(* numbers, any other is none of these.  Input is chosen as it is read;    *)
(* argv, lines and environment keep what was read.  Lines that parseINI    *)
(* skips (blank, comments, without '=') leave no trace.                    *)
(***************************************************************************)
EXTENDS Integers, Sequences, FiniteSetsExt

CONSTANTS
  Channels,       \* texts that begin with "aeron:"
  Numeral,        \* function: texts that are numbers -> Int
  Arguments,      \* options: [name |-> ..., value |-> a text]
  Sections,       \* names of sections, "" included
  Entries,        \* lines "key = value": [key |-> ..., value |-> a text]
  Environments,   \* functions: EnvFields -> text, "" when not set
  MaxArguments,   \* bound: options on a command line
  MaxLines        \* bound: lines of the file

NoText == ""

NumberFields == {"publication_stream_id", "subscription_stream_id", "replay_stream_id",
                 "idle_sleep_ms", "message_timeout_ns"}
ChannelFields == {"archive_control_request_channel", "publication_channel",
                  "subscription_channel", "replay_channel"}
TextFields == ChannelFields \cup {"aeron_dir", "archive_control_response_channel"}
Fields == NumberFields \cup TextFields

\* AeronConfig.h.  The text "aeron:default" stands for each of its channels.
Default == [f \in Fields |->
  IF f \in NumberFields
  THEN IF f = "replay_stream_id" THEN 20 ELSE 10
  ELSE IF f = "aeron_dir" THEN "default" ELSE "aeron:default"]

\* The section and the key of a setting in the file.
Place ==
  [aeron_dir                        |-> <<"aeron", "dir">>,
   archive_control_request_channel  |-> <<"archive", "control_request_channel">>,
   archive_control_response_channel |-> <<"archive", "control_response_channel">>,
   publication_channel              |-> <<"publication", "channel">>,
   publication_stream_id            |-> <<"publication", "stream_id">>,
   subscription_channel             |-> <<"subscription", "channel">>,
   subscription_stream_id           |-> <<"subscription", "stream_id">>,
   replay_channel                   |-> <<"replay", "channel">>,
   replay_stream_id                 |-> <<"replay", "stream_id">>,
   idle_sleep_ms                    |-> <<"timeouts", "idle_sleep_ms">>,
   message_timeout_ns               |-> <<"timeouts", "message_timeout_ns">>]

EnvFields == {"aeron_dir", "archive_control_request_channel", "publication_channel",
              "subscription_channel"}

\* A number is an integer, a channel is not the empty text, a line of the file is
\* an entry or a header, and getenv() is asked for each of these settings.
ASSUME TextAssumption ==
  /\ Numeral \in [DOMAIN Numeral -> Int]
  /\ NoText \notin Channels /\ "aeron:default" \in Channels
ASSUME InputAssumption ==
  /\ \A e \in Entries : DOMAIN e = {"key", "value"}
  /\ \A env \in Environments : DOMAIN env = EnvFields

Programs == {"publisher", "subscriber"}

TextOptions(p) ==
  {"config", "aeron_dir", "archive_control"} \cup
  (IF p = "publisher" THEN {"pub_channel", "archive_response"} ELSE {})
NumberOptions(p) ==
  IF p = "publisher" THEN {"pub_stream_id", "interval"}
  ELSE {"position", "gap_tolerance", "duplicate_window"}
Flags(p) ==
  {"print_config"} \cup
  (IF p = "publisher" THEN {"auto_record"}
   ELSE {"replay_auto", "no_gap_recovery", "no_duplicate_check"})
Known(p) == TextOptions(p) \cup NumberOptions(p) \cup Flags(p) \cup {"help"}

NoOptions(p) == [o \in TextOptions(p) \cup NumberOptions(p) \cup Flags(p) |->
  IF o \in TextOptions(p) THEN NoText
  ELSE IF o \in Flags(p) THEN FALSE
  ELSE IF o = "position" THEN 0 ELSE -1]

\* The option that overrides a setting.
OverrideOf(p) ==
  IF p = "publisher"
  THEN [aeron_dir |-> "aeron_dir", archive_control_request_channel |-> "archive_control",
        publication_channel |-> "pub_channel", publication_stream_id |-> "pub_stream_id",
        archive_control_response_channel |-> "archive_response"]
  ELSE [aeron_dir |-> "aeron_dir", archive_control_request_channel |-> "archive_control"]

\* The settings that the component of a program is given.
Handed(p) ==
  IF p = "publisher"
  THEN {"aeron_dir", "archive_control_request_channel", "publication_channel",
        "publication_stream_id", "archive_control_response_channel"}
  ELSE {"aeron_dir", "archive_control_request_channel", "subscription_channel",
        "subscription_stream_id", "replay_channel"}

VARIABLES
  program,        \* which of the two
  phase,          \* what it does next, or how it ended
  argv,           \* the options read
  options,        \* the variables of main() they are stored in
  lines,          \* the sections and entries read
  section,        \* current_section
  ini,            \* <<section, key>> -> text
  environment,    \* what getenv() returned
  settings,       \* AeronSettings
  component       \* PublisherConfig or SubscriberConfig

read == <<argv, lines, environment>>
vars == <<program, phase, read, options, section, ini, settings, component>>

Init ==
  /\ program \in Programs
  /\ phase = "options"
  /\ argv = <<>> /\ options = NoOptions(program)
  /\ lines = <<>> /\ section = NoText /\ ini = <<>>
  /\ environment = <<>>
  /\ settings = Default
  /\ component = <<>>

-----------------------------------------------------------------------------
\* The command line.  The publisher uses atoi(), which makes 0 of what is no number,
\* the subscriber stoll(), whose exception nobody catches.

Atoi(v) == IF v \in DOMAIN Numeral THEN Numeral[v] ELSE 0

Store(a) ==
  options' = [options EXCEPT ![a.name] =
    IF a.name \in TextOptions(program) THEN a.value
    ELSE IF a.name \in NumberOptions(program) THEN Atoi(a.value)
    ELSE TRUE]

ReadOption(a) ==
  /\ phase = "options" /\ Len(argv) < MaxArguments
  /\ a.name \in Known(program) \ {"help"}
  /\ program = "subscriber" /\ a.name \in NumberOptions(program) => a.value \in DOMAIN Numeral
  /\ argv' = Append(argv, a)
  /\ Store(a)
  /\ UNCHANGED <<program, phase, lines, environment, section, ini, settings, component>>

\* Help, an unknown option or a number that stoll() rejects: the process ends at once.
OptionEnds(a) ==
  /\ phase = "options" /\ Len(argv) < MaxArguments
  /\ \/ a.name = "help" /\ phase' = "usage"
     \/ a.name \notin Known(program) /\ phase' = "rejected"
     \/ /\ program = "subscriber" /\ a.name \in NumberOptions(program)
        /\ a.value \notin DOMAIN Numeral
        /\ phase' = "terminated"
  /\ argv' = Append(argv, a)
  /\ UNCHANGED <<program, options, lines, environment, section, ini, settings, component>>

\* Mutant: the environment also overrides the defaults.
EndOfOptionsWithEnvironment ==
  /\ phase = "options"
  /\ phase' = IF options.config # NoText THEN "open" ELSE "environment"
  /\ UNCHANGED <<program, read, options, section, ini, settings, component>>

\* Without a file the defaults are used as they are: loadDefault() looks at nothing else.
EndOfOptions ==
  /\ phase = "options"
  /\ phase' = IF options.config # NoText THEN "open" ELSE "override"
  /\ UNCHANGED <<program, read, options, section, ini, settings, component>>

-----------------------------------------------------------------------------
\* ConfigLoader::loadFromFile().

Open ==
  /\ phase = "open"
  /\ phase' \in {"parse", "failed"}
  /\ UNCHANGED <<program, read, options, section, ini, settings, component>>

ReadSection(s) ==
  /\ phase = "parse" /\ Len(lines) < MaxLines
  /\ lines' = Append(lines, [section |-> s])
  /\ section' = s
  /\ UNCHANGED <<program, phase, argv, environment, options, ini, settings, component>>

\* An entry outside a section is dropped, a later entry replaces an earlier one.
ReadEntry(e) ==
  /\ phase = "parse" /\ Len(lines) < MaxLines
  /\ lines' = Append(lines, e)
  /\ ini' = IF section = NoText THEN ini
            ELSE [p \in DOMAIN ini \cup {<<section, e.key>>} |->
                    IF p = <<section, e.key>> THEN e.value ELSE ini[p]]
  /\ UNCHANGED <<program, phase, argv, environment, options, section, settings, component>>

EndOfFile ==
  /\ phase = "parse"
  /\ phase' = "apply"
  /\ UNCHANGED <<program, read, options, section, ini, settings, component>>

InFile(f) == Place[f] \in DOMAIN ini

\* parseInt() and parseLongLong() throw.
Unparsable == \E f \in NumberFields : InFile(f) /\ ini[Place[f]] \notin DOMAIN Numeral

ApplyFile ==
  /\ phase = "apply"
  /\ IF Unparsable
     THEN phase' = "failed" /\ UNCHANGED settings
     ELSE /\ phase' = "environment"
          /\ settings' = [f \in Fields |->
               IF ~ InFile(f) THEN settings[f]
               ELSE IF f \in NumberFields THEN Numeral[ini[Place[f]]] ELSE ini[Place[f]]]
  /\ UNCHANGED <<program, read, options, section, ini, component>>

OverrideFromEnvironment(env) ==
  /\ phase = "environment"
  /\ phase' = "validate"
  /\ environment' = env
  /\ settings' = [f \in Fields |->
       IF f \in EnvFields /\ env[f] # NoText THEN env[f] ELSE settings[f]]
  /\ UNCHANGED <<program, argv, lines, options, section, ini, component>>

\* AeronSettings::validate(), one setting.  The response channel and the timeouts pass.
Valid(f, v) ==
  /\ f = "aeron_dir" => v # NoText
  /\ f \in ChannelFields => v \in Channels
  /\ f \in {"publication_stream_id", "subscription_stream_id", "replay_stream_id"} => v > 0

\* Mutant: the validation only looks at the settings the program uses.
ValidateHanded ==
  /\ phase = "validate"
  /\ phase' = IF \A f \in Handed(program) : Valid(f, settings[f]) THEN "override" ELSE "failed"
  /\ UNCHANGED <<program, read, options, section, ini, settings, component>>

\* Mutant: the validation forgets the channels.
ValidateNumbers ==
  /\ phase = "validate"
  /\ phase' = IF \A f \in NumberFields : Valid(f, settings[f]) THEN "override" ELSE "failed"
  /\ UNCHANGED <<program, read, options, section, ini, settings, component>>

Validate ==
  /\ phase = "validate"
  /\ phase' = IF \A f \in Fields : Valid(f, settings[f]) THEN "override" ELSE "failed"
  /\ UNCHANGED <<program, read, options, section, ini, settings, component>>

-----------------------------------------------------------------------------
\* Back in main().

\* The option of this setting was given, and its value does not mean "not given".
Overridden(f) ==
  /\ f \in DOMAIN OverrideOf(program)
  /\ options[OverrideOf(program)[f]] # NoOptions(program)[OverrideOf(program)[f]]

\* What the command line brings is not validated.
Override ==
  /\ phase = "override"
  /\ phase' = IF options.print_config THEN "printed" ELSE "start"
  /\ settings' = [f \in Fields |->
       IF Overridden(f) THEN options[OverrideOf(program)[f]] ELSE settings[f]]
  /\ UNCHANGED <<program, read, options, section, ini, component>>

\* Mutant: only -1 means "not given".
TuneAlways ==
  IF program = "publisher"
  THEN [message_interval_ms |-> options.interval, auto_record |-> options.auto_record]
  ELSE [gap_recovery_enabled |-> ~ options.no_gap_recovery,
        duplicate_check_enabled |-> ~ options.no_duplicate_check,
        max_gap_tolerance |->
          IF options.gap_tolerance # -1 THEN options.gap_tolerance ELSE 5,
        duplicate_window_size |->
          IF options.duplicate_window # -1 THEN options.duplicate_window ELSE 1000]

\* Numbers that are not settings of the file: -1, or anything not positive in the
\* subscriber, leaves the value of the component's own configuration.
Tuning ==
  IF program = "publisher"
  THEN [message_interval_ms |-> IF options.interval # -1 THEN options.interval ELSE 100,
        auto_record |-> options.auto_record]
  ELSE [gap_recovery_enabled |-> ~ options.no_gap_recovery,
        duplicate_check_enabled |-> ~ options.no_duplicate_check,
        max_gap_tolerance |->
          IF options.gap_tolerance > 0 THEN options.gap_tolerance ELSE 5,
        duplicate_window_size |->
          IF options.duplicate_window > 0 THEN options.duplicate_window ELSE 1000]

StartComponent ==
  /\ phase = "start"
  /\ phase' = "started"
  /\ component' = [f \in Handed(program) \cup DOMAIN Tuning |->
                     IF f \in Handed(program) THEN settings[f] ELSE Tuning[f]]
  /\ UNCHANGED <<program, read, options, section, ini, settings>>

-----------------------------------------------------------------------------
Next ==
  \/ \E a \in Arguments : ReadOption(a) \/ OptionEnds(a)
  \/ EndOfOptions \/ Open
  \/ \E s \in Sections : ReadSection(s)
  \/ \E e \in Entries : ReadEntry(e)
  \/ EndOfFile \/ ApplyFile
  \/ \E env \in Environments : OverrideFromEnvironment(env)
  \/ Validate \/ Override \/ StartComponent

Spec == Init /\ [][Next]_vars

-----------------------------------------------------------------------------
\* The settings as the input determines them, whatever the order of the steps.

\* The last option of that name, or what stands for none.
Argument(o) ==
  LET at == {i \in DOMAIN argv : argv[i].name = o}
  IN  IF at = {} THEN NoOptions(program)[o]
      ELSE IF o \in NumberOptions(program) THEN Atoi(argv[Max(at)].value) ELSE argv[Max(at)].value

FromCommandLine(f) ==
  /\ f \in DOMAIN OverrideOf(program)
  /\ Argument(OverrideOf(program)[f]) # NoOptions(program)[OverrideOf(program)[f]]

IsSection(i) == "section" \in DOMAIN lines[i]

\* The entries for a setting: below the header of its section, above the next header.
Assigned(f) ==
  {i \in DOMAIN lines :
     /\ ~ IsSection(i) /\ lines[i].key = Place[f][2]
     /\ \E h \in 1 .. i - 1 :
          /\ IsSection(h) /\ lines[h].section = Place[f][1]
          /\ \A k \in h + 1 .. i - 1 : ~ IsSection(k)}

LastEntry(f) == lines[Max(Assigned(f))].value

FromEnvironment(f) == f \in DOMAIN environment /\ environment[f] # NoText

\* What loadFromFile() is to make of a setting whose entries are parsable.
Loaded(f) ==
  IF FromEnvironment(f) THEN environment[f]
  ELSE IF Assigned(f) = {} THEN Default[f]
  ELSE IF f \in NumberFields THEN Numeral[LastEntry(f)] ELSE LastEntry(f)

Unreadable == \E f \in NumberFields : Assigned(f) # {} /\ LastEntry(f) \notin DOMAIN Numeral

(* The values are of the expected kind; the subscriber's window of numbers *)
(* and its tolerance are positive (its constructor sizes a vector with the *)
(* window, AeronSubscriber.cpp:55).                                        *)
TypeOK ==
  /\ program \in Programs
  /\ phase \in {"options", "usage", "rejected", "terminated", "open", "parse", "apply", "environment",
                "validate", "override", "printed", "failed", "start", "started"}
  /\ DOMAIN options = TextOptions(program) \cup NumberOptions(program) \cup Flags(program)
  /\ \A f \in NumberFields : settings[f] \in Int
  /\ phase = "started" =>
       /\ Handed(program) \subseteq DOMAIN component
       /\ program = "subscriber" =>
            component.max_gap_tolerance > 0 /\ component.duplicate_window_size > 0

(* The component gets, setting by setting, the last override of the        *)
(* command line, else, when a file is named, what the environment says,    *)
(* else the last entry of the file under its section, else the default.    *)
(* Without a file the environment counts for nothing.                      *)
EffectiveSettings ==
  phase = "started" =>
    \A f \in Handed(program) :
      component[f] = IF FromCommandLine(f) THEN Argument(OverrideOf(program)[f])
                     ELSE IF Argument("config") = NoText THEN Default[f]
                     ELSE Loaded(f)

(* A component that starts with a setting validate() would refuse has it   *)
(* from the command line, and an empty one is not among them: the fallbacks *)
(* for empty channels (AeronSubscriber.cpp:117, 148, 182, 312) are never   *)
(* taken.                                                                  *)
InvalidOnlyFromCommandLine ==
  phase = "started" =>
    \A f \in Handed(program) :
      /\ Valid(f, component[f]) \/ FromCommandLine(f)
      /\ f \in ChannelFields \cup {"aeron_dir"} => component[f] # NoText

(* loadFromFile() fails exactly when the file cannot be opened, one of its *)
(* numbers cannot be read, or a setting is invalid after the environment,  *)
(* also one the program does not use and also one that the command line    *)
(* would replace.                                                          *)
FailsExactlyForCause ==
  /\ phase = "failed" =>
       \/ lines = <<>> /\ environment = <<>>
       \/ Unreadable
       \/ \E f \in Fields : ~ Valid(f, Loaded(f))
  /\ phase \in {"start", "started", "printed"} /\ Argument("config") # NoText =>
       /\ ~ Unreadable
       /\ \A f \in Fields : Valid(f, Loaded(f))
=============================================================================
