--------------------------- MODULE Config_proofs ---------------------------
(***************************************************************************)
(* Proofs about how a process comes by its settings, for every command     *)
(* line, file and environment: what a component is given is determined by  *)
(* the last option, the environment, the last entry and the default in     *)
(* that order, what is invalid comes from the command line, and loading    *)
(* fails for a cause only.                                                 *)
(***************************************************************************)
EXTENDS Config, TLAPS, SequenceTheorems

\* The options of that name on the command line, and what main() makes of a text.
GivenAt(o) == {i \in DOMAIN argv : argv[i].name = o}
Parsed(o, v) == IF o \in NumberOptions(program) THEN Atoi(v) ELSE v

Stopped == {"usage", "rejected", "terminated"}

\* The variables of main() hold the last option of each name.
OptionsInv ==
  /\ program \in Programs
  /\ argv \in Seq(Arguments)
  /\ DOMAIN options = TextOptions(program) \cup NumberOptions(program) \cup Flags(program)
  /\ phase \notin Stopped =>
       \A o \in TextOptions(program) \cup NumberOptions(program) :
         \/ GivenAt(o) = {} /\ options[o] = NoOptions(program)[o]
         \/ \E m \in GivenAt(o) :
              (\A i \in GivenAt(o) : i <= m) /\ options[o] = Parsed(o, argv[m].value)

\* current_section is the section of the last header, and the map of parseINI holds
\* the last entry of each setting.
SectionInv ==
  \/ section = NoText /\ \A h \in DOMAIN lines : ~ IsSection(h)
  \/ \E h \in DOMAIN lines :
       /\ IsSection(h) /\ lines[h].section = section
       /\ \A k \in h + 1 .. Len(lines) : ~ IsSection(k)

EntryInv == \A f \in Fields :
  \/ Assigned(f) = {} /\ ~ InFile(f)
  \/ \E m \in Assigned(f) :
       /\ \A i \in Assigned(f) : i <= m
       /\ InFile(f) /\ ini[Place[f]] = lines[m].value

FileInv ==
  /\ lines \in Seq([section : Sections] \cup Entries)
  /\ SectionInv /\ EntryInv

\* What the file alone says.
FromFile(f) ==
  IF Assigned(f) = {} THEN Default[f]
  ELSE IF f \in NumberFields THEN Numeral[LastEntry(f)] ELSE LastEntry(f)

Effective(f) ==
  IF FromCommandLine(f) THEN Argument(OverrideOf(program)[f])
  ELSE IF options.config = NoText THEN Default[f]
  ELSE Loaded(f)

\* What each phase has established.
LoadingInv ==
  /\ phase \in Stopped \cup {"options", "open"} => lines = <<>> /\ environment = <<>> /\ settings = Default
  /\ phase \in {"parse", "apply"} => environment = <<>> /\ settings = Default
  /\ phase = "environment" => ~ Unreadable /\ environment = <<>> /\ \A f \in Fields : settings[f] = FromFile(f)
  /\ phase = "validate" => ~ Unreadable /\ \A f \in Fields : settings[f] = Loaded(f)
  /\ phase \in {"open", "parse", "apply", "environment", "validate", "failed"} => options.config # NoText
  /\ phase = "failed" =>
       \/ lines = <<>> /\ environment = <<>>
       \/ Unreadable
       \/ \E f \in Fields : ~ Valid(f, Loaded(f))

Ready == {"override", "start", "printed", "started"}

StartingInv ==
  /\ phase \in Ready /\ options.config # NoText =>
       ~ Unreadable /\ \A f \in Fields : Valid(f, Loaded(f))
  /\ phase = "override" => \A f \in Fields :
       settings[f] = IF options.config = NoText THEN Default[f] ELSE Loaded(f)
  /\ phase \in Ready \ {"override"} => \A f \in Fields : settings[f] = Effective(f)
  /\ phase = "started" => \A f \in Handed(program) : component[f] = settings[f]

ConfigInv == TypeOK /\ OptionsInv /\ FileInv /\ LoadingInv /\ StartingInv

-----------------------------------------------------------------------------
\* The tables.

LEMMA DefaultIs ==
  /\ \A f \in Fields : Valid(f, Default[f])
  /\ \A f \in NumberFields : Default[f] \in Int
<1>1. ASSUME NEW f \in NumberFields PROVE Default[f] = IF f = "replay_stream_id" THEN 20 ELSE 10
  BY DEF Default, Fields, NumberFields
<1>2. Default["aeron_dir"] = "default" /\ "default" # NoText
  <2>1. Default["aeron_dir"] = "default"
    BY DEF Default, Fields, NumberFields, TextFields, ChannelFields
  <2>2. "default" # NoText
    BY Zenon DEF NoText
  <2> QED
    BY <2>1, <2>2
<1>3. ASSUME NEW f \in ChannelFields PROVE Default[f] = "aeron:default"
  BY DEF Default, Fields, NumberFields, TextFields, ChannelFields
<1>4. ASSUME NEW f \in Fields PROVE Valid(f, Default[f])
  <2>1. CASE f \in NumberFields
    BY <1>1, <2>1 DEF Valid, NumberFields, ChannelFields
  <2>2. CASE f = "aeron_dir"
    BY <1>2, <2>2 DEF Valid, ChannelFields
  <2>3. CASE f \in ChannelFields
    BY <1>3, <2>3, TextAssumption DEF Valid, ChannelFields
  <2>4. CASE f = "archive_control_response_channel"
    BY <2>4 DEF Valid, ChannelFields
  <2> QED
    BY <2>1, <2>2, <2>3, <2>4 DEF Fields, TextFields
<1> QED
  BY <1>1, <1>4

LEMMA NoOptionsIs ==
  ASSUME NEW p \in Programs
  PROVE  /\ DOMAIN NoOptions(p) = TextOptions(p) \cup NumberOptions(p) \cup Flags(p)
         /\ \A o \in TextOptions(p) : NoOptions(p)[o] = NoText
         /\ \A o \in NumberOptions(p) : NoOptions(p)[o] \in Int
         /\ TextOptions(p) \cap NumberOptions(p) = {}
<1>1. DOMAIN NoOptions(p) = TextOptions(p) \cup NumberOptions(p) \cup Flags(p)
  BY DEF NoOptions
<1>2. ASSUME NEW o \in TextOptions(p) PROVE NoOptions(p)[o] = NoText
  BY DEF NoOptions, Programs, TextOptions, NumberOptions, Flags
<1>3. ASSUME NEW o \in NumberOptions(p) PROVE NoOptions(p)[o] = IF o = "position" THEN 0 ELSE -1
  BY DEF NoOptions, Programs, TextOptions, NumberOptions, Flags
<1>4. TextOptions(p) \cap NumberOptions(p) = {}
  BY DEF TextOptions, NumberOptions
<1>5. \A o \in NumberOptions(p) : NoOptions(p)[o] \in Int
  BY <1>3
<1> QED
  BY <1>1, <1>2, <1>4, <1>5

LEMMA OverrideIs ==
  ASSUME NEW p \in Programs, NEW f \in DOMAIN OverrideOf(p)
  PROVE  /\ f \in Fields
         /\ f \in NumberFields => OverrideOf(p)[f] \in NumberOptions(p)
         /\ f \notin NumberFields => OverrideOf(p)[f] \in TextOptions(p)
<1>1. CASE p = "publisher"
  BY <1>1 DEF OverrideOf, TextOptions, NumberOptions, Fields, NumberFields, TextFields, ChannelFields
<1>2. CASE p = "subscriber"
  BY <1>2 DEF OverrideOf, TextOptions, NumberOptions, Fields, NumberFields, TextFields, ChannelFields
<1> QED
  BY <1>1, <1>2 DEF Programs

\* Every setting has a place in the file, under a section with a name.
LEMMA PlaceIs ==
  ASSUME NEW f \in Fields
  PROVE  Place[f] = <<Place[f][1], Place[f][2]>> /\ Place[f][1] # NoText
<1>1. Place[f] = <<Place[f][1], Place[f][2]>>
  BY DEF Place, Fields, NumberFields, TextFields, ChannelFields
<1>2. Place[f][1] \in {"aeron", "archive", "publication", "subscription", "replay", "timeouts"}
  BY DEF Place, Fields, NumberFields, TextFields, ChannelFields
<1>3. NoText \notin {"aeron", "archive", "publication", "subscription", "replay", "timeouts"}
  BY Zenon DEF NoText
<1> QED
  BY <1>1, <1>2, <1>3

LEMMA HandedIs ==
  ASSUME NEW p \in Programs
  PROVE  /\ Handed(p) \subseteq Fields
         /\ "max_gap_tolerance" \notin Handed(p) /\ "duplicate_window_size" \notin Handed(p)
  BY DEF Handed, Fields, NumberFields, TextFields, ChannelFields

LEMMA AtoiIs == \A v : Atoi(v) \in Int
  BY TextAssumption DEF Atoi

LEMMA GreatestIs ==
  ASSUME NEW S \in SUBSET Int, NEW m \in S, \A i \in S : i <= m
  PROVE  Max(S) = m
<1> DEFINE x == CHOOSE y \in S : \A z \in S : y >= z
<1>1. x \in S /\ \A z \in S : x >= z
  OBVIOUS
<1>2. x >= m /\ x <= m /\ x \in Int /\ m \in Int
  BY <1>1
<1> HIDE DEF x
<1>3. x = m
  BY <1>2
<1> USE DEF x
<1> QED
  BY <1>3 DEF Max

-----------------------------------------------------------------------------
\* What the operators on argv, lines and environment say, when these stay.

LEMMA ArgumentsStay ==
  ASSUME program' = program, argv' = argv
  PROVE  /\ \A o : Argument(o)' = Argument(o)
         /\ \A f : FromCommandLine(f)' <=> FromCommandLine(f)
<1>1. ASSUME NEW o PROVE Argument(o)' = Argument(o)
  BY DEF Argument
<1> QED
  BY <1>1 DEF FromCommandLine

LEMMA LinesStay ==
  ASSUME lines' = lines
  PROVE  /\ \A f : Assigned(f)' = Assigned(f)
         /\ \A f : LastEntry(f)' = LastEntry(f)
         /\ \A f : FromFile(f)' = FromFile(f)
         /\ Unreadable' <=> Unreadable
<1>1. ASSUME NEW f PROVE Assigned(f)' = Assigned(f)
  BY DEF Assigned, IsSection
<1>2. ASSUME NEW f PROVE LastEntry(f)' = LastEntry(f)
  BY <1>1 DEF LastEntry
<1>3. ASSUME NEW f PROVE FromFile(f)' = FromFile(f)
  BY <1>1, <1>2 DEF FromFile
<1>4. Unreadable' <=> Unreadable
  BY <1>1, <1>2 DEF Unreadable
<1> QED
  BY <1>1, <1>2, <1>3, <1>4

LEMMA InputStays ==
  ASSUME lines' = lines, environment' = environment
  PROVE  \A f : Loaded(f)' = Loaded(f)
<1>1. ASSUME NEW f PROVE Loaded(f)' = Loaded(f)
  BY LinesStay DEF Loaded, FromEnvironment
<1> QED
  BY <1>1


-----------------------------------------------------------------------------
\* The command line.

\* Every step after the command line.
Loading == \/ EndOfOptions \/ Open
           \/ \E s \in Sections : ReadSection(s)
           \/ \E e \in Entries : ReadEntry(e)
           \/ EndOfFile \/ ApplyFile
           \/ \E env \in Environments : OverrideFromEnvironment(env)
           \/ Validate \/ Override \/ StartComponent

LEMMA OptionsSame ==
  ASSUME OptionsInv, program' = program, argv' = argv, options' = options,
         phase' \notin Stopped => phase \notin Stopped
  PROVE  OptionsInv'
<1>1. \A o : GivenAt(o)' = GivenAt(o)
  BY DEF GivenAt
<1> QED
  BY <1>1 DEF OptionsInv, Parsed

LEMMA ReadOptionOptions ==
  ASSUME OptionsInv, NEW a \in Arguments, ReadOption(a)
  PROVE  OptionsInv'
<1> DEFINE n == Len(argv) + 1
<1>1. /\ program' = program /\ phase' = phase /\ phase \notin Stopped
      /\ argv' = Append(argv, a) /\ argv \in Seq(Arguments) /\ program \in Programs
      /\ a.name \in TextOptions(program) \cup NumberOptions(program) \cup Flags(program)
  BY DEF ReadOption, OptionsInv, Stopped, Known
<1>2. options' = [options EXCEPT ![a.name] =
                    IF a.name \in TextOptions(program) THEN a.value
                    ELSE IF a.name \in NumberOptions(program) THEN Atoi(a.value)
                    ELSE TRUE]
  BY DEF ReadOption, Store
<1>3. argv' \in Seq(Arguments) /\ Len(argv') = n /\ n \in Nat /\ DOMAIN argv' = 1 .. n
      /\ DOMAIN argv = 1 .. Len(argv) /\ Len(argv) \in Nat
      /\ argv'[n] = a /\ \A i \in 1 .. Len(argv) : argv'[i] = argv[i]
  BY <1>1, AppendProperties, LenProperties
<1>4. DOMAIN options' = DOMAIN options
  BY <1>2
<1>5. ASSUME NEW o \in TextOptions(program) \cup NumberOptions(program)
      PROVE  \/ GivenAt(o)' = {} /\ options'[o] = NoOptions(program)[o]
             \/ \E m \in GivenAt(o)' :
                  (\A i \in GivenAt(o)' : i <= m) /\ options'[o] = Parsed(o, argv'[m].value)
  <2>1. CASE o = a.name
    <3>1. n \in GivenAt(o)' /\ \A i \in GivenAt(o)' : i <= n
      BY <1>3, <2>1 DEF GivenAt
    <3>2. options'[o] = Parsed(o, argv'[n].value)
      <4>1. options'[o] = IF o \in TextOptions(program) THEN a.value ELSE Atoi(a.value)
        BY <1>2, <2>1 DEF OptionsInv
      <4>2. o \in TextOptions(program) <=> o \notin NumberOptions(program)
        BY <1>1, NoOptionsIs
      <4> QED
        BY <1>3, <4>1, <4>2 DEF Parsed
    <3> QED
      BY <3>1, <3>2
  <2>2. CASE o # a.name
    <3>1. GivenAt(o)' = GivenAt(o)
      BY <1>3, <2>2 DEF GivenAt
    <3>2. options'[o] = options[o]
      BY <1>2, <2>2 DEF OptionsInv
    <3>3. \A m \in GivenAt(o) : argv'[m].value = argv[m].value
      BY <1>3 DEF GivenAt
    <3>4. \/ GivenAt(o) = {} /\ options[o] = NoOptions(program)[o]
          \/ \E m \in GivenAt(o) :
               (\A i \in GivenAt(o) : i <= m) /\ options[o] = Parsed(o, argv[m].value)
      BY <1>1 DEF OptionsInv
    <3> QED
      BY <3>1, <3>2, <3>3, <3>4 DEF Parsed
  <2> QED
    BY <2>1, <2>2
<1>6. ASSUME NEW o, NEW v PROVE Parsed(o, v)' = Parsed(o, v)
  BY <1>1 DEF Parsed
<1> QED
  BY <1>1, <1>3, <1>4, <1>5, <1>6 DEF OptionsInv, Parsed

LEMMA OptionEndsOptions ==
  ASSUME OptionsInv, NEW a \in Arguments, OptionEnds(a)
  PROVE  OptionsInv'
<1>1. argv' \in Seq(Arguments)
  BY AppendProperties DEF OptionEnds, OptionsInv
<1> QED
  BY <1>1 DEF OptionEnds, OptionsInv, Stopped

LEMMA LoadingOptions ==
  ASSUME OptionsInv, Loading
  PROVE  OptionsInv'
<1>1. /\ program' = program /\ argv' = argv /\ options' = options
  BY DEF Loading, EndOfOptions, Open, ReadSection, ReadEntry, EndOfFile, ApplyFile,
         OverrideFromEnvironment, Validate, Override, StartComponent, read
<1>2. phase \notin Stopped
  BY DEF Loading, EndOfOptions, Open, ReadSection, ReadEntry, EndOfFile, ApplyFile,
         OverrideFromEnvironment, Validate, Override, StartComponent, Stopped
<1> QED
  BY <1>1, <1>2, OptionsSame

\* The variables of main() are what the command line says.
LEMMA OptionIsArgument ==
  ASSUME OptionsInv, phase \notin Stopped, NEW o \in TextOptions(program) \cup NumberOptions(program)
  PROVE  /\ options[o] = Argument(o)
         /\ o \in NumberOptions(program) => options[o] \in Int
<1>1. GivenAt(o) \in SUBSET Int /\ program \in Programs
  BY LenProperties DEF GivenAt, OptionsInv
<1>2. CASE GivenAt(o) = {} /\ options[o] = NoOptions(program)[o]
  <2>1. Argument(o) = NoOptions(program)[o]
    BY <1>2 DEF Argument, GivenAt
  <2> QED
    BY <1>1, <1>2, <2>1, NoOptionsIs
<1>3. CASE \E m \in GivenAt(o) :
             (\A i \in GivenAt(o) : i <= m) /\ options[o] = Parsed(o, argv[m].value)
  <2>1. PICK m \in GivenAt(o) :
          (\A i \in GivenAt(o) : i <= m) /\ options[o] = Parsed(o, argv[m].value)
    BY <1>3
  <2>2. Max(GivenAt(o)) = m
    BY <1>1, <2>1, GreatestIs
  <2>3. Argument(o) = Parsed(o, argv[m].value)
    BY <2>1, <2>2 DEF Argument, GivenAt, Parsed
  <2> QED
    BY <2>1, <2>3, AtoiIs DEF Parsed
<1> QED
  BY <1>2, <1>3 DEF OptionsInv

-----------------------------------------------------------------------------
\* The file.

LEMMA FileSame ==
  ASSUME FileInv, lines' = lines, section' = section, ini' = ini
  PROVE  FileInv'
<1>1. SectionInv'
  BY DEF FileInv, SectionInv, IsSection
<1>2. EntryInv'
  <2>1. \A f : Assigned(f)' = Assigned(f)
    BY LinesStay
  <2> QED
    BY <2>1 DEF FileInv, EntryInv, InFile
<1> QED
  BY <1>1, <1>2 DEF FileInv

\* A line more at the end of the file changes nothing about the lines above it.
LEMMA LineAdded ==
  ASSUME FileInv, NEW l \in [section : Sections] \cup Entries, lines' = Append(lines, l)
  PROVE  /\ Len(lines) \in Nat /\ Len(lines') = Len(lines) + 1
         /\ DOMAIN lines = 1 .. Len(lines) /\ DOMAIN lines' = 1 .. Len(lines) + 1
         /\ lines' \in Seq([section : Sections] \cup Entries)
         /\ lines'[Len(lines) + 1] = l
         /\ \A i \in 1 .. Len(lines) : lines'[i] = lines[i] /\ (IsSection(i)' <=> IsSection(i))
         /\ \A f : \A i \in 1 .. Len(lines) : i \in Assigned(f)' <=> i \in Assigned(f)
<1>1. /\ Len(lines) \in Nat /\ Len(lines') = Len(lines) + 1
      /\ DOMAIN lines = 1 .. Len(lines) /\ DOMAIN lines' = 1 .. Len(lines) + 1
      /\ lines' \in Seq([section : Sections] \cup Entries)
      /\ lines'[Len(lines) + 1] = l
      /\ \A i \in 1 .. Len(lines) : lines'[i] = lines[i]
  BY AppendProperties, LenProperties DEF FileInv
<1>2. \A i \in 1 .. Len(lines) : IsSection(i)' <=> IsSection(i)
  BY <1>1 DEF IsSection
<1>3. ASSUME NEW f, NEW i \in 1 .. Len(lines) PROVE i \in Assigned(f)' <=> i \in Assigned(f)
  <2>1. \A h \in 1 .. i - 1 : h \in 1 .. Len(lines) /\ \A k \in h + 1 .. i - 1 : k \in 1 .. Len(lines)
    BY <1>1
  <2> QED
    BY <1>1, <1>2, <2>1 DEF Assigned
<1> QED
  BY <1>1, <1>2, <1>3

LEMMA EntriesAreNoHeaders ==
  /\ \A e \in Entries : "section" \notin DOMAIN e
  /\ \A s : "section" \in DOMAIN [section |-> s]
  BY InputAssumption

LEMMA ReadSectionFile ==
  ASSUME FileInv, NEW s \in Sections, ReadSection(s)
  PROVE  FileInv'
<1> PICK n : n = Len(lines) + 1
  OBVIOUS
<1>0. /\ lines' = Append(lines, [section |-> s]) /\ section' = s /\ ini' = ini
      /\ [section |-> s] \in [section : Sections] \cup Entries
  BY DEF ReadSection
<1>1. /\ Len(lines) \in Nat /\ Len(lines') = n
      /\ DOMAIN lines = 1 .. Len(lines) /\ DOMAIN lines' = 1 .. n
      /\ lines' \in Seq([section : Sections] \cup Entries)
      /\ lines'[n] = [section |-> s]
      /\ \A f : \A i \in 1 .. Len(lines) : i \in Assigned(f)' <=> i \in Assigned(f)
      /\ \A i \in 1 .. Len(lines) : lines'[i] = lines[i]
  BY <1>0, LineAdded
<1>2. IsSection(n)' /\ lines'[n].section = s
  BY <1>1, EntriesAreNoHeaders DEF IsSection
<1>3. SectionInv'
  BY <1>0, <1>1, <1>2 DEF SectionInv
<1>4. ASSUME NEW f PROVE Assigned(f)' = Assigned(f)
  <2>1. Assigned(f) \subseteq 1 .. Len(lines) /\ Assigned(f)' \subseteq 1 .. n
    BY <1>1 DEF Assigned
  <2>2. n \notin Assigned(f)'
    BY <1>2 DEF Assigned
  <2>3. \A i \in 1 .. Len(lines) : i \in Assigned(f)' <=> i \in Assigned(f)
    BY <1>1
  <2>4. \A i \in 1 .. n : i \in 1 .. Len(lines) \/ i = n
    BY <1>1
  <2>5. Assigned(f)' \subseteq 1 .. Len(lines)
    BY <2>1, <2>2, <2>4
  <2> QED
    BY <2>1, <2>3, <2>5
<1>5. EntryInv'
  <2>1. \A f \in Fields : \A m \in Assigned(f) : lines'[m] = lines[m]
    BY <1>1 DEF Assigned
  <2> QED
    BY <1>0, <1>4, <2>1 DEF FileInv, EntryInv, InFile
<1> QED
  BY <1>1, <1>3, <1>5 DEF FileInv


LEMMA ReadEntryFile ==
  ASSUME FileInv, NEW e \in Entries, ReadEntry(e)
  PROVE  FileInv'
<1> PICK n : n = Len(lines) + 1
  OBVIOUS
<1>0. lines' = Append(lines, e) /\ section' = section /\ e \in [section : Sections] \cup Entries
  BY DEF ReadEntry
<1>1. /\ Len(lines) \in Nat /\ Len(lines') = n
      /\ DOMAIN lines = 1 .. Len(lines) /\ DOMAIN lines' = 1 .. n
      /\ lines' \in Seq([section : Sections] \cup Entries)
      /\ lines'[n] = e
      /\ \A f : \A i \in 1 .. Len(lines) : i \in Assigned(f)' <=> i \in Assigned(f)
      /\ \A i \in 1 .. Len(lines) : lines'[i] = lines[i] /\ (IsSection(i)' <=> IsSection(i))
  BY <1>0, LineAdded
<1>2. ~ IsSection(n)'
  BY <1>1, EntriesAreNoHeaders DEF IsSection
<1>3. SectionInv'
  <2>1. CASE section = NoText /\ \A h \in DOMAIN lines : ~ IsSection(h)
    BY <1>0, <1>1, <1>2, <2>1 DEF SectionInv
  <2>2. CASE \E h \in DOMAIN lines :
               /\ IsSection(h) /\ lines[h].section = section
               /\ \A k \in h + 1 .. Len(lines) : ~ IsSection(k)
    <3>1. PICK h \in DOMAIN lines :
            /\ IsSection(h) /\ lines[h].section = section
            /\ \A k \in h + 1 .. Len(lines) : ~ IsSection(k)
      BY <2>2
    <3>2. h \in DOMAIN lines' /\ IsSection(h)' /\ lines'[h].section = section'
      BY <1>0, <1>1, <3>1
    <3>3. ASSUME NEW k \in h + 1 .. Len(lines') PROVE ~ IsSection(k)'
      <4>1. (k \in 1 .. Len(lines) /\ k \in h + 1 .. Len(lines)) \/ k = n
        BY <1>1, <3>1
      <4> QED
        BY <1>1, <1>2, <3>1, <4>1
    <3> QED
      BY <3>2, <3>3 DEF SectionInv
  <2> QED
    BY <2>1, <2>2 DEF FileInv, SectionInv
\* The line is the setting's exactly when section and key are.
<1>4. ASSUME NEW f \in Fields
      PROVE  n \in Assigned(f)' <=> <<section, e.key>> = Place[f]
  <2>1. Place[f] = <<Place[f][1], Place[f][2]>> /\ Place[f][1] # NoText
    BY PlaceIs
  <2>2. n \in Assigned(f)' <=>
          /\ e.key = Place[f][2]
          /\ \E h \in 1 .. n - 1 :
               /\ IsSection(h)' /\ lines'[h].section = Place[f][1]
               /\ \A k \in h + 1 .. n - 1 : ~ IsSection(k)'
    BY <1>1, <1>2 DEF Assigned
  <2>3. n - 1 = Len(lines)
    BY <1>1
  <2>4. n \in Assigned(f)' <=>
          /\ e.key = Place[f][2]
          /\ \E h \in 1 .. Len(lines) :
               /\ IsSection(h) /\ lines[h].section = Place[f][1]
               /\ \A k \in h + 1 .. Len(lines) : ~ IsSection(k)
    <3>1. \A h \in 1 .. Len(lines) : \A k \in h + 1 .. Len(lines) : k \in 1 .. Len(lines)
      BY <1>1
    <3> QED
      BY <1>1, <2>2, <2>3, <3>1
  <2>5. CASE section = NoText /\ \A h \in DOMAIN lines : ~ IsSection(h)
    <3>1. n \notin Assigned(f)'
      BY <1>1, <2>4, <2>5
    <3>2. <<section, e.key>> # Place[f]
      BY <2>1, <2>5
    <3> QED
      BY <3>1, <3>2
  <2>6. CASE \E h \in DOMAIN lines :
               /\ IsSection(h) /\ lines[h].section = section
               /\ \A k \in h + 1 .. Len(lines) : ~ IsSection(k)
    <3>1. PICK h \in 1 .. Len(lines) :
            /\ IsSection(h) /\ lines[h].section = section
            /\ \A k \in h + 1 .. Len(lines) : ~ IsSection(k)
      BY <1>1, <2>6
    <3>2. ASSUME NEW g \in 1 .. Len(lines), IsSection(g),
                 \A k \in g + 1 .. Len(lines) : ~ IsSection(k)
          PROVE  g = h
      <4>1. ~ (g < h) /\ ~ (h < g)
        BY <1>1, <3>1, <3>2
      <4> QED
        BY <1>1, <4>1
    <3>3. n \in Assigned(f)' <=> e.key = Place[f][2] /\ section = Place[f][1]
      BY <2>4, <3>1, <3>2
    <3> QED
      BY <2>1, <3>3
  <2> QED
    BY <2>5, <2>6 DEF FileInv, SectionInv
<1>5. ASSUME NEW f \in Fields, <<section, e.key>> = Place[f]
      PROVE  InFile(f)' /\ ini'[Place[f]] = e.value
  <2>1. section # NoText
    BY <1>5, PlaceIs
  <2> QED
    BY <1>5, <2>1 DEF ReadEntry, InFile
<1>6. ASSUME NEW f \in Fields, <<section, e.key>> # Place[f]
      PROVE  (InFile(f)' <=> InFile(f)) /\ (InFile(f) => ini'[Place[f]] = ini[Place[f]])
  BY <1>6 DEF ReadEntry, InFile
<1>7. ASSUME NEW f \in Fields
      PROVE  \/ Assigned(f)' = {} /\ ~ InFile(f)'
             \/ \E m \in Assigned(f)' :
                  /\ \A i \in Assigned(f)' : i <= m
                  /\ InFile(f)' /\ ini'[Place[f]] = lines'[m].value
  <2>1. Assigned(f)' \subseteq 1 .. n /\ Assigned(f) \subseteq 1 .. Len(lines)
    BY <1>1 DEF Assigned
  <2>2. CASE <<section, e.key>> = Place[f]
    <3>1. n \in Assigned(f)' /\ InFile(f)' /\ ini'[Place[f]] = lines'[n].value
      BY <1>1, <1>4, <1>5, <2>2
    <3>2. \A i \in Assigned(f)' : i <= n
      BY <1>1, <2>1
    <3> QED
      BY <3>1, <3>2
  <2>3. CASE <<section, e.key>> # Place[f]
    <3>1. n \notin Assigned(f)'
      BY <1>4, <2>3
    <3>2. Assigned(f)' = Assigned(f)
      <4>1. \A i \in 1 .. Len(lines) : i \in Assigned(f)' <=> i \in Assigned(f)
        BY <1>1
      <4>2. \A i \in 1 .. n : i \in 1 .. Len(lines) \/ i = n
        BY <1>1
      <4>3. Assigned(f)' \subseteq 1 .. Len(lines)
        BY <2>1, <3>1, <4>2
      <4> QED
        BY <2>1, <4>1, <4>3
    <3>3. \A m \in Assigned(f) : lines'[m] = lines[m]
      BY <1>1, <2>1
    <3>4. \/ Assigned(f) = {} /\ ~ InFile(f)
          \/ \E m \in Assigned(f) :
               /\ \A i \in Assigned(f) : i <= m
               /\ InFile(f) /\ ini[Place[f]] = lines[m].value
      BY DEF FileInv, EntryInv
    <3> QED
      BY <1>6, <2>3, <3>2, <3>3, <3>4
  <2> QED
    BY <2>2, <2>3
<1>8. EntryInv'
  BY <1>7 DEF EntryInv
<1> QED
  BY <1>1, <1>3, <1>8 DEF FileInv

\* What parseINI kept is what the lines say.
LEMMA FileIsLines ==
  ASSUME FileInv, NEW f \in Fields
  PROVE  /\ InFile(f) <=> Assigned(f) # {}
         /\ InFile(f) => ini[Place[f]] = LastEntry(f)
<1>1. Assigned(f) \in SUBSET Int
  BY LenProperties DEF Assigned, FileInv
<1>2. CASE Assigned(f) = {} /\ ~ InFile(f)
  BY <1>2
<1>3. CASE \E m \in Assigned(f) :
             /\ \A i \in Assigned(f) : i <= m
             /\ InFile(f) /\ ini[Place[f]] = lines[m].value
  <2>1. PICK m \in Assigned(f) :
          /\ \A i \in Assigned(f) : i <= m
          /\ InFile(f) /\ ini[Place[f]] = lines[m].value
    BY <1>3
  <2>2. Max(Assigned(f)) = m
    BY <1>1, <2>1, GreatestIs
  <2> QED
    BY <2>1, <2>2 DEF LastEntry
<1> QED
  BY <1>2, <1>3 DEF FileInv, EntryInv


LEMMA UnparsableIsUnreadable ==
  ASSUME FileInv
  PROVE  Unparsable <=> Unreadable
<1>1. NumberFields \subseteq Fields
  BY DEF Fields
<1> QED
  BY <1>1, FileIsLines DEF Unparsable, Unreadable

\* What every step but the reading of a line does to the file's state.
LEMMA FileStep ==
  ASSUME FileInv, Next
  PROVE  FileInv'
<1>1. ASSUME NEW s \in Sections, ReadSection(s) PROVE FileInv'
  BY <1>1, ReadSectionFile
<1>2. ASSUME NEW e \in Entries, ReadEntry(e) PROVE FileInv'
  BY <1>2, ReadEntryFile
<1>3. ASSUME lines' = lines /\ section' = section /\ ini' = ini PROVE FileInv'
  BY <1>3, FileSame
<1> QED
  BY <1>1, <1>2, <1>3
     DEF Next, ReadOption, OptionEnds, EndOfOptions, Open, EndOfFile, ApplyFile,
         OverrideFromEnvironment, Validate, Override, StartComponent, read

LEMMA OptionsStep ==
  ASSUME OptionsInv, Next
  PROVE  OptionsInv'
  BY ReadOptionOptions, OptionEndsOptions, LoadingOptions DEF Next, Loading

-----------------------------------------------------------------------------
\* What each phase has established.

LEMMA ReadOptionRest ==
  ASSUME OptionsInv, LoadingInv, StartingInv, NEW a \in Arguments, ReadOption(a) \/ OptionEnds(a)
  PROVE  LoadingInv' /\ StartingInv'
<1>1. /\ phase = "options" /\ phase' \in Stopped \cup {"options"}
      /\ lines' = lines /\ environment' = environment /\ settings' = settings
  BY DEF ReadOption, OptionEnds, Stopped
<1> QED
  BY <1>1 DEF LoadingInv, StartingInv, Stopped, Ready

LEMMA EndOfOptionsRest ==
  ASSUME OptionsInv, LoadingInv, StartingInv, EndOfOptions
  PROVE  LoadingInv' /\ StartingInv'
<1>1. /\ phase = "options" /\ options' = options
      /\ lines' = lines /\ environment' = environment /\ settings' = settings
      /\ phase' = IF options.config # NoText THEN "open" ELSE "override"
  BY DEF EndOfOptions, read
<1>2. lines = <<>> /\ environment = <<>> /\ settings = Default
  BY <1>1 DEF LoadingInv
<1>3. CASE options.config # NoText
  BY <1>1, <1>2, <1>3 DEF LoadingInv, StartingInv, Stopped, Ready
<1>4. CASE options.config = NoText
  BY <1>1, <1>2, <1>4 DEF LoadingInv, StartingInv, Stopped, Ready
<1> QED
  BY <1>3, <1>4

LEMMA OpenRest ==
  ASSUME LoadingInv, StartingInv, Open
  PROVE  LoadingInv' /\ StartingInv'
<1>1. /\ phase = "open" /\ phase' \in {"parse", "failed"} /\ options' = options
      /\ lines' = lines /\ environment' = environment /\ settings' = settings
  BY DEF Open, read
<1>2. lines = <<>> /\ environment = <<>> /\ settings = Default /\ options.config # NoText
  BY <1>1 DEF LoadingInv
<1> QED
  BY <1>1, <1>2 DEF LoadingInv, StartingInv, Stopped, Ready

LEMMA ParseRest ==
  ASSUME LoadingInv, StartingInv,
         \/ \E s \in Sections : ReadSection(s)
         \/ \E e \in Entries : ReadEntry(e)
         \/ EndOfFile
  PROVE  LoadingInv' /\ StartingInv'
<1>1. /\ phase = "parse" /\ phase' \in {"parse", "apply"} /\ options' = options
      /\ environment' = environment /\ settings' = settings
  BY DEF ReadSection, ReadEntry, EndOfFile, read
<1>2. environment = <<>> /\ settings = Default /\ options.config # NoText
  BY <1>1 DEF LoadingInv
<1> QED
  BY <1>1, <1>2 DEF LoadingInv, StartingInv, Stopped, Ready

LEMMA ApplyFileRest ==
  ASSUME FileInv, LoadingInv, StartingInv, ApplyFile
  PROVE  LoadingInv' /\ StartingInv'
<1>1. /\ phase = "apply" /\ options' = options /\ environment' = environment /\ lines' = lines
  BY DEF ApplyFile, read
<1>2. environment = <<>> /\ settings = Default /\ options.config # NoText
  BY <1>1 DEF LoadingInv
<1>3. (Unreadable' <=> Unreadable) /\ (Unparsable <=> Unreadable)
  BY <1>1, LinesStay, UnparsableIsUnreadable
<1>4. CASE Unparsable
  <2>1. phase' = "failed"
    BY <1>4 DEF ApplyFile
  <2> QED
    BY <1>1, <1>2, <1>3, <1>4, <2>1 DEF LoadingInv, StartingInv, Stopped, Ready
<1>5. CASE ~ Unparsable
  <2>1. /\ phase' = "environment"
        /\ settings' = [f \in Fields |->
             IF ~ InFile(f) THEN settings[f]
             ELSE IF f \in NumberFields THEN Numeral[ini[Place[f]]] ELSE ini[Place[f]]]
    BY <1>5 DEF ApplyFile
  <2>2. ASSUME NEW f \in Fields PROVE settings'[f] = FromFile(f)'
    <3>1. FromFile(f)' = FromFile(f)
      BY <1>1, LinesStay
    <3>2. settings'[f] = FromFile(f)
      BY <1>2, <2>1, FileIsLines DEF FromFile
    <3> QED
      BY <3>1, <3>2
  <2> QED
    BY <1>1, <1>2, <1>3, <1>5, <2>1, <2>2 DEF LoadingInv, StartingInv, Stopped, Ready
<1> QED
  BY <1>4, <1>5

LEMMA EnvironmentRest ==
  ASSUME LoadingInv, StartingInv, NEW env \in Environments, OverrideFromEnvironment(env)
  PROVE  LoadingInv' /\ StartingInv'
<1>1. /\ phase = "environment" /\ phase' = "validate" /\ options' = options /\ lines' = lines
      /\ environment' = env
      /\ settings' = [f \in Fields |-> IF f \in EnvFields /\ env[f] # NoText THEN env[f] ELSE settings[f]]
  BY DEF OverrideFromEnvironment
<1>2. ~ Unreadable /\ options.config # NoText /\ \A f \in Fields : settings[f] = FromFile(f)
  BY <1>1 DEF LoadingInv
<1>3. ~ Unreadable'
  BY <1>1, <1>2, LinesStay
<1>4. ASSUME NEW f \in Fields PROVE settings'[f] = Loaded(f)'
  <2>1. FromEnvironment(f)' <=> f \in EnvFields /\ env[f] # NoText
    BY <1>1, InputAssumption DEF FromEnvironment
  <2>2. Loaded(f)' = IF FromEnvironment(f)' THEN env[f] ELSE FromFile(f)'
    BY <1>1 DEF Loaded, FromFile
  <2>3. FromFile(f)' = FromFile(f)
    BY <1>1, LinesStay
  <2> QED
    BY <1>1, <1>2, <2>1, <2>2, <2>3
<1> QED
  BY <1>1, <1>2, <1>3, <1>4 DEF LoadingInv, StartingInv, Stopped, Ready

LEMMA ValidateRest ==
  ASSUME LoadingInv, StartingInv, Validate
  PROVE  LoadingInv' /\ StartingInv'
<1>1. /\ phase = "validate" /\ options' = options /\ lines' = lines /\ environment' = environment
      /\ settings' = settings
      /\ phase' = IF \A f \in Fields : Valid(f, settings[f]) THEN "override" ELSE "failed"
  BY DEF Validate, read
<1>2. ~ Unreadable /\ options.config # NoText /\ \A f \in Fields : settings[f] = Loaded(f)
  BY <1>1 DEF LoadingInv
<1>3. ~ Unreadable' /\ \A f \in Fields : Loaded(f)' = Loaded(f)
  BY <1>1, <1>2, LinesStay, InputStays
<1>4. CASE \A f \in Fields : Valid(f, settings[f])
  <2>1. \A f \in Fields : Valid(f, Loaded(f)')
    BY <1>2, <1>3, <1>4
  <2>2. \A f \in Fields : Valid(f, Loaded(f))'
    BY <2>1 DEF Valid
  <2> QED
    BY <1>1, <1>2, <1>3, <1>4, <2>2 DEF LoadingInv, StartingInv, Stopped, Ready
<1>5. CASE ~ \A f \in Fields : Valid(f, settings[f])
  <2>1. PICK f \in Fields : ~ Valid(f, settings[f])
    BY <1>5
  <2>2. ~ Valid(f, Loaded(f))'
    BY <1>2, <1>3, <2>1 DEF Valid
  <2> QED
    BY <1>1, <1>2, <1>5, <2>2 DEF LoadingInv, StartingInv, Stopped, Ready
<1> QED
  BY <1>4, <1>5

\* The option that overrides a setting has its value from the command line.
LEMMA OverrideIsArgument ==
  ASSUME OptionsInv, phase \notin Stopped, NEW f \in Fields
  PROVE  /\ Overridden(f) <=> FromCommandLine(f)
         /\ Overridden(f) => options[OverrideOf(program)[f]] = Argument(OverrideOf(program)[f])
<1>1. CASE f \in DOMAIN OverrideOf(program)
  <2>1. OverrideOf(program)[f] \in TextOptions(program) \cup NumberOptions(program)
    BY <1>1, OverrideIs DEF OptionsInv
  <2>2. options[OverrideOf(program)[f]] = Argument(OverrideOf(program)[f])
    BY <2>1, OptionIsArgument
  <2> QED
    BY <1>1, <2>2 DEF Overridden, FromCommandLine
<1>2. CASE f \notin DOMAIN OverrideOf(program)
  BY <1>2 DEF Overridden, FromCommandLine
<1> QED
  BY <1>1, <1>2

LEMMA OverrideRest ==
  ASSUME OptionsInv, LoadingInv, StartingInv, Override
  PROVE  LoadingInv' /\ StartingInv'
<1>1. /\ phase = "override" /\ phase' \in {"start", "printed"} /\ program' = program /\ argv' = argv
      /\ options' = options /\ lines' = lines /\ environment' = environment
      /\ settings' = [f \in Fields |->
           IF Overridden(f) THEN options[OverrideOf(program)[f]] ELSE settings[f]]
  BY DEF Override, read
<1>2. \A f : Loaded(f)' = Loaded(f)
  BY <1>1, InputStays
<1>3. \A f : (FromCommandLine(f)' <=> FromCommandLine(f))
  BY <1>1, ArgumentsStay
<1>4. \A o : Argument(o)' = Argument(o)
  BY <1>1, ArgumentsStay
<1>5. ASSUME NEW f \in Fields PROVE settings'[f] = Effective(f)'
  <2>1. settings[f] = IF options.config = NoText THEN Default[f] ELSE Loaded(f)
    BY <1>1 DEF StartingInv
  <2>2. /\ Overridden(f) <=> FromCommandLine(f)
        /\ Overridden(f) => options[OverrideOf(program)[f]] = Argument(OverrideOf(program)[f])
    BY <1>1, OverrideIsArgument DEF Stopped
  <2>3. settings'[f] = Effective(f)
    BY <1>1, <2>1, <2>2 DEF Effective
  <2>4. Effective(f)' = Effective(f)
    BY <1>1, <1>2, <1>3, <1>4 DEF Effective
  <2> QED
    BY <2>3, <2>4
<1>6. options.config # NoText => ~ Unreadable' /\ \A f \in Fields : Valid(f, Loaded(f))'
  <2>1. options.config # NoText => ~ Unreadable /\ \A f \in Fields : Valid(f, Loaded(f))
    BY <1>1 DEF StartingInv, Ready
  <2>2. \A f : Valid(f, Loaded(f))' <=> Valid(f, Loaded(f))
    BY <1>2 DEF Valid
  <2> QED
    BY <1>1, <2>1, <2>2, LinesStay
<1> QED
  BY <1>1, <1>5, <1>6 DEF LoadingInv, StartingInv, Stopped, Ready

LEMMA StartRest ==
  ASSUME OptionsInv, LoadingInv, StartingInv, StartComponent
  PROVE  LoadingInv' /\ StartingInv'
<1>1. /\ phase = "start" /\ phase' = "started" /\ program' = program /\ argv' = argv
      /\ options' = options /\ lines' = lines /\ environment' = environment /\ settings' = settings
      /\ component' = [f \in Handed(program) \cup DOMAIN Tuning |->
                         IF f \in Handed(program) THEN settings[f] ELSE Tuning[f]]
  BY DEF StartComponent, read
<1>2. \A f : Loaded(f)' = Loaded(f)
  BY <1>1, InputStays
<1>3. \A f : Effective(f)' = Effective(f)
  <2>1. \A f : (FromCommandLine(f)' <=> FromCommandLine(f))
    BY <1>1, ArgumentsStay
  <2>2. \A o : Argument(o)' = Argument(o)
    BY <1>1, ArgumentsStay
  <2> QED
    BY <1>1, <1>2, <2>1, <2>2 DEF Effective
<1>4. \A f \in Fields : settings'[f] = Effective(f)'
  BY <1>1, <1>3 DEF StartingInv, Ready
<1>5. options.config # NoText => ~ Unreadable' /\ \A f \in Fields : Valid(f, Loaded(f))'
  <2>1. options.config # NoText => ~ Unreadable /\ \A f \in Fields : Valid(f, Loaded(f))
    BY <1>1 DEF StartingInv, Ready
  <2>2. \A f : Valid(f, Loaded(f))' <=> Valid(f, Loaded(f))
    BY <1>2 DEF Valid
  <2> QED
    BY <1>1, <2>1, <2>2, LinesStay
<1>6. \A f \in Handed(program)' : component'[f] = settings'[f]
  BY <1>1 DEF Handed
<1> QED
  BY <1>1, <1>4, <1>5, <1>6 DEF LoadingInv, StartingInv, Stopped, Ready


LEMMA LoadingStep ==
  ASSUME OptionsInv, FileInv, LoadingInv, StartingInv, Next
  PROVE  LoadingInv' /\ StartingInv'
  BY ReadOptionRest, EndOfOptionsRest, OpenRest, ParseRest, ApplyFileRest, EnvironmentRest,
     ValidateRest, OverrideRest, StartRest DEF Next

-----------------------------------------------------------------------------
\* The types.

LEMMA SettingsStay ==
  ASSUME TypeOK, OptionsInv', settings' = settings, phase' # "started",
         phase' \in {"options", "usage", "rejected", "terminated", "open", "parse", "apply",
                     "environment", "validate", "override", "printed", "failed", "start"}
  PROVE  TypeOK'
  BY DEF TypeOK, OptionsInv

LEMMA TypeStep ==
  ASSUME TypeOK, OptionsInv, OptionsInv', Next
  PROVE  TypeOK'
<1>1. ASSUME NEW a \in Arguments, ReadOption(a) \/ OptionEnds(a) PROVE TypeOK'
  BY <1>1, SettingsStay DEF ReadOption, OptionEnds
<1>2. CASE EndOfOptions \/ Open \/ EndOfFile \/ Validate
  BY <1>2, SettingsStay DEF EndOfOptions, Open, EndOfFile, Validate
<1>3. CASE (\E s \in Sections : ReadSection(s)) \/ (\E e \in Entries : ReadEntry(e))
  BY <1>3, SettingsStay DEF ReadSection, ReadEntry
<1>4. CASE ApplyFile
  <2>1. CASE Unparsable
    BY <1>4, <2>1, SettingsStay DEF ApplyFile
  <2>2. CASE ~ Unparsable
    <3>1. /\ phase' = "environment"
          /\ settings' = [f \in Fields |->
               IF ~ InFile(f) THEN settings[f]
               ELSE IF f \in NumberFields THEN Numeral[ini[Place[f]]] ELSE ini[Place[f]]]
      BY <1>4, <2>2 DEF ApplyFile
    <3>2. ASSUME NEW f \in NumberFields PROVE settings'[f] \in Int
      <4>1. f \in Fields
        BY DEF Fields
      <4>2. settings'[f] = IF ~ InFile(f) THEN settings[f] ELSE Numeral[ini[Place[f]]]
        BY <3>1, <4>1
      <4>3. InFile(f) => Numeral[ini[Place[f]]] \in Int
        BY <2>2, TextAssumption DEF Unparsable
      <4>4. settings[f] \in Int
        BY DEF TypeOK
      <4> QED
        BY <4>2, <4>3, <4>4
    <3> QED
      BY <3>1, <3>2 DEF TypeOK, OptionsInv
  <2> QED
    BY <2>1, <2>2
<1>5. ASSUME NEW env \in Environments, OverrideFromEnvironment(env) PROVE TypeOK'
  <2>1. ASSUME NEW f \in NumberFields PROVE settings'[f] \in Int
    <3>1. f \in Fields /\ f \notin EnvFields
      BY DEF Fields, NumberFields, EnvFields
    <3>2. settings'[f] = settings[f]
      BY <1>5, <3>1 DEF OverrideFromEnvironment
    <3> QED
      BY <3>2 DEF TypeOK
  <2> QED
    BY <1>5, <2>1 DEF OverrideFromEnvironment, TypeOK, OptionsInv
<1>6. CASE Override
  <2>1. ASSUME NEW f \in NumberFields PROVE settings'[f] \in Int
    <3>1. f \in Fields
      BY DEF Fields
    <3>2. settings'[f] = IF Overridden(f) THEN options[OverrideOf(program)[f]] ELSE settings[f]
      BY <1>6, <3>1 DEF Override
    <3>3. phase \notin Stopped
      BY <1>6 DEF Override, Stopped
    <3>4. Overridden(f) => options[OverrideOf(program)[f]] \in Int
      BY <3>3, OptionIsArgument, OverrideIs DEF Overridden, OptionsInv
    <3> QED
      BY <3>2, <3>4 DEF TypeOK
  <2>2. phase' \in {"printed", "start"}
    BY <1>6 DEF Override
  <2> QED
    BY <2>1, <2>2 DEF TypeOK, OptionsInv
<1>7. CASE StartComponent
  <2>1. /\ phase = "start" /\ phase' = "started" /\ settings' = settings /\ program' = program
        /\ component' = [f \in Handed(program) \cup DOMAIN Tuning |->
                           IF f \in Handed(program) THEN settings[f] ELSE Tuning[f]]
    BY <1>7 DEF StartComponent
  <2>2. Handed(program)' \subseteq DOMAIN component'
    BY <2>1 DEF Handed
  <2>3. ASSUME program = "subscriber"
        PROVE  component'["max_gap_tolerance"] > 0 /\ component'["duplicate_window_size"] > 0
    <3>1. program \in Programs /\ phase \notin Stopped
      BY <2>1 DEF OptionsInv, Stopped
    <3>2. options.gap_tolerance \in Int /\ options.duplicate_window \in Int
      <4>1. {"gap_tolerance", "duplicate_window"} \subseteq NumberOptions(program)
        BY <2>3 DEF NumberOptions
      <4> QED
        BY <3>1, <4>1, OptionIsArgument
    <3>3. /\ {"max_gap_tolerance", "duplicate_window_size"} \subseteq DOMAIN Tuning
          /\ Tuning["max_gap_tolerance"] =
               IF options.gap_tolerance > 0 THEN options.gap_tolerance ELSE 5
          /\ Tuning["duplicate_window_size"] =
               IF options.duplicate_window > 0 THEN options.duplicate_window ELSE 1000
      BY <2>3 DEF Tuning
    <3>4. "max_gap_tolerance" \notin Handed(program) /\ "duplicate_window_size" \notin Handed(program)
      BY <3>1, HandedIs
    <3>5. /\ component'["max_gap_tolerance"] = Tuning["max_gap_tolerance"]
          /\ component'["duplicate_window_size"] = Tuning["duplicate_window_size"]
      BY <2>1, <3>3, <3>4
    <3> QED
      BY <3>2, <3>3, <3>5
  <2> QED
    BY <2>1, <2>2, <2>3 DEF TypeOK, OptionsInv
<1> QED
  BY <1>1, <1>2, <1>3, <1>4, <1>5, <1>6, <1>7 DEF Next

-----------------------------------------------------------------------------
LEMMA ConfigInvInit == Init => ConfigInv
<1> SUFFICES ASSUME Init PROVE ConfigInv
  OBVIOUS
<1>1. program \in Programs /\ phase = "options" /\ lines = <<>> /\ argv = <<>>
  BY DEF Init
<1>2. TypeOK
  <2>1. options = NoOptions(program) /\ settings = Default
    BY DEF Init
  <2>2. DOMAIN options = TextOptions(program) \cup NumberOptions(program) \cup Flags(program)
    BY <1>1, <2>1, NoOptionsIs
  <2>3. \A f \in NumberFields : settings[f] \in Int
    BY <2>1, DefaultIs
  <2> QED
    BY <1>1, <2>2, <2>3 DEF TypeOK
<1>3. OptionsInv
  <2>1. options = NoOptions(program) /\ argv \in Seq(Arguments)
    BY <1>1 DEF Init
  <2>2. DOMAIN options = TextOptions(program) \cup NumberOptions(program) \cup Flags(program)
    BY <1>1, <2>1, NoOptionsIs
  <2>3. \A o : GivenAt(o) = {}
    BY <1>1 DEF GivenAt
  <2> QED
    BY <1>1, <2>1, <2>2, <2>3 DEF OptionsInv
<1>4. FileInv
  <2>1. \A f : Assigned(f) = {}
    BY <1>1 DEF Assigned
  <2>2. \A f : ~ InFile(f)
    BY DEF Init, InFile
  <2> QED
    BY <1>1, <2>1, <2>2 DEF Init, FileInv, SectionInv, EntryInv
<1>5. LoadingInv /\ StartingInv
  BY <1>1 DEF Init, LoadingInv, StartingInv, Ready, Stopped
<1> QED
  BY <1>2, <1>3, <1>4, <1>5 DEF ConfigInv

LEMMA ConfigInvNext == ConfigInv /\ [Next]_vars => ConfigInv'
<1> SUFFICES ASSUME ConfigInv, [Next]_vars PROVE ConfigInv'
  OBVIOUS
<1>1. CASE Next
  BY <1>1, OptionsStep, FileStep, LoadingStep, TypeStep DEF ConfigInv
<1>2. CASE UNCHANGED vars
  <2>1. /\ program' = program /\ phase' = phase /\ argv' = argv /\ lines' = lines
        /\ environment' = environment /\ options' = options /\ section' = section /\ ini' = ini
        /\ settings' = settings /\ component' = component
    BY <1>2 DEF vars, read
  <2>2. OptionsInv' /\ FileInv'
    BY <2>1, OptionsSame, FileSame DEF ConfigInv
  <2>3. TypeOK'
    BY <2>1 DEF ConfigInv, TypeOK, Handed, TextOptions, NumberOptions, Flags
  <2>4. /\ Unreadable' <=> Unreadable
        /\ \A f : Loaded(f)' = Loaded(f)
        /\ \A f : FromFile(f)' = FromFile(f)
        /\ \A f : Effective(f)' = Effective(f)
    <3>1. \A f : (FromCommandLine(f)' <=> FromCommandLine(f))
      BY <2>1, ArgumentsStay
    <3>2. \A o : Argument(o)' = Argument(o)
      BY <2>1, ArgumentsStay
    <3>3. \A f : Loaded(f)' = Loaded(f)
      BY <2>1, InputStays
    <3> QED
      BY <2>1, <3>1, <3>2, <3>3, LinesStay DEF Effective
  <2>5. \A f : Valid(f, Loaded(f))' <=> Valid(f, Loaded(f))
    BY <2>4 DEF Valid
  <2>6. LoadingInv'
    BY <2>1, <2>4, <2>5 DEF ConfigInv, LoadingInv
  <2>7. StartingInv'
    BY <2>1, <2>4, <2>5 DEF ConfigInv, StartingInv, Handed
  <2> QED
    BY <2>2, <2>3, <2>6, <2>7 DEF ConfigInv
<1> QED
  BY <1>1, <1>2

LEMMA ConfigInvariant == Spec => []ConfigInv
  BY ConfigInvInit, ConfigInvNext, PTL DEF Spec

LEMMA ConfigArgument ==
  ASSUME OptionsInv, phase \notin Stopped
  PROVE  options.config = Argument("config")
<1>1. "config" \in TextOptions(program)
  BY DEF TextOptions
<1> QED
  BY <1>1, OptionIsArgument

LEMMA StartedWith ==
  ASSUME ConfigInv, phase = "started", NEW f \in Handed(program)
  PROVE  f \in Fields /\ component[f] = Effective(f) /\ options.config = Argument("config")
<1>1. f \in Fields
  BY HandedIs DEF ConfigInv, OptionsInv
<1>2. component[f] = settings[f] /\ settings[f] = Effective(f)
  BY <1>1 DEF ConfigInv, StartingInv, Ready
<1> QED
  BY <1>1, <1>2, ConfigArgument DEF ConfigInv, Stopped

(* The settings have their kinds and the numbers that the subscriber sizes *)
(* its window with are positive, whatever options, file and environment    *)
(* main() and ConfigLoader are given.                                      *)
THEOREM ConfigTypes == Spec => []TypeOK
<1>1. ConfigInv => TypeOK
  BY DEF ConfigInv
<1> QED
  BY <1>1, ConfigInvariant, PTL

(* What main() hands to the component is, setting by setting, the last     *)
(* option, else with a file the environment, else the last entry below its *)
(* section, else the default: the order in which ConfigLoader overwrites   *)
(* AeronSettings amounts to this precedence for every input.               *)
THEOREM PrecedenceKept == Spec => []EffectiveSettings
<1>1. ConfigInv => EffectiveSettings
  BY StartedWith DEF EffectiveSettings, Effective
<1> QED
  BY <1>1, ConfigInvariant, PTL

(* AeronSettings::validate() protects the component from everything but    *)
(* the command line, and no channel handed over is empty.                  *)
THEOREM ValidatedOrFromCommandLine == Spec => []InvalidOnlyFromCommandLine
<1>1. ASSUME ConfigInv, phase = "started", NEW f \in Handed(program), ~ FromCommandLine(f)
      PROVE  Valid(f, component[f])
  <2>1. /\ f \in Fields
        /\ component[f] = IF options.config = NoText THEN Default[f] ELSE Loaded(f)
    BY <1>1, StartedWith DEF Effective
  <2>2. CASE options.config = NoText
    BY <2>1, <2>2, DefaultIs
  <2>3. CASE options.config # NoText
    <3>1. Valid(f, Loaded(f))
      BY <1>1, <2>1, <2>3 DEF ConfigInv, StartingInv, Ready
    <3> QED
      BY <2>1, <2>3, <3>1
  <2> QED
    BY <2>2, <2>3
<1>2. ASSUME ConfigInv, phase = "started", NEW f \in Handed(program), FromCommandLine(f),
             f \in ChannelFields \cup {"aeron_dir"}
      PROVE  component[f] # NoText
  <2>1. component[f] = Argument(OverrideOf(program)[f])
    BY <1>2, StartedWith DEF Effective
  <2>2. OverrideOf(program)[f] \in TextOptions(program) /\ program \in Programs
    <3>1. f \notin NumberFields
      BY <1>2 DEF NumberFields, ChannelFields
    <3> QED
      BY <1>2, <3>1, OverrideIs DEF FromCommandLine, ConfigInv, OptionsInv
  <2>3. NoOptions(program)[OverrideOf(program)[f]] = NoText
    BY <2>2, NoOptionsIs
  <2> QED
    BY <1>2, <2>1, <2>3 DEF FromCommandLine
<1>3. ASSUME NEW f \in ChannelFields \cup {"aeron_dir"}, NEW v, Valid(f, v) PROVE v # NoText
  BY <1>3, TextAssumption DEF Valid
<1>4. ConfigInv => InvalidOnlyFromCommandLine
  BY <1>1, <1>2, <1>3 DEF InvalidOnlyFromCommandLine
<1> QED
  BY <1>4, ConfigInvariant, PTL

(* loadFromFile() fails for a cause only, and a program that goes on after *)
(* it has a file without any: also for settings it does not use.           *)
THEOREM FailsForCause == Spec => []FailsExactlyForCause
<1>1. ConfigInv => FailsExactlyForCause
  <2> SUFFICES ASSUME ConfigInv PROVE FailsExactlyForCause
    OBVIOUS
  <2>1. phase = "failed" =>
          \/ lines = <<>> /\ environment = <<>>
          \/ Unreadable
          \/ \E f \in Fields : ~ Valid(f, Loaded(f))
    BY DEF ConfigInv, LoadingInv
  <2>2. ASSUME phase \in {"start", "started", "printed"}, Argument("config") # NoText
        PROVE  ~ Unreadable /\ \A f \in Fields : Valid(f, Loaded(f))
    <3>1. options.config # NoText
      BY <2>2, ConfigArgument DEF ConfigInv, Stopped
    <3> QED
      BY <2>2, <3>1 DEF ConfigInv, StartingInv, Ready
  <2> QED
    BY <2>1, <2>2 DEF FailsExactlyForCause
<1> QED
  BY <1>1, ConfigInvariant, PTL
=============================================================================
