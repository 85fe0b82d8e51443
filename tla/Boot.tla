-------------------------------- MODULE Boot --------------------------------
(***************************************************************************)
(* How a worker comes up: aya_init, application_create, the INI parser of  *)
(* core/ini.c with its handler load_config_tree, validate_config, the log  *)
(* file, the overrides application_env takes from the environment, and     *)
(* database_init; then the release at an unload, after which Kore loads    *)
(* the module again in the same process, perhaps with another file.        *)
(*                                                                         *)
(* The configuration is the map that AppTree implements under              *)
(* T_FLAG_READONLY (module TreeMap), every key being put with one type; a  *)
(* key is the pair of a section and a name.  A value is the sequence of    *)
(* its words, those of an environment variable joined by underscores.      *)
(***************************************************************************)
EXTENDS Naturals, Sequences, FiniteSets

CONSTANTS Files,        \* the configuration files there may be
          Environments, \* the environments the process may be started with
          Words,        \* the words of values
          Durations,    \* the words that are session times, 60 to 86400
          NONE,         \* no file, no value
          MaxReloads    \* bound of the model on module reloads

-----------------------------------------------------------------------------
(* What is read.  "none" stands for the empty string.                      *)

Sections == {"none", "app", "db", "dbrw", "dbr"}
Names == {"name", "env", "key", "domain", "storage", "instance", "debug", "session"}
Value == UNION {[1..n -> Words] : n \in 0..2}

\* A line of the file.  title is the section of a header or the name of an
\* item; a broken line is neither of these, and a comment may be blank.
Line == [kind : {"section"}, indented : BOOLEAN, title : Sections, value : {<<>>}]
        \cup [kind : {"item"}, indented : BOOLEAN, title : Names, value : Value]
        \cup [kind : {"broken", "comment"}, indented : BOOLEAN, title : {"none"}, value : Value]

\* An environment variable AYA_<SECTION>_<NAME>, or AYA_<NAME> when section
\* is "none".  Others are skipped, and left out.
Variable == [section : Sections, name : Names, value : Value]

ASSUME FilesAssumption == Files \subseteq Seq(Line) \cup {NONE}
ASSUME EnvironmentsAssumption == Environments \subseteq Seq(Variable)
ASSUME WordsAssumption == {"0", "1", "true"} \cup Durations \subseteq Words
ASSUME ReloadsAssumption == MaxReloads \in Nat
ASSUME NoneAssumption == NONE \notin Value \cup Seq(Line)

VARIABLES phase,      \* how far aya_init has come
          environ,    \* the environment of the process
          cut,        \* the variables that application_env has cut in pieces
          file,       \* the file that is loaded
          lineno,     \* ini_parse_stream: lines read of it; then the index
                      \* of application_env, a local of its own: variables read
          section,    \* ini_parse_stream: the section it is in
          prev_name,  \* and the name it has read last in it
          config,     \* the configuration tree
          instance,   \* the name of the instance, and NONE if it is a generated one
          log,        \* where the log file is, and NONE if it is not open
          databases,  \* registered connections
          reloads

vars == <<phase, environ, cut, file, lineno, section, prev_name, config, instance, log,
          databases, reloads>>

Phases == {"unloaded", "parsing", "checking", "logging", "environment", "bootstrap",
           "running", "aborted", "crashed"}

Init ==
    /\ phase = "unloaded"
    /\ environ \in Environments
    /\ cut = {}
    /\ file = NONE
    /\ lineno = 0
    /\ section = "none" /\ prev_name = "none"
    /\ config = <<>>
    /\ instance = NONE
    /\ log = NONE
    /\ databases = {}
    /\ reloads = 0

-----------------------------------------------------------------------------
(* load_config_tree, the handler of each definition of the file and of the *)
(* environment.                                                            *)

Debug == <<"none", "debug">>
Session == <<"app", "session">>

Has(k) == k \in DOMAIN config
Get(k) == IF Has(k) THEN config[k] ELSE NONE
With(c, k, v) == [l \in DOMAIN c \cup {k} |-> IF l = k THEN v ELSE c[l]]

\* Seeded fault: an empty item is let through.
NeverRejected(s, v) == FALSE

Rejected(s, v) == s = "app" /\ v = <<>>

\* What is stored: two keys hold numbers, 0 standing for what is not one.
Stored(k, v) ==
    CASE k = Debug -> IF v \in {<<"true">>, <<"1">>} THEN <<"1">> ELSE <<"0">>
      [] k = Session -> IF \E w \in Durations : v = <<w>> THEN v ELSE <<"0">>
      [] OTHER -> v

\* debug needs no section.
KeyOf(s, n) == IF n = "debug" THEN Debug ELSE <<s, n>>

load_config_tree(s, n, v) ==
    IF n = "instance" THEN config' = config /\ instance' = v
    ELSE config' = With(config, KeyOf(s, n), Stored(KeyOf(s, n), v)) /\ instance' = instance

\* A definition is handled; an abort ends the process.
Handle(s, n, v, next) ==
    \/ Rejected(s, v) /\ phase' = "aborted" /\ UNCHANGED <<config, instance>>
    \/ ~Rejected(s, v) /\ phase' = next /\ load_config_tree(s, n, v)

-----------------------------------------------------------------------------
(* Loading.                                                                *)

\* KORE_MODULE_LOAD: application_create, and ini_parse opens the file.
Load ==
    /\ phase = "unloaded"
    /\ \E f \in Files :
        /\ file' = f
        /\ phase' = IF f = NONE THEN "aborted" ELSE "parsing"
    /\ config' = <<>>
    /\ instance' = NONE
    /\ lineno' = 0
    /\ section' = "none" /\ prev_name' = "none"
    /\ UNCHANGED <<environ, cut, log, databases, reloads>>

\* The text of a line that is the continuation of another.
Text(l) == CASE l.kind = "item" -> <<l.title, "=">> [] l.kind = "section" -> <<"[", l.title>>
             [] OTHER -> l.value

Reading(kind) == phase = "parsing" /\ lineno < Len(file) /\ file[lineno + 1].kind = kind
L == file[lineno + 1]
Continuing == L.indented /\ prev_name # "none"
Read == lineno' = lineno + 1
Elsewhere == UNCHANGED <<environ, cut, file, log, databases, reloads>>

SkipLine ==
    /\ Reading("comment")
    /\ Read
    /\ UNCHANGED <<phase, section, prev_name, config, instance>> /\ Elsewhere

ReadContinuation ==
    /\ \E kind \in {"item", "section", "broken"} : Reading(kind)
    /\ Continuing
    /\ Handle(section, prev_name, Text(L), phase)
    /\ Read
    /\ UNCHANGED <<section, prev_name>> /\ Elsewhere

\* Seeded fault: the name read last is kept across the header.
ReadSectionKeepingName ==
    /\ Reading("section") /\ ~Continuing
    /\ section' = L.title
    /\ Read
    /\ UNCHANGED <<phase, prev_name, config, instance>> /\ Elsewhere

ReadSection ==
    /\ Reading("section") /\ ~Continuing
    /\ section' = L.title /\ prev_name' = "none"
    /\ Read
    /\ UNCHANGED <<phase, config, instance>> /\ Elsewhere

ReadItem ==
    /\ Reading("item") /\ ~Continuing
    /\ prev_name' = L.title
    /\ Handle(section, L.title, L.value, phase)
    /\ Read
    /\ UNCHANGED section /\ Elsewhere

\* The end of the file, or the first line in error: its number, which
\* ini_parse returns, is not below zero and application_config goes on.
EndOfFile ==
    /\ phase = "parsing"
    /\ \/ lineno = Len(file)
       \/ Reading("broken") /\ ~Continuing
    /\ phase' = "checking"
    /\ lineno' = 0 /\ section' = "none" /\ prev_name' = "none"
    /\ UNCHANGED <<config, instance>> /\ Elsewhere

Required == {<<"app", "name">>, <<"app", "env">>, <<"app", "key">>}

validate_config ==
    /\ phase = "checking"
    /\ \/ /\ ~\A k \in Required : Has(k)
          /\ phase' = "aborted"
          /\ UNCHANGED config
       \/ /\ \A k \in Required : Has(k)
          /\ phase' = "logging"
          /\ config' = IF Has(Debug) THEN config ELSE With(config, Debug, <<"0">>)
    /\ UNCHANGED <<lineno, section, prev_name, instance>> /\ Elsewhere

\* The rest of application_config; nothing looks at whether fopen succeeds.
OpenLog ==
    /\ phase = "logging"
    /\ phase' = "environment"
    /\ log' \in {NONE, <<"storage", Get(<<"none", "storage">>)>>}
    /\ UNCHANGED <<environ, cut, file, lineno, section, prev_name, config, instance,
                   databases, reloads>>

\* One round of application_env.  It writes string ends into the variable,
\* at the '=' and at the first '_', wherever that is: in an AYA_<NAME> it is
\* one of the value, or none.
Var == environ[lineno + 1]
Bare == Var.section = "none"
Misread == Bare /\ Len(Var.value) = 2

\* Seeded fault: the loop goes on without going to the next variable.
SkipVariableForever ==
    /\ phase = "environment" /\ lineno < Len(environ)
    /\ lineno + 1 \in cut
    /\ lineno' = lineno
    /\ UNCHANGED <<phase, cut, section, prev_name, config, instance>>
    /\ UNCHANGED <<environ, file, log, databases, reloads>>

\* Seeded fault: the index goes on where the variable is skipped, and once more
\* at the end of the round.
SkipVariableTwice ==
    /\ phase = "environment" /\ lineno < Len(environ)
    /\ lineno + 1 \in cut
    /\ lineno' = lineno + 2
    /\ UNCHANGED <<phase, cut, section, prev_name, config, instance>>
    /\ UNCHANGED <<environ, file, log, databases, reloads>>

\* A variable without '=', as it is once it has been cut.
SkipVariable ==
    /\ phase = "environment" /\ lineno < Len(environ)
    /\ lineno + 1 \in cut
    /\ Read
    /\ UNCHANGED <<phase, cut, section, prev_name, config, instance>>
    /\ UNCHANGED <<environ, file, log, databases, reloads>>

TakeVariable ==
    /\ phase = "environment" /\ lineno < Len(environ)
    /\ lineno + 1 \notin cut
    /\ cut' = cut \cup {lineno + 1}
    /\ \/ ~Misread /\ Handle(Var.section, Var.name, Var.value, phase)
       \/ Misread /\ Handle(Var.name, Var.value[2], <<Var.value[1]>>, phase)
    /\ Read
    /\ UNCHANGED <<section, prev_name>>
    /\ UNCHANGED <<environ, file, log, databases, reloads>>

EndOfEnvironment ==
    /\ phase = "environment" /\ lineno = Len(environ)
    /\ phase' = "bootstrap"
    /\ UNCHANGED <<lineno, section, prev_name, config, instance>> /\ Elsewhere

\* Seeded fault: a connection for reading takes the place of the other.
BootstrapOne ==
    /\ phase = "bootstrap"
    /\ phase' = "running"
    /\ databases' = databases \cup IF Has(<<"db", "name">>) THEN {"db"}
                                  ELSE IF Has(<<"dbr", "name">>) THEN {"dbr"}
                                  ELSE {d \in {"dbrw"} : Has(<<d, "name">>)}
    /\ UNCHANGED <<environ, cut, file, lineno, section, prev_name, config, instance, log, reloads>>

\* application_bootstrap: no provider has a load hook; database_init
\* registers a common database alone, or else those for its two uses.  Kore
\* keeps the connections it has registered across a reload.
Bootstrap ==
    /\ phase = "bootstrap"
    /\ phase' = "running"
    /\ databases' = databases \cup IF Has(<<"db", "name">>) THEN {"db"}
                                  ELSE {d \in {"dbrw", "dbr"} : Has(<<d, "name">>)}
    /\ UNCHANGED <<environ, cut, file, lineno, section, prev_name, config, instance, log, reloads>>

\* KORE_MODULE_UNLOAD, and Kore reloads the module, which forgets what Kore
\* does not keep.  application_release closes the log whether or not it is
\* open.
Release ==
    /\ phase = "running" /\ reloads < MaxReloads
    /\ reloads' = reloads + 1
    /\ \/ /\ log # NONE
          /\ phase' = "unloaded"
          /\ config' = <<>>
          /\ instance' = NONE
          /\ log' = NONE
       \/ /\ log = NONE
          /\ phase' = "crashed"
          /\ UNCHANGED <<config, instance, log>>
    /\ file' = NONE
    /\ UNCHANGED <<environ, cut, lineno, section, prev_name, databases>>

Boot == \/ Load \/ SkipLine \/ ReadContinuation \/ ReadSection \/ ReadItem \/ EndOfFile
        \/ validate_config \/ OpenLog \/ SkipVariable \/ TakeVariable \/ EndOfEnvironment
        \/ Bootstrap

Next == Boot \/ Release

Spec == Init /\ [][Next]_vars

\* aya_init runs to its end.
FairSpec == Spec /\ WF_vars(Boot)

-----------------------------------------------------------------------------
(* What a file says, read as a whole rather than line by line.             *)

\* A line continues an item if it is indented and there is an item before it
\* that no header at the margin separates it from.
Continues(i) ==
    /\ file[i].indented
    /\ \E j \in 1..(i - 1) :
         /\ file[j].kind = "item"
         /\ \A m \in (j + 1)..(i - 1) : file[m].kind = "section" => file[m].indented

Headers == {i \in DOMAIN file : file[i].kind = "section" /\ ~Continues(i)}
Items == {i \in DOMAIN file : file[i].kind = "item" /\ ~Continues(i)}
More == {i \in DOMAIN file : file[i].kind # "comment" /\ Continues(i)}
Errors == {i \in DOMAIN file : file[i].kind = "broken" /\ ~Continues(i)}

\* The last of the lines S before line i, if any; 0 is not a line.
LastBefore(S, i) == CHOOSE j \in S \cup {0} : /\ j < i
                                              /\ \A m \in S : m < i => m <= j
SectionOf(i) == LET h == LastBefore(Headers, i) IN IF h = 0 THEN "none" ELSE file[h].title
NameOf(i) == IF i \in Items THEN file[i].title ELSE file[LastBefore(Items, i)].title

\* The lines that define k, as far as the file is read, and the variables.
FileDefines(k) == {i \in Items \cup More : /\ KeyOf(SectionOf(i), NameOf(i)) = k
                                           /\ \A e \in Errors : i < e}
VariablesFor(k) == {i \in DOMAIN environ : KeyOf(environ[i].section, environ[i].name) = k}

Greatest(S) == CHOOSE i \in S : \A j \in S : j <= i
FileSays(k) == LET i == Greatest(FileDefines(k))
               IN Stored(k, IF i \in Items THEN file[i].value ELSE Text(file[i]))

-----------------------------------------------------------------------------
(* Properties.                                                             *)

\* What is read stays within what there is, and the state has its shape.
TypeOK ==
    /\ phase \in Phases
    /\ environ \in Seq(Variable) /\ cut \subseteq DOMAIN environ
    /\ file \in Seq(Line) \cup {NONE}
    /\ phase \notin {"unloaded", "aborted", "crashed"} => file # NONE
    /\ lineno \in Nat
    /\ phase = "parsing" => lineno <= Len(file)
    /\ phase \in {"environment", "bootstrap", "running"} => lineno <= Len(environ)
    /\ phase \in {"checking", "logging"} => lineno = 0
    /\ section \in Sections /\ prev_name \in Names \cup {"none"}
    /\ \A k \in DOMAIN config : Len(k) = 2
    /\ databases \subseteq {"db", "dbrw", "dbr"}
    /\ reloads \in 0..MaxReloads

AllKeys == Sections \X (Names \ {"instance"})

\* application_env takes an underscore in the value of a variable without a
\* section for the one that ends a section.
HasUnderscore(v) == v.section = "none" /\ Len(v.value) > 1

\* A worker that comes up on a file without an error has the configuration that
\* was written: a variable of the environment before the file, the last
\* definition before the others, and a definition of the file under the section
\* and the name it belongs to, whatever lines are continued by whatever others.
\* Nothing is said of a reload (see EnvironmentKept), of what follows a line in
\* error, where the parser stops, and of a variable with an underscore in its
\* value, which is misread.
ConfigAsWritten ==
    phase = "running" /\ reloads = 0 /\ Errors = {}
    /\ (\A i \in DOMAIN environ : ~HasUnderscore(environ[i])) =>
        \A k \in AllKeys :
            IF VariablesFor(k) # {}
              THEN Get(k) = Stored(k, environ[Greatest(VariablesFor(k))].value)
            ELSE IF FileDefines(k) # {} THEN Get(k) = FileSays(k)
            ELSE Get(k) = IF k = Debug THEN <<"0">> ELSE NONE

\* A worker that is up has a name, an environment and a key, no item of the
\* section app is empty, wherever it came from, and the numbers are numbers.
Complete ==
    phase = "running" =>
        /\ Required \subseteq DOMAIN config
        /\ \A k \in DOMAIN config : k[1] = "app" => config[k] # <<>>
        /\ Get(Debug) \in {<<"0">>, <<"1">>}

\* Whatever the file and the environment are, and on a reload too, aya_init
\* gets to its end or to an abort.
BootEnds == phase = "parsing" ~> phase \in {"running", "aborted"}

\* "Fetch config from environment" (application.c:216): a variable of the
\* environment takes effect whenever the module is loaded.
EnvironmentKept ==
    phase = "running" => \A i \in DOMAIN environ :
        LET k == <<environ[i].section, environ[i].name>>
        IN  k[1] # "none" => Get(k) = Stored(k, environ[Greatest(VariablesFor(k))].value)

\* A first load leaves a worker with the connection that model_principal_auth
\* asks for, if the file or the environment names one for reading and writing,
\* unless they name a common database, too (database.c:62).
LoginHasDatabase ==
    LET named(s) == VariablesFor(<<s, "name">>) \cup FileDefines(<<s, "name">>) # {}
    IN  phase = "running" /\ reloads = 0 /\ named("dbrw") /\ ~named("db") => "dbrw" \in databases
=============================================================================
