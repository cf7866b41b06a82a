----------------------------- MODULE CommandLine -----------------------------
(***************************************************************************)
(* ParseCommandLine of ycsbc.cc over core/properties.h, and main up to its *)
(* first phase: how a command line and its property files become the       *)
(* properties, the phases and the result line.                             *)
(*                                                                         *)
(* A word of the command line is a string.  What the code looks for inside *)
(* words and lines (a leading dash, an equals sign, a comment sign, blanks,*)
(* the number that a word begins with) is given by the constants below, so *)
(* keys and values are already split and trimmed.                          *)
(***************************************************************************)
EXTENDS Integers, Sequences

CONSTANTS
  String,        \* what a std::string may hold
  CommandLines,  \* the command lines considered, without the program's name
  Dashed,        \* the words that start with a dash
  Assignment,    \* the words "key=value", each with its key and its value
  File,          \* the property files that can be opened, each with its lines
  Bindings,      \* the database names of DBFactory
  Stoi,          \* the words that std::stoi takes, each with its number
  Decimal        \* what operator<< writes for a number

NoString == ""

Setting == [key : String, value : String]

(* A line is the settings it makes: one, or none if it is a comment or has *)
(* no equals sign.                                                         *)
ASSUME CommandLineAssumption ==
  /\ {NoString, "threadcount", "dbname"} \subseteq String
  /\ CommandLines \subseteq Seq(String)
  /\ {"-threads", "-db", "-P", "-load", "-run", "-p"} \subseteq Dashed
  /\ \A w \in DOMAIN Assignment : Assignment[w] \in Setting
  /\ \A f \in DOMAIN File :
       /\ File[f] \in Seq(Seq(Setting))
       /\ \A n \in DOMAIN File[f] : Len(File[f][n]) <= 1
  /\ NoString \notin DOMAIN File

(* A number is read back from what is written for it, but a word need not  *)
(* be what is written for its number: "01" is not, nor "2 threads".        *)
ASSUME NumberAssumption ==
  /\ "1" \in DOMAIN Stoi
  /\ \A w \in DOMAIN Stoi : Stoi[w] \in DOMAIN Decimal
  /\ \A n \in DOMAIN Decimal : Decimal[n] \in DOMAIN Stoi /\ Stoi[Decimal[n]] = n

VARIABLES
  argv,       \* the command line; it does not change
  argindex,   \* the word that ParseCommandLine is at
  props,      \* the properties, a function on the keys that are set
  filename,   \* the name that ParseCommandLine returns
  line,       \* how many lines of that file Load has read
  do_load,
  do_run,
  outcome     \* "parsing", "loading" within that, "parsed", or how it ended

vars == <<argv, argindex, props, filename, line, do_load, do_run, outcome>>

argc == Len(argv) + 1

Init ==
  /\ argv \in CommandLines
  /\ argindex = 1
  /\ props = [k \in {} |-> NoString]
  /\ filename = NoString
  /\ line = 0
  /\ do_load = FALSE
  /\ do_run = FALSE
  /\ outcome = "parsing"

-----------------------------------------------------------------------------
(* Properties.                                                             *)

(* Mutant: as std::map::insert, which keeps what is there. *)
SetPropertyInsert(p, key, value) ==
  [k \in DOMAIN p \cup {key} |-> IF k \in DOMAIN p THEN p[k] ELSE value]

SetProperty(p, key, value) ==
  [k \in DOMAIN p \cup {key} |-> IF k = key THEN value ELSE p[k]]

GetProperty(p, key, default) == IF key \in DOMAIN p THEN p[key] ELSE default

-----------------------------------------------------------------------------
(* ParseCommandLine: one action for each branch of its loop.               *)

AtOption(w) ==
  /\ outcome = "parsing"
  /\ argindex < argc
  /\ argv[argindex] = w

HasOperand == argindex + 1 < argc
Operand == argv[argindex + 1]

(* UsageMessage and exit(0).                                               *)
MissingOperand ==
  /\ \E w \in {"-threads", "-db", "-P", "-p"} : AtOption(w)
  /\ ~ HasOperand
  /\ argindex' = argindex + 1
  /\ outcome' = "usage"
  /\ UNCHANGED <<argv, props, filename, line, do_load, do_run>>

(* Mutant: the number of threads goes under another key. *)
ThreadsOptionMutant ==
  /\ AtOption("-threads") /\ HasOperand
  /\ props' = SetProperty(props, "threads", Operand)
  /\ argindex' = argindex + 2
  /\ UNCHANGED <<argv, filename, line, do_load, do_run, outcome>>

ThreadsOption ==
  /\ AtOption("-threads") /\ HasOperand
  /\ props' = SetProperty(props, "threadcount", Operand)
  /\ argindex' = argindex + 2
  /\ UNCHANGED <<argv, filename, line, do_load, do_run, outcome>>

DbOption ==
  /\ AtOption("-db") /\ HasOperand
  /\ props' = SetProperty(props, "dbname", Operand)
  /\ argindex' = argindex + 2
  /\ UNCHANGED <<argv, filename, line, do_load, do_run, outcome>>

PropertyFileOption ==
  /\ AtOption("-P") /\ HasOperand
  /\ Operand \in DOMAIN File
  /\ filename' = Operand
  /\ line' = 0
  /\ argindex' = argindex + 1
  /\ outcome' = "loading"
  /\ UNCHANGED <<argv, props, do_load, do_run>>

(* Load: one line of the file, set on top of what is there already.        *)
LoadLine ==
  /\ outcome = "loading"
  /\ line < Len(File[filename])
  /\ line' = line + 1
  /\ props' = LET settings == File[filename][line + 1] IN
                IF settings = << >> THEN props
                ELSE SetProperty(props, settings[1].key, settings[1].value)
  /\ UNCHANGED <<argv, argindex, filename, do_load, do_run, outcome>>

LoadReturns ==
  /\ outcome = "loading"
  /\ line = Len(File[filename])
  /\ argindex' = argindex + 1
  /\ outcome' = "parsing"
  /\ UNCHANGED <<argv, props, filename, line, do_load, do_run>>

(* Load throws an Exception, and the handler around it is for strings.     *)
UnreadableFile ==
  /\ AtOption("-P") /\ HasOperand
  /\ Operand \notin DOMAIN File
  /\ filename' = Operand
  /\ argindex' = argindex + 1
  /\ outcome' = "terminated"
  /\ UNCHANGED <<argv, props, line, do_load, do_run>>

(* Mutant: argindex stays where it is. *)
LoadOptionStays ==
  /\ AtOption("-load")
  /\ do_load' = TRUE
  /\ UNCHANGED <<argv, argindex, props, filename, line, do_run, outcome>>

LoadOption ==
  /\ AtOption("-load")
  /\ do_load' = TRUE
  /\ argindex' = argindex + 1
  /\ UNCHANGED <<argv, props, filename, line, do_run, outcome>>

(* Mutant: skips a word, as an option with an operand does. *)
RunOptionSkips ==
  /\ AtOption("-run")
  /\ do_run' = TRUE
  /\ argindex' = argindex + 2
  /\ UNCHANGED <<argv, props, filename, line, do_load, outcome>>

RunOption ==
  /\ AtOption("-run")
  /\ do_run' = TRUE
  /\ argindex' = argindex + 1
  /\ UNCHANGED <<argv, props, filename, line, do_load, outcome>>

PropertyOption ==
  /\ AtOption("-p") /\ HasOperand
  /\ Operand \in DOMAIN Assignment
  /\ props' = SetProperty(props, Assignment[Operand].key, Assignment[Operand].value)
  /\ argindex' = argindex + 2
  /\ UNCHANGED <<argv, filename, line, do_load, do_run, outcome>>

NotAnAssignment ==
  /\ AtOption("-p") /\ HasOperand
  /\ Operand \notin DOMAIN Assignment
  /\ argindex' = argindex + 1
  /\ outcome' = "message"
  /\ UNCHANGED <<argv, props, filename, line, do_load, do_run>>

UnknownOption ==
  /\ \E w \in Dashed \ {"-threads", "-db", "-P", "-load", "-run", "-p"} : AtOption(w)
  /\ outcome' = "message"
  /\ UNCHANGED <<argv, argindex, props, filename, line, do_load, do_run>>

(* Mutant: words that are left over do not matter. *)
EndOfOptionsMutant ==
  /\ outcome = "parsing"
  /\ argindex < argc => argv[argindex] \notin Dashed
  /\ outcome' = IF argindex = 1 THEN "usage" ELSE "parsed"
  /\ UNCHANGED <<argv, argindex, props, filename, line, do_load, do_run>>

(* The loop ends at a word without a dash, or at the end.                  *)
EndOfOptions ==
  /\ outcome = "parsing"
  /\ argindex < argc => argv[argindex] \notin Dashed
  /\ outcome' = IF argindex = 1 \/ argindex # argc THEN "usage" ELSE "parsed"
  /\ UNCHANGED <<argv, argindex, props, filename, line, do_load, do_run>>

-----------------------------------------------------------------------------
(* main: both phases unless one was asked for, then CreateDB, whose        *)
(* binding needs the path of the database.  props[..] throws for a key     *)
(* that is not set.                                                        *)
CreateDB ==
  /\ outcome = "parsed"
  /\ do_load' = (do_load \/ ~ do_run)
  /\ do_run' = (do_run \/ ~ do_load)
  /\ outcome' =
       CASE "dbname" \notin DOMAIN props -> "no_dbname"
         [] "dbname" \in DOMAIN props /\ props["dbname"] \notin DOMAIN Bindings ->
              "unknown_dbname"
         [] "dbname" \in DOMAIN props /\ props["dbname"] \in DOMAIN Bindings ->
              IF GetProperty(props, Bindings[props["dbname"]], NoString) = NoString
              THEN "no_dbpath" ELSE "created"
  /\ UNCHANGED <<argv, argindex, props, filename, line>>

(* wl.Init, which throws when a property that it needs is missing or wrong *)
(* (those are not followed here), and then num_threads: stoi throws for a  *)
(* word that begins with no number.                                        *)
ThreadCount == GetProperty(props, "threadcount", "1")

InitWorkload ==
  /\ outcome = "created"
  /\ \/ outcome' = "no_workload"
     \/ outcome' = IF ThreadCount \in DOMAIN Stoi THEN "launching" ELSE "no_threadcount"
  /\ UNCHANGED <<argv, argindex, props, filename, line, do_load, do_run>>

(* The beginning of the line that main writes for the run phase.  The      *)
(* number of threads is an int by then.                                    *)
ResultLine == <<props["dbname"], filename, Decimal[Stoi[ThreadCount]]>>

Ended ==
  outcome \notin {"parsing", "loading", "parsed", "created"} /\ UNCHANGED vars

Parse ==
  \/ MissingOperand \/ ThreadsOption \/ DbOption \/ PropertyFileOption
  \/ LoadLine \/ LoadReturns \/ UnreadableFile \/ LoadOption \/ RunOption \/ PropertyOption
  \/ NotAnAssignment \/ UnknownOption \/ EndOfOptions

Next == Parse \/ CreateDB \/ InitWorkload \/ Ended

Spec == Init /\ [][Next]_vars

(* A process that can take a step takes one.                               *)
FairSpec == Spec /\ WF_vars(Parse \/ CreateDB \/ InitWorkload)

-----------------------------------------------------------------------------
Accepted ==
  {"parsed", "no_dbname", "unknown_dbname", "no_dbpath",
   "created", "no_workload", "no_threadcount", "launching"}

(* What the variables hold, and that ParseCommandLine never looks beyond   *)
(* the end of argv.                                                        *)
TypeOK ==
  /\ argv \in CommandLines
  /\ argindex \in 1 .. argc
  /\ \A k \in DOMAIN props : k \in String /\ props[k] \in String
  /\ filename \in String
  /\ outcome = "loading" => filename \in DOMAIN File /\ argindex < argc
  /\ line \in Nat
  /\ do_load \in BOOLEAN
  /\ do_run \in BOOLEAN
  /\ outcome \in
       {"parsing", "loading", "usage", "message", "terminated"} \cup Accepted

(* The options of the usage message, as the words that spell them.         *)
IsOption(words) ==
  \/ words \in {<<"-load">>, <<"-run">>}
  \/ Len(words) = 2 /\ words[1] \in {"-threads", "-db"}
  \/ Len(words) = 2 /\ words[1] = "-P" /\ words[2] \in DOMAIN File
  \/ Len(words) = 2 /\ words[1] = "-p" /\ words[2] \in DOMAIN Assignment

(* The ways to cut the command line into options, each given by the        *)
(* positions where an option begins, and the position after the last one.  *)
Cuts ==
  {cut \in SUBSET (1 .. argc) :
     /\ {1, argc} \subseteq cut
     /\ \A a, b \in cut :
          a < b /\ (\A c \in cut : ~ (a < c /\ c < b)) =>
            IsOption(SubSeq(argv, a, b - 1))}

(* The program goes to work exactly on the command lines that are made of  *)
(* one or more options and nothing else, although an operand may look like *)
(* an option.  Every other one ends while it is parsed.                    *)
AcceptsExactlyOptions ==
  outcome \notin {"parsing", "loading"} =>
    (outcome \in Accepted <=> argv # << >> /\ Cuts # {})

(* The settings that the option at position a makes, line by line.         *)
SettingsAt(a) ==
  CASE argv[a] = "-threads" -> << <<[key |-> "threadcount", value |-> argv[a + 1]]>> >>
    [] argv[a] = "-db" -> << <<[key |-> "dbname", value |-> argv[a + 1]]>> >>
    [] argv[a] = "-P" -> File[argv[a + 1]]
    [] argv[a] = "-p" -> << <<Assignment[argv[a + 1]]>> >>
    [] argv[a] \in {"-load", "-run"} -> << >>

(* The place of a setting is an option and a line.                         *)
SettingPlaces(cut) ==
  {p \in UNION {{a} \X DOMAIN SettingsAt(a) : a \in cut \ {argc}} :
     SettingsAt(p[1])[p[2]] # << >>}

SettingOf(p) == SettingsAt(p[1])[p[2]][1]

Later(p, q) == p[1] > q[1] \/ (p[1] = q[1] /\ p[2] > q[2])

(* No later place sets the same key.                                       *)
Prevails(p, places) ==
  \A q \in places : SettingOf(q).key = SettingOf(p).key => ~ Later(q, p)

(* Options and files are processed in the order specified: a property has  *)
(* the value of the last setting that names it, wherever that one is.      *)
LastSettingWins ==
  outcome = "parsed" =>
    \A cut \in Cuts :
      LET places == SettingPlaces(cut)
      IN  /\ DOMAIN props = {SettingOf(p).key : p \in places}
          /\ \A p \in places :
               Prevails(p, places) => props[SettingOf(p).key] = SettingOf(p).value

(* What run_abcd_workloads.sh greps for.  The program that it starts with  *)
(* -db d -threads n -run -P f and any number of -p carries out the run     *)
(* phase alone.  The line it writes there is the needle for d, f and n     *)
(* precisely if no line of f and no -p has set another database since, and *)
(* the last word that f or they set for the threads is one that stands for *)
(* the number written n: not for the script's own n if that is 01.         *)
ResultLineIsNeedle ==
  outcome = "launching" /\ Len(argv) >= 7 =>
    \A cut \in Cuts :
      LET places == SettingPlaces(cut)
          needle == <<argv[2], argv[7], argv[4]>>
      IN  /\ <<argv[1], argv[3], argv[5], argv[6]>> = <<"-db", "-threads", "-run", "-P">>
          /\ \A a \in cut : a \in 8 .. Len(argv) => argv[a] = "-p"
          => /\ do_run /\ ~ do_load
             /\ ResultLine = needle <=>
                  \A p \in places :
                    Prevails(p, places) =>
                      /\ SettingOf(p).key = "dbname" => SettingOf(p).value = argv[2]
                      /\ SettingOf(p).key = "threadcount" =>
                           Decimal[Stoi[SettingOf(p).value]] = argv[4]

(* ParseCommandLine comes to an end, on every command line.                *)
ParsingEnds == <>(outcome \notin {"parsing", "loading"})
=============================================================================
