------------------------------ MODULE ResultLog ------------------------------
(***************************************************************************)
(* The log file of a campaign, as its three parties handle it: ycsbc       *)
(* appends to it (cerr, which is not buffered, so that each << is a write  *)
(* of its own), run_abcd_workloads.sh looks in it for what was done, and   *)
(* parse_result.py reads the results back.  Harness takes the log for a    *)
(* sequence of result lines; here it is text that may break off anywhere   *)
(* and is written on from there.                                           *)
(*                                                                         *)
(* Every step is one of Harness, or a write that Harness does not see.     *)
(***************************************************************************)
EXTENDS Harness, SequencesExt

CONSTANTS Db, File   \* the names of databases and of workload files

ASSUME TargetAssumption == Target \subseteq Db \X File

VARIABLES
  text,      \* the lines of the file, each a sequence of tokens; the last is open
  pending    \* what the running program has yet to write

logVars == <<vars, text, pending>>

-----------------------------------------------------------------------------
(* Tokens.  Names of databases, files and numbers are one token each; none *)
(* of them contains a blank, and no database's begins with "#" or "./".    *)
Hash == <<"hash", 0>>
Tab == <<"tab", 0>>
Space == <<"space", 0>>
Word(w) == <<"word", w>>
Name(n) == <<"name", n>>
Number(n) == <<"int", n>>
Throughput == <<"float", 0>>

Blank(token) == token \in {Tab, Space}

(* Writing a newline opens a line.                                         *)
Newline == << <<"newline", 0>> >>

Written(piece) ==
  IF piece = Newline THEN Append(text, << >>)
                     ELSE [text EXCEPT ![Len(text)] = @ \o piece]

(* "# Loading records:" and the sum.                                       *)
LoadReport ==
  << <<Hash, Space, Word("Loading"), Space, Word("records:"), Tab>>,
     <<Number(0)>>, Newline >>

Heading ==
  <<Hash, Space, Word("Transaction"), Space, Word("throughput"), Space,
    Word("(KTPS)")>>

LineUpToThreads(t, n) ==
  << <<Name(t[1])>>, <<Tab>>, <<Name(t[2])>>, <<Tab>>, <<Number(n)>> >>

(* Mutants: no endl after the heading; none after the throughput; a space  *)
(* behind the number of threads.                                           *)
RunReportOneLine(t, n) ==
  <<Heading>> \o LineUpToThreads(t, n) \o << <<Tab>>, <<Throughput>>, Newline >>
RunReportUnterminated(t, n) ==
  <<Heading, Newline>> \o LineUpToThreads(t, n) \o << <<Tab>>, <<Throughput>> >>
RunReportSpace(t, n) ==
  <<Heading, Newline>> \o LineUpToThreads(t, n)
    \o << <<Space>>, <<Throughput>>, Newline >>

(* "# Transaction throughput (KTPS)", and the result line.                 *)
RunReport(t, n) ==
  <<Heading, Newline>> \o LineUpToThreads(t, n)
    \o << <<Tab>>, <<Throughput>>, Newline >>

-----------------------------------------------------------------------------
LogInit == Init /\ text = << << >> >> /\ pending = << >>

(* The steps of the script itself write nothing to the log.                *)
ScriptStep ==
  /\ Start \/ SkipTarget \/ SkipThreads \/ NextTarget \/ Done
  /\ UNCHANGED <<text, pending>>

(* A program that does not know its database says so on the other stream.  *)
StartLoad ==
  /\ Prepare
  /\ pending' = IF target \in Known THEN LoadReport ELSE << >>
  /\ UNCHANGED text

StartRun ==
  /\ Run
  /\ pending' = IF target \in Known THEN RunReport(target, Threads[th]) ELSE << >>
  /\ UNCHANGED text

(* The program returns when it has written all.                            *)
Return ==
  /\ pending = << >>
  /\ LoadReturns \/ RunUnknown
  /\ UNCHANGED <<text, pending>>

(* One << of main.                                                         *)
Write ==
  /\ pending # << >>
  /\ text' = Written(Head(pending))
  /\ pending' = Tail(pending)

(* The write up to the throughput makes the line that grep finds; the last *)
(* one of a run makes the result.                                          *)
EndsNeedle == at = "run" /\ Len(pending) > 1 /\ pending[2] = <<Throughput>>
EndsResult == at = "line" /\ Len(pending) = 1

WriteNeedleEnd == Write /\ EndsNeedle /\ WriteLine
WriteResultEnd == Write /\ EndsResult /\ WriteThroughput
WriteOther == Write /\ ~ EndsNeedle /\ ~ EndsResult /\ UNCHANGED vars

(* A program that is killed writes no more; what it wrote stays.           *)
LogStop == Stop /\ pending' = << >> /\ UNCHANGED text

LogScript ==
  \/ ScriptStep \/ StartLoad \/ StartRun \/ Return
  \/ WriteNeedleEnd \/ WriteResultEnd \/ WriteOther

LogNext == LogScript \/ LogStop

LogSpec == LogInit /\ [][LogNext]_logVars

LogFairSpec == LogSpec /\ WF_logVars(LogScript)

-----------------------------------------------------------------------------
(* has_result: grep -qF for the needle, in any line and anywhere in it.  A *)
(* name is one token, so one that ends with another name is told apart.    *)
Needle(t, n) == <<Name(t[1]), Tab, Name(t[2]), Tab, Number(n), Tab>>

Grep(t, n) ==
  \E l \in DOMAIN text :
    \E k \in 0 .. (Len(text[l]) - Len(Needle(t, n))) :
      SubSeq(text[l], k + 1, k + Len(Needle(t, n))) = Needle(t, n)

(* parse_result.py.  re.split at blanks, after strip: a word is a longest   *)
(* sequence of tokens with no blank among them.                            *)
BeginsWord(line, k) == ~ Blank(line[k]) /\ (k = 1 \/ Blank(line[k - 1]))

WordEnd(line, k) ==
  CHOOSE m \in k .. Len(line) :
    /\ \A j \in k .. m : ~ Blank(line[j])
    /\ m = Len(line) \/ Blank(line[m + 1])

WordAt(line, k) ==
  IF BeginsWord(line, k) THEN << SubSeq(line, k, WordEnd(line, k)) >> ELSE << >>

Words(line) == FlattenSeq([k \in DOMAIN line |-> WordAt(line, k)])

(* int() and float() take no word that is glued together, as far as the    *)
(* log has them: a number is glued to a name or a hash sign only.          *)
IsInt(word) == Len(word) = 1 /\ word[1][1] = "int"
IsFloat(word) == Len(word) = 1 /\ word[1][1] \in {"int", "float"}

(* No line begins with a blank that strip would take away: OpenBegins.     *)
IsRow(line) ==
  /\ line # << >>
  /\ line[1] # Hash
  /\ LET parts == Words(line) IN
       Len(parts) = 4 /\ IsInt(parts[3]) /\ IsFloat(parts[4])

Row(line) ==
  LET parts == Words(line)
  IN [engine |-> parts[1], path |-> parts[2], threads |-> parts[3]]

(* A line that is no row is left out; that none is left is an error in the *)
(* code (ValueError), and here a result without rows.                      *)
RowIn(line) == IF IsRow(line) THEN << Row(line) >> ELSE << >>

ParseYcsbLog == FlattenSeq([l \in DOMAIN text |-> RowIn(text[l])])

-----------------------------------------------------------------------------
(* What the script decides by is what was done: grep finds the needle of a *)
(* target and a thread count exactly when a run of them has got as far as  *)
(* its throughput, in whatever way earlier writes were broken off.         *)
GrepFindsLog ==
  \A t \in Target, n \in {Threads[m] : m \in DOMAIN Threads} :
    Grep(t, n) <=> HasResult(t, n)

RowOf(entry) ==
  [engine |-> <<Name(entry.target[1])>>, path |-> <<Name(entry.target[2])>>,
   threads |-> <<Number(entry.threads)>>]

ResultIn(entry) == IF entry.measured THEN << RowOf(entry) >> ELSE << >>

Results == FlattenSeq([k \in DOMAIN log |-> ResultIn(log[k])])

(* The parser reads exactly the results of the runs that were completed,   *)
(* in their order: no broken line, glued to the report that follows it, is *)
(* taken for a result.  The one result it may see besides is the last,     *)
(* when the program has not written the newline yet.                       *)
ParserReadsResults ==
  \/ ParseYcsbLog = Results
  \/ /\ text[Len(text)] # << >>
     /\ log # << >>
     /\ ~ log[Len(log)].measured
     /\ ParseYcsbLog = Append(Results, RowOf(log[Len(log)]))

Campaign ==
  {<<Targets[p], Threads[m]>> : p \in {q \in DOMAIN Targets : Targets[q] \in Known},
                                m \in DOMAIN Threads}

(* When the script says that it is done, the plots have each point of the  *)
(* campaign at most once, and all but one for each interruption.           *)
PlotsComplete ==
  at = "done" =>
    LET rows == ParseYcsbLog IN
      /\ \A j, k \in DOMAIN rows : rows[j] = rows[k] => j = k
      /\ Len(rows) + stops >= Cardinality(Campaign)
=============================================================================
