-------------------------- MODULE CommandLineProof --------------------------
(***************************************************************************)
(* Proofs about the command line: the parser accepts exactly the command   *)
(* lines that are made of options, of whatever length they are, and what   *)
(* it has set in the end are the last settings.                            *)
(***************************************************************************)
EXTENDS CommandLine, WellFoundedInduction, TLAPS

-----------------------------------------------------------------------------
(* Cuts. *)

LEMMA LeastNatural ==
  ASSUME NEW S \in SUBSET Nat, S # {}
  PROVE  \E n \in S : \A m \in S : n <= m
<1>. DEFINE R == OpToRel(<, Nat)
<1>1. IsWellFoundedOn(R, Nat)
  BY NatLessThanWellFounded DEF OpToRel
<1>2. ASSUME NEW x \in S, NEW y \in S, ~ (<<y, x>> \in R) PROVE x <= y
  BY <1>2 DEF OpToRel
<1>. HIDE DEF R
<1>3. \E n \in S : \A m \in S : ~ (<<m, n>> \in R)
  BY <1>1, WFMin
<1>. QED BY <1>2, <1>3

LEMMA GreatestNatural ==
  ASSUME NEW S \in SUBSET Nat, S # {}, NEW n \in Nat, \A x \in S : x <= n
  PROVE  \E m \in S : \A x \in S : x <= m
<1>. DEFINE T == {n - x : x \in S}
<1>1. T \in SUBSET Nat /\ T # {}
  <2>1. \A x \in S : x \in Nat /\ x <= n
    OBVIOUS
  <2>2. \A x \in S : n - x \in Nat
    BY <2>1
  <2>. QED BY <2>2
<1>2. PICK t \in T : \A u \in T : t <= u
  <2>. HIDE DEF T
  <2>. QED BY <1>1, LeastNatural
<1>3. PICK m \in S : t = n - m
  OBVIOUS
<1>4. \A x \in S : n - m <= n - x /\ x \in Nat /\ m \in Nat
  BY <1>2, <1>3
<1>5. \A x \in S : x <= m
  BY <1>4
<1>. QED BY <1>5

(* The element of a cut that comes next after b.                           *)
Follows(cut, b, c) ==
  c \in cut /\ b < c /\ \A d \in cut : ~ (b < d /\ d < c)

LEMMA FollowerExists ==
  ASSUME NEW n \in Nat, NEW cut \in SUBSET (1 .. n), n \in cut,
         NEW b \in cut, b < n
  PROVE  \E c \in cut : Follows(cut, b, c)
<1>. DEFINE S == {x \in cut : b < x}
<1>1. S \in SUBSET Nat /\ n \in S
  <2>1. cut \in SUBSET Nat
    BY 1 .. n \subseteq Nat
  <2>. QED BY <2>1
<1>2. PICK c \in S : \A d \in S : c <= d
  BY <1>1, LeastNatural
<1>3. c \in cut /\ b < c
  OBVIOUS
<1>4. ASSUME NEW d \in cut, b < d, d < c PROVE FALSE
  <2>1. d \in S
    BY <1>4
  <2>2. c <= d /\ c \in Nat /\ d \in Nat
    BY <1>1, <1>2, <2>1
  <2>. QED BY <1>4, <2>2
<1>. QED BY <1>3, <1>4 DEF Follows

(* The options, by their first word and the place behind them.             *)
OptionAt(words, b, c) ==
  \/ c = b + 1 /\ words[b] \in {"-load", "-run"}
  \/ c = b + 2 /\ words[b] \in {"-threads", "-db"}
  \/ c = b + 2 /\ words[b] = "-P" /\ words[b + 1] \in DOMAIN File
  \/ c = b + 2 /\ words[b] = "-p" /\ words[b + 1] \in DOMAIN Assignment

LEMMA OptionWords ==
  ASSUME NEW words \in Seq(String), NEW b \in 1 .. (Len(words) + 1),
         NEW c \in 1 .. (Len(words) + 1), b < c
  PROVE  IsOption(SubSeq(words, b, c - 1)) <=> OptionAt(words, b, c)
<1>. DEFINE option == SubSeq(words, b, c - 1)
<1>1. Len(words) \in Nat
  OBVIOUS
<1>2. PICK n \in Nat : n = c - b /\ n >= 1
  BY <1>1
<1>3. /\ option \in Seq(String) /\ Len(option) = n
      /\ \A j \in 1 .. n : option[j] = words[b + j - 1]
  <2>1. b \in 1 .. Len(words) /\ c - 1 \in 1 .. Len(words) /\ b <= c - 1
    BY <1>1
  <2>2. c - 1 - b + 1 = n
    BY <1>1, <1>2
  <2>3. option \in Seq(String)
    BY <2>1
  <2>4. Len(option) = c - 1 - b + 1
    BY <2>1
  <2>5. \A j \in 1 .. (c - 1 - b + 1) : option[j] = words[b + j - 1]
    BY <2>1
  <2>. QED BY <2>2, <2>3, <2>4, <2>5
<1>. HIDE DEF option
<1>4. option[1] = words[b] /\ (n = 2 => option[2] = words[b + 1])
  <2>1. b + 1 - 1 = b /\ b + 2 - 1 = b + 1 /\ 1 \in 1 .. n /\ (n = 2 => 2 \in 1 .. n)
    BY <1>1, <1>2
  <2>. QED BY <1>3, <2>1
<1>5. option \in {<<"-load">>, <<"-run">>} <=>
        n = 1 /\ option[1] \in {"-load", "-run"}
  <2>1. /\ Len(<<"-load">>) = 1 /\ <<"-load">>[1] = "-load"
        /\ Len(<<"-run">>) = 1 /\ <<"-run">>[1] = "-run"
    OBVIOUS
  <2>2. ASSUME n = 1 PROVE option = <<option[1]>>
    BY <1>3, <2>2
  <2>. QED BY <1>3, <2>1, <2>2
<1>6. (n = 1 <=> c = b + 1) /\ (n = 2 <=> c = b + 2)
  BY <1>1, <1>2
<1>7. IsOption(option) <=>
        \/ n = 1 /\ words[b] \in {"-load", "-run"}
        \/ n = 2 /\ words[b] \in {"-threads", "-db"}
        \/ n = 2 /\ words[b] = "-P" /\ words[b + 1] \in DOMAIN File
        \/ n = 2 /\ words[b] = "-p" /\ words[b + 1] \in DOMAIN Assignment
  BY <1>3, <1>4, <1>5 DEF IsOption
<1>. QED BY <1>6, <1>7 DEF OptionAt, option

(* The cuts of the words before end.                                       *)
CutsOf(words, end) ==
  {cut \in SUBSET (1 .. end) :
     /\ {1, end} \subseteq cut
     /\ \A b, c \in cut : Follows(cut, b, c) => OptionAt(words, b, c)}

LEMMA CutsAre ==
  ASSUME argv \in Seq(String)
  PROVE  Cuts = CutsOf(argv, argc)
<1>1. ASSUME NEW cut \in SUBSET (1 .. argc), NEW b \in cut, NEW c \in cut, b < c
      PROVE  IsOption(SubSeq(argv, b, c - 1)) <=> OptionAt(argv, b, c)
  BY <1>1, OptionWords DEF argc
<1>. QED BY <1>1 DEF Cuts, CutsOf, Follows

(* Where an option begins, it leads to one place only; in a cut there is   *)
(* an option from each place but the last.                                 *)
LEMMA CutStep ==
  ASSUME NEW words, NEW end \in Nat, NEW cut \in CutsOf(words, end),
         NEW b \in cut, b < end
  PROVE  \E c \in cut : /\ Follows(cut, b, c) /\ OptionAt(words, b, c)
                        /\ \A d : OptionAt(words, b, d) => d = c
<1>1. cut \in SUBSET (1 .. end) /\ end \in cut
  BY DEF CutsOf
<1>2. PICK c \in cut : Follows(cut, b, c)
  BY <1>1, FollowerExists
<1>3. OptionAt(words, b, c)
  BY <1>2 DEF CutsOf
<1>4. \A d : OptionAt(words, b, d) => d = c
  BY <1>3 DEF OptionAt
<1>. QED BY <1>2, <1>3, <1>4

(* A cut grows by an option.                                               *)
LEMMA CutGrows ==
  ASSUME NEW words, NEW b \in Nat, NEW c \in Nat, b < c, OptionAt(words, b, c),
         NEW cut \in CutsOf(words, b)
  PROVE  cut \cup {c} \in CutsOf(words, c)
<1>1. cut \in SUBSET (1 .. b) /\ {1, b} \subseteq cut
  BY DEF CutsOf
<1>2. cut \cup {c} \in SUBSET (1 .. c) /\ {1, c} \subseteq cut \cup {c}
  BY <1>1
<1>3. ASSUME NEW d \in cut \cup {c}, NEW e \in cut \cup {c}, Follows(cut \cup {c}, d, e)
      PROVE  OptionAt(words, d, e)
  <2>1. d < e /\ \A f \in cut \cup {c} : ~ (d < f /\ f < e)
    BY <1>3 DEF Follows
  <2>2. d \in cut
    BY <1>1, <2>1
  <2>3. CASE e \in cut
    <3>1. Follows(cut, d, e)
      BY <2>1, <2>3 DEF Follows
    <3>. QED BY <2>2, <2>3, <3>1 DEF CutsOf
  <2>4. CASE e = c
    <3>1. ~ (d < b)
      BY <1>1, <2>1, <2>4
    <3>2. d = b
      BY <1>1, <2>2, <3>1
    <3>. QED BY <2>4, <3>2
  <2>. QED BY <2>3, <2>4
<1>. QED BY <1>2, <1>3 DEF CutsOf

-----------------------------------------------------------------------------
(* What has been parsed so far. *)

Busy == outcome \in {"parsing", "loading"}

(* Where the option begins that is being processed.                        *)
Boundary == IF outcome = "loading" THEN argindex - 1 ELSE argindex

(* The words before the boundary are options, and whatever the cut of the  *)
(* whole command line, one of its options begins at the boundary.          *)
ParseInv ==
  /\ Busy => CutsOf(argv, Boundary) # {}
  /\ Busy \/ outcome \in Accepted => \A cut \in CutsOf(argv, argc) : Boundary \in cut
  /\ outcome \in Accepted =>
       argindex = argc /\ argv # << >> /\ CutsOf(argv, argc) # {}
  /\ ~ Busy /\ outcome \notin Accepted => argv = << >> \/ CutsOf(argv, argc) = {}
  /\ outcome = "loading" =>
       /\ argindex >= 2
       /\ argv[argindex - 1] = "-P" /\ argv[argindex] = filename
       /\ filename \in DOMAIN File /\ line <= Len(File[filename])

LEMMA Lengths ==
  ASSUME argv \in CommandLines
  PROVE  /\ argv \in Seq(String) /\ Len(argv) \in Nat
         /\ argc = Len(argv) + 1 /\ argc \in Nat \ {0}
         /\ \A j \in 1 .. Len(argv) : argv[j] \in String
<1>1. argv \in Seq(String)
  BY CommandLineAssumption
<1>. QED BY <1>1 DEF argc

(* Once the database is created only the outcome changes.                  *)
LEMMA LaunchingOrNot ==
  ASSUME InitWorkload
  PROVE  /\ outcome = "created"
         /\ outcome' \in {"no_workload", "no_threadcount", "launching"}
         /\ UNCHANGED <<argv, argindex, props, filename, line, do_load, do_run>>
BY DEF InitWorkload

LEMMA TypeOKInit == Init => TypeOK
<1>. SUFFICES ASSUME Init PROVE TypeOK
  OBVIOUS
<1>1. argv \in CommandLines /\ argindex = 1 /\ outcome = "parsing"
  BY DEF Init
<1>2. argindex \in 1 .. argc
  BY <1>1, Lengths
<1>3. DOMAIN props = {}
  BY DEF Init
<1>4. filename \in String /\ line \in Nat /\ do_load \in BOOLEAN /\ do_run \in BOOLEAN
  BY CommandLineAssumption DEF Init
<1>. QED BY <1>1, <1>2, <1>3, <1>4 DEF TypeOK

LEMMA SetPropertyType ==
  ASSUME NEW p, \A k \in DOMAIN p : k \in String /\ p[k] \in String,
         NEW key \in String, NEW value \in String
  PROVE  \A k \in DOMAIN SetProperty(p, key, value) :
           k \in String /\ SetProperty(p, key, value)[k] \in String
BY DEF SetProperty

(* The line that Load reads next.                                          *)
LEMMA FileLine ==
  ASSUME NEW f \in DOMAIN File, NEW n \in Nat, n < Len(File[f])
  PROVE  /\ File[f] \in Seq(Seq(Setting)) /\ n + 1 \in 1 .. Len(File[f])
         /\ File[f][n + 1] # << >> => File[f][n + 1][1] \in Setting
<1>1. File[f] \in Seq(Seq(Setting)) /\ Len(File[f]) \in Nat
  BY CommandLineAssumption
<1>2. n + 1 \in 1 .. Len(File[f])
  BY <1>1
<1>3. File[f][n + 1] \in Seq(Setting)
  BY <1>1, <1>2
<1>. QED BY <1>1, <1>2, <1>3

LEMMA TypeOKNext == TypeOK /\ [Next]_vars => TypeOK'
<1>. SUFFICES ASSUME TypeOK, [Next]_vars PROVE TypeOK'
  OBVIOUS
<1>. DEFINE Words(p) == \A k \in DOMAIN p : k \in String /\ p[k] \in String
            Outcomes == {"parsing", "loading", "usage", "message",
                         "terminated"} \cup Accepted
<1>0. /\ argv \in CommandLines /\ argindex \in 1 .. argc /\ Words(props)
      /\ filename \in String /\ line \in Nat /\ outcome \in Outcomes
      /\ do_load \in BOOLEAN /\ do_run \in BOOLEAN
      /\ argc \in Nat \ {0} /\ argc = Len(argv) + 1
      /\ \A j \in 1 .. Len(argv) : argv[j] \in String
  BY Lengths DEF TypeOK
<1>1. HasOperand => argindex + 1 \in 1 .. argc /\ argindex + 2 \in 1 .. argc
                    /\ Operand \in String
  BY <1>0 DEF HasOperand, Operand
<1>2. argindex < argc => argindex + 1 \in 1 .. argc
  BY <1>0
<1>3. /\ "parsing" \in Outcomes /\ "loading" \in Outcomes /\ "usage" \in Outcomes
      /\ "message" \in Outcomes /\ "terminated" \in Outcomes /\ "parsed" \in Outcomes
      /\ "no_dbname" \in Outcomes /\ "unknown_dbname" \in Outcomes
      /\ "no_dbpath" \in Outcomes /\ "created" \in Outcomes
      /\ "no_workload" \in Outcomes /\ "no_threadcount" \in Outcomes
      /\ "launching" \in Outcomes
  BY DEF Accepted
<1>. SUFFICES
       /\ argv' \in CommandLines /\ argindex' \in 1 .. argc' /\ Words(props')
       /\ filename' \in String /\ line' \in Nat /\ outcome' \in Outcomes
       /\ do_load' \in BOOLEAN /\ do_run' \in BOOLEAN
       /\ outcome' = "loading" => filename' \in DOMAIN File /\ argindex' < argc'
  BY DEF TypeOK
<1>4. argv' = argv => argc' = argc
  BY DEF argc
<1>. HIDE DEF Outcomes, Words
<1>5. CASE MissingOperand
  BY <1>0, <1>2, <1>3, <1>4, <1>5 DEF MissingOperand, AtOption
<1>6. CASE ThreadsOption \/ DbOption \/ PropertyOption
  <2>1. PICK key \in String, value \in String : props' = SetProperty(props, key, value)
    <3>1. "threadcount" \in String /\ "dbname" \in String
      BY CommandLineAssumption
    <3>2. CASE ThreadsOption
      BY <1>1, <3>1, <3>2 DEF ThreadsOption
    <3>3. CASE DbOption
      BY <1>1, <3>1, <3>3 DEF DbOption
    <3>4. CASE PropertyOption
      <4>1. Assignment[Operand] \in Setting
        BY <3>4, CommandLineAssumption DEF PropertyOption
      <4>2. Assignment[Operand].key \in String /\ Assignment[Operand].value \in String
        BY <4>1 DEF Setting
      <4>. QED BY <3>4, <4>2 DEF PropertyOption
    <3>. QED BY <1>6, <3>2, <3>3, <3>4
  <2>2. Words(props')
    BY <1>0, <2>1, SetPropertyType DEF Words
  <2>3. /\ outcome = "parsing" /\ HasOperand /\ argindex' = argindex + 2
        /\ UNCHANGED <<argv, filename, line, do_load, do_run, outcome>>
    BY <1>6 DEF ThreadsOption, DbOption, PropertyOption, AtOption
  <2>. QED BY <1>0, <1>1, <1>3, <1>4, <2>2, <2>3
<1>7. CASE PropertyFileOption
  BY <1>0, <1>1, <1>2, <1>3, <1>4, <1>7 DEF PropertyFileOption, AtOption, HasOperand
<1>8. CASE LoadLine
  <2>1. filename \in DOMAIN File /\ argindex < argc
    BY <1>8 DEF LoadLine, TypeOK
  <2>2. Words(props')
    <3>. DEFINE settings == File[filename][line + 1]
    <3>1. settings # << >> => settings[1] \in Setting
      BY <1>0, <1>8, <2>1, FileLine DEF LoadLine
    <3>2. settings # << >> => settings[1].key \in String /\ settings[1].value \in String
      BY <3>1 DEF Setting
    <3>3. props' = IF settings = << >> THEN props
                   ELSE SetProperty(props, settings[1].key, settings[1].value)
      BY <1>8 DEF LoadLine
    <3>. HIDE DEF settings
    <3>. QED BY <1>0, <3>2, <3>3, SetPropertyType DEF Words
  <2>. QED BY <1>0, <1>4, <1>8, <2>1, <2>2 DEF LoadLine
<1>9. CASE LoadReturns
  <2>1. argindex < argc
    BY <1>9 DEF LoadReturns, TypeOK
  <2>. QED BY <1>0, <1>2, <1>3, <1>4, <1>9, <2>1 DEF LoadReturns
<1>10. CASE UnreadableFile
  BY <1>0, <1>1, <1>3, <1>4, <1>10 DEF UnreadableFile
<1>11. CASE LoadOption
  BY <1>0, <1>2, <1>4, <1>11 DEF LoadOption, AtOption
<1>12. CASE RunOption
  BY <1>0, <1>2, <1>4, <1>12 DEF RunOption, AtOption
<1>13. CASE NotAnAssignment
  BY <1>0, <1>1, <1>3, <1>4, <1>13 DEF NotAnAssignment
<1>14. CASE UnknownOption
  BY <1>0, <1>3, <1>4, <1>14 DEF UnknownOption
<1>15. CASE EndOfOptions
  BY <1>0, <1>3, <1>4, <1>15 DEF EndOfOptions
<1>16. CASE CreateDB
  <2>1. outcome' \in {"no_dbname", "unknown_dbname", "no_dbpath", "created"}
    BY <1>16 DEF CreateDB
  <2>2. do_load' \in BOOLEAN /\ do_run' \in BOOLEAN
    BY <1>16 DEF CreateDB
  <2>. QED BY <1>0, <1>3, <1>4, <1>16, <2>1, <2>2 DEF CreateDB
<1>17. CASE InitWorkload
  <2>1. /\ outcome' \in {"no_workload", "no_threadcount", "launching"}
        /\ UNCHANGED <<argv, argindex, props, filename, line, do_load, do_run>>
    BY <1>17, LaunchingOrNot
  <2>. QED BY <1>0, <1>3, <1>4, <2>1
<1>18. CASE UNCHANGED vars
  <2>1. outcome = "loading" => filename \in DOMAIN File /\ argindex < argc
    BY DEF TypeOK
  <2>. QED BY <1>0, <1>4, <1>18, <2>1 DEF vars
<1>. QED
  BY <1>5, <1>6, <1>7, <1>8, <1>9, <1>10, <1>11, <1>12, <1>13, <1>14, <1>15,
     <1>16, <1>17, <1>18 DEF Next, Parse, Ended

LEMMA ParseInvInit == Init => ParseInv
<1>. SUFFICES ASSUME Init PROVE ParseInv
  OBVIOUS
<1>1. argv \in CommandLines /\ argindex = 1 /\ outcome = "parsing"
  BY DEF Init
<1>2. {1} \in CutsOf(argv, 1)
  BY DEF CutsOf, Follows
<1>3. \A cut \in CutsOf(argv, argc) : 1 \in cut
  BY DEF CutsOf
<1>4. Boundary = 1 /\ Busy /\ outcome \notin Accepted
  BY <1>1 DEF Boundary, Busy, Accepted
<1>. QED BY <1>1, <1>2, <1>3, <1>4 DEF ParseInv

(* The parser has taken an option.                                         *)
LEMMA Advance ==
  ASSUME TypeOK, ParseInv, Busy, UNCHANGED argv,
         NEW c \in 1 .. argc, OptionAt(argv, Boundary, c)
  PROVE  /\ CutsOf(argv', c) # {}
         /\ \A cut \in CutsOf(argv', argc') : c \in cut
<1>. DEFINE b == Boundary
<1>1. argc \in Nat \ {0} /\ argindex \in 1 .. argc /\ argc' = argc
  BY Lengths DEF TypeOK, argc
<1>2. b \in Nat /\ b < c
  <2>1. b \in Nat
    BY <1>1 DEF Boundary, ParseInv
  <2>2. c = b + 1 \/ c = b + 2
    BY DEF OptionAt
  <2>. QED BY <2>1, <2>2
<1>3. OptionAt(argv, b, c)
  OBVIOUS
<1>4. CutsOf(argv, b) # {} /\ \A cut \in CutsOf(argv, argc) : b \in cut
  BY DEF ParseInv
<1>. HIDE DEF b
<1>5. CutsOf(argv, c) # {}
  <2>1. PICK cut \in CutsOf(argv, b) : TRUE
    BY <1>4
  <2>2. c \in Nat
    BY <1>1
  <2>. QED BY <1>2, <1>3, <2>1, <2>2, CutGrows
<1>6. \A cut \in CutsOf(argv, argc) : c \in cut
  BY <1>1, <1>2, <1>3, <1>4, CutStep
<1>. QED BY <1>1, <1>5, <1>6

(* Where no option begins, the command line has no cut.                    *)
LEMMA NoCut ==
  ASSUME TypeOK, ParseInv, Busy, Boundary < argc,
         \A c \in 1 .. argc : ~ OptionAt(argv, Boundary, c)
  PROVE  CutsOf(argv, argc) = {}
<1>1. argc \in Nat
  BY Lengths DEF TypeOK
<1>2. SUFFICES ASSUME NEW cut \in CutsOf(argv, argc) PROVE FALSE
  OBVIOUS
<1>3. Boundary \in cut /\ cut \subseteq 1 .. argc
  BY DEF ParseInv, CutsOf
<1>4. \E c \in cut : OptionAt(argv, Boundary, c)
  BY <1>1, <1>3, CutStep
<1>. QED BY <1>3, <1>4

LEMMA ParseInvNext == TypeOK /\ ParseInv /\ [Next]_vars => ParseInv'
<1>. SUFFICES ASSUME TypeOK, ParseInv, [Next]_vars PROVE ParseInv'
  OBVIOUS
<1>0. /\ argc \in Nat \ {0} /\ argindex \in 1 .. argc /\ argc = Len(argv) + 1
      /\ argv \in Seq(String)
      /\ argv' = argv => argc' = argc
  BY Lengths DEF TypeOK, argc
<1>1. ASSUME outcome = "parsing", UNCHANGED argv,
             outcome' \in {"usage", "message", "terminated"},
             argindex < argc, \A c \in 1 .. argc : ~ OptionAt(argv, argindex, c)
      PROVE  ParseInv'
  <2>1. Boundary = argindex /\ Busy
    BY <1>1 DEF Boundary, Busy
  <2>2. CutsOf(argv', argc') = {}
    BY <1>0, <1>1, <2>1, NoCut
  <2>3. ~ Busy' /\ outcome' \notin Accepted /\ outcome' # "loading"
    BY <1>1 DEF Busy, Accepted
  <2>. QED BY <2>2, <2>3 DEF ParseInv
<1>2. ASSUME Busy, UNCHANGED argv, outcome' = "parsing",
             argindex' \in 1 .. argc, OptionAt(argv, Boundary, argindex')
      PROVE  ParseInv'
  <2>1. /\ CutsOf(argv', argindex') # {}
        /\ \A cut \in CutsOf(argv', argc') : argindex' \in cut
    BY <1>2, Advance
  <2>2. Boundary' = argindex' /\ Busy' /\ outcome' \notin Accepted
    BY <1>2 DEF Boundary, Busy, Accepted
  <2>. QED BY <1>2, <2>1, <2>2 DEF ParseInv
<1>3. HasOperand => argindex + 2 \in 1 .. argc /\ Operand = argv[argindex + 1]
  BY <1>0 DEF HasOperand, Operand
<1>4. outcome = "parsing" => Boundary = argindex /\ Busy
  BY DEF Boundary, Busy
<1>5. CASE MissingOperand
  <2>1. /\ outcome = "parsing" /\ argindex < argc
        /\ argv[argindex] \in {"-threads", "-db", "-P", "-p"}
        /\ argindex + 2 \notin 1 .. argc
    BY <1>0, <1>5 DEF MissingOperand, AtOption, HasOperand
  <2>2. \A c \in 1 .. argc : ~ OptionAt(argv, argindex, c)
    BY <2>1 DEF OptionAt
  <2>. QED BY <1>1, <1>5, <2>1, <2>2 DEF MissingOperand
<1>6. CASE ThreadsOption \/ DbOption \/ PropertyOption
  <2>1. /\ outcome = "parsing" /\ HasOperand /\ argindex' = argindex + 2
        /\ UNCHANGED <<argv, outcome>>
        /\ \/ argv[argindex] \in {"-threads", "-db"}
           \/ argv[argindex] = "-p" /\ Operand \in DOMAIN Assignment
    BY <1>6 DEF ThreadsOption, DbOption, PropertyOption, AtOption
  <2>2. OptionAt(argv, Boundary, argindex')
    BY <1>3, <1>4, <2>1 DEF OptionAt
  <2>. QED BY <1>2, <1>3, <1>4, <2>1, <2>2
<1>7. CASE PropertyFileOption
  <2>1. /\ outcome = "parsing" /\ HasOperand /\ argindex' = argindex + 1
        /\ outcome' = "loading" /\ argv' = argv /\ line' = 0
        /\ argv[argindex] = "-P" /\ filename' = Operand /\ Operand \in DOMAIN File
    BY <1>7 DEF PropertyFileOption, AtOption
  <2>2. Boundary' = argindex /\ Busy' /\ outcome' \notin Accepted
    BY <1>0, <2>1 DEF Boundary, Busy, Accepted
  <2>3. /\ CutsOf(argv', Boundary') # {}
        /\ \A cut \in CutsOf(argv', argc') : Boundary' \in cut
    BY <1>0, <1>4, <2>1, <2>2 DEF ParseInv
  <2>4. /\ argindex' >= 2 /\ argindex' - 1 = argindex
    BY <1>0, <2>1
  <2>5. line' <= Len(File[filename'])
    <3>1. Len(File[filename']) \in Nat
      BY <2>1, CommandLineAssumption
    <3>. QED BY <2>1, <3>1
  <2>. QED BY <1>3, <2>1, <2>2, <2>3, <2>4, <2>5 DEF ParseInv
<1>8. CASE LoadLine
  <2>1. /\ outcome = "loading" /\ line < Len(File[filename]) /\ line' = line + 1
        /\ UNCHANGED <<argv, argindex, filename, outcome>>
    BY <1>8 DEF LoadLine
  <2>2. Boundary' = Boundary /\ Busy' = Busy /\ argc' = argc
    BY <1>0, <2>1 DEF Boundary, Busy
  <2>3. line' <= Len(File[filename])
    <3>1. Len(File[filename]) \in Nat /\ line \in Nat
      BY <2>1, CommandLineAssumption DEF TypeOK
    <3>. QED BY <2>1, <3>1
  <2>4. Busy' /\ outcome' \notin Accepted
    BY <2>1 DEF Busy, Accepted
  <2>. QED BY <2>1, <2>2, <2>3, <2>4 DEF ParseInv
<1>9. CASE LoadReturns
  <2>1. /\ outcome = "loading" /\ argindex' = argindex + 1 /\ outcome' = "parsing"
        /\ argv' = argv
    BY <1>9 DEF LoadReturns
  <2>2. /\ Boundary = argindex - 1 /\ Busy /\ argindex < argc
        /\ argv[Boundary] = "-P" /\ argv[argindex] \in DOMAIN File
    BY <2>1 DEF Boundary, Busy, ParseInv, TypeOK
  <2>3. argindex' \in 1 .. argc /\ argindex' = Boundary + 2 /\ Boundary + 1 = argindex
    BY <1>0, <2>1, <2>2
  <2>4. OptionAt(argv, Boundary, argindex')
    BY <2>2, <2>3 DEF OptionAt
  <2>. QED BY <1>2, <2>1, <2>2, <2>3, <2>4
<1>10. CASE UnreadableFile \/ NotAnAssignment
  <2>1. /\ outcome = "parsing" /\ HasOperand /\ argv' = argv /\ argindex < argc
        /\ outcome' \in {"terminated", "message"}
        /\ \/ argv[argindex] = "-P" /\ Operand \notin DOMAIN File
           \/ argv[argindex] = "-p" /\ Operand \notin DOMAIN Assignment
    BY <1>10 DEF UnreadableFile, NotAnAssignment, AtOption
  <2>2. \A c \in 1 .. argc : ~ OptionAt(argv, argindex, c)
    BY <1>3, <2>1 DEF OptionAt
  <2>. QED BY <1>1, <2>1, <2>2
<1>11. CASE LoadOption \/ RunOption
  <2>1. /\ outcome = "parsing" /\ argindex < argc /\ argindex' = argindex + 1
        /\ UNCHANGED <<argv, outcome>>
        /\ argv[argindex] \in {"-load", "-run"}
    BY <1>11 DEF LoadOption, RunOption, AtOption
  <2>2. OptionAt(argv, Boundary, argindex') /\ argindex' \in 1 .. argc
    BY <1>0, <1>4, <2>1 DEF OptionAt
  <2>. QED BY <1>2, <1>4, <2>1, <2>2
<1>12. CASE UnknownOption
  <2>1. /\ outcome = "parsing" /\ argindex < argc /\ outcome' = "message"
        /\ argv' = argv
        /\ argv[argindex] \notin {"-threads", "-db", "-P", "-load", "-run", "-p"}
    BY <1>12 DEF UnknownOption, AtOption
  <2>2. \A c \in 1 .. argc : ~ OptionAt(argv, argindex, c)
    BY <2>1 DEF OptionAt
  <2>. QED BY <1>1, <2>1, <2>2
<1>13. CASE EndOfOptions
  <2>1. /\ outcome = "parsing" /\ UNCHANGED <<argv, argindex>>
        /\ argindex < argc => argv[argindex] \notin Dashed
        /\ outcome' = IF argindex = 1 \/ argindex # argc THEN "usage" ELSE "parsed"
    BY <1>13 DEF EndOfOptions
  <2>2. CASE argindex < argc
    <3>1. argv[argindex] \notin {"-threads", "-db", "-P", "-load", "-run", "-p"}
      BY <2>1, <2>2, CommandLineAssumption
    <3>2. \A c \in 1 .. argc : ~ OptionAt(argv, argindex, c)
      BY <3>1 DEF OptionAt
    <3>3. outcome' = "usage"
      BY <1>0, <2>1, <2>2
    <3>. QED BY <1>1, <2>1, <2>2, <3>2, <3>3
  <2>3. CASE argindex = argc /\ argc = 1
    <3>1. argv' = << >>
      BY <1>0, <2>1, <2>3
    <3>2. outcome' = "usage"
      BY <2>1, <2>3
    <3>3. ~ Busy' /\ outcome' \notin Accepted
      BY <3>2 DEF Busy, Accepted
    <3>. QED BY <3>1, <3>2, <3>3 DEF ParseInv
  <2>4. CASE argindex = argc /\ argc # 1
    <3>1. argv' # << >>
      BY <1>0, <2>1, <2>4
    <3>2. outcome' = "parsed" /\ Boundary' = argindex'
      BY <2>1, <2>4 DEF Boundary
    <3>3. /\ CutsOf(argv', argc') # {} /\ argindex' = argc'
          /\ \A cut \in CutsOf(argv', argc') : argindex' \in cut
      BY <1>0, <1>4, <2>1, <2>4 DEF ParseInv
    <3>4. ~ Busy' /\ outcome' \in Accepted
      BY <3>2 DEF Busy, Accepted
    <3>. QED BY <3>1, <3>2, <3>3, <3>4 DEF ParseInv
  <2>. QED BY <1>0, <2>2, <2>3, <2>4
<1>14. CASE CreateDB
  <2>1. /\ outcome = "parsed" /\ UNCHANGED <<argv, argindex>>
        /\ outcome' \in {"no_dbname", "unknown_dbname", "no_dbpath", "created"}
    BY <1>14 DEF CreateDB
  <2>2. /\ outcome \in Accepted /\ outcome' \in Accepted /\ ~ Busy'
        /\ Boundary = argindex /\ Boundary' = argindex
    BY <2>1 DEF Accepted, Busy, Boundary
  <2>3. outcome' # "loading"
    BY <2>1
  <2>. QED BY <1>0, <2>1, <2>2, <2>3 DEF ParseInv
<1>15. CASE InitWorkload
  <2>1. /\ outcome = "created" /\ UNCHANGED <<argv, argindex>>
        /\ outcome' \in {"no_workload", "no_threadcount", "launching"}
    BY <1>15, LaunchingOrNot
  <2>2. /\ outcome \in Accepted /\ outcome' \in Accepted /\ ~ Busy'
        /\ Boundary = argindex /\ Boundary' = argindex
    BY <2>1 DEF Accepted, Busy, Boundary
  <2>3. outcome' # "loading"
    BY <2>1
  <2>. QED BY <1>0, <2>1, <2>2, <2>3 DEF ParseInv
<1>16. CASE UNCHANGED vars
  <2>1. UNCHANGED <<argv, argindex, filename, line, outcome>>
    BY <1>16 DEF vars
  <2>2. Boundary' = Boundary /\ Busy' = Busy /\ argc' = argc
    BY <1>0, <2>1 DEF Boundary, Busy
  <2>. QED BY <2>1, <2>2 DEF ParseInv
<1>. QED
  BY <1>5, <1>6, <1>7, <1>8, <1>9, <1>10, <1>11, <1>12, <1>13, <1>14, <1>15, <1>16
  DEF Next, Parse, Ended

(* The variables have the values that they should have, and argv is never  *)
(* read beyond its end, on command lines of any length.                    *)
THEOREM CommandLineTypeCorrect == Spec => []TypeOK
BY TypeOKInit, TypeOKNext, PTL DEF Spec

THEOREM ParseInvariance == Spec => []ParseInv
BY ParseInvInit, ParseInvNext, CommandLineTypeCorrect, PTL DEF Spec

(* The program goes to work exactly on the command lines that are made of  *)
(* one or more options and nothing else, of whatever length they are.      *)
THEOREM AcceptanceCorrect == Spec => []AcceptsExactlyOptions
<1>1. TypeOK /\ ParseInv => AcceptsExactlyOptions
  <2>. SUFFICES ASSUME TypeOK, ParseInv PROVE AcceptsExactlyOptions
    OBVIOUS
  <2>1. Cuts = CutsOf(argv, argc)
    BY Lengths, CutsAre DEF TypeOK
  <2>. QED BY <2>1 DEF ParseInv, AcceptsExactlyOptions, Busy
<1>. QED BY <1>1, CommandLineTypeCorrect, ParseInvariance, PTL

-----------------------------------------------------------------------------
(* Settings. *)

(* What CommandLine says of argv, of any sequence of words.                *)
SettingsOf(words, a) ==
  CASE words[a] = "-threads" -> << <<[key |-> "threadcount", value |-> words[a + 1]]>> >>
    [] words[a] = "-db" -> << <<[key |-> "dbname", value |-> words[a + 1]]>> >>
    [] words[a] = "-P" -> File[words[a + 1]]
    [] words[a] = "-p" -> << <<Assignment[words[a + 1]]>> >>
    [] words[a] \in {"-load", "-run"} -> << >>

Made(words, p) == SettingsOf(words, p[1])[p[2]][1]

LEMMA SettingsOfOptions ==
  ASSUME NEW words, NEW a
  PROVE  /\ words[a] = "-threads" =>
              SettingsOf(words, a) = << <<[key |-> "threadcount", value |-> words[a + 1]]>> >>
         /\ words[a] = "-db" =>
              SettingsOf(words, a) = << <<[key |-> "dbname", value |-> words[a + 1]]>> >>
         /\ words[a] = "-P" => SettingsOf(words, a) = File[words[a + 1]]
         /\ words[a] = "-p" => SettingsOf(words, a) = << <<Assignment[words[a + 1]]>> >>
         /\ words[a] \in {"-load", "-run"} => SettingsOf(words, a) = << >>
BY DEF SettingsOf

(* The places of the settings made before boundary b, and in the first l   *)
(* lines of the file that is loaded there.                                 *)
Past(words, cut, b, l) ==
  {p \in cut \X (Nat \ {0}) :
     /\ p[2] \in DOMAIN SettingsOf(words, p[1])
     /\ SettingsOf(words, p[1])[p[2]] # << >>
     /\ p[1] < b \/ (p[1] = b /\ p[2] <= l)}

(* The properties are what the last settings among these places make.      *)
Reflects(p, words, places) ==
  /\ DOMAIN p = {Made(words, q).key : q \in places}
  /\ \A q \in places :
       (\A r \in places : Made(words, r).key = Made(words, q).key => ~ Later(r, q)) =>
         p[Made(words, q).key] = Made(words, q).value

(* A setting that is later than all others is set over them.               *)
LEMMA ReflectsOneMore ==
  ASSUME NEW p, NEW words, NEW places, Reflects(p, words, places),
         NEW q, \A r \in places : Later(q, r)
  PROVE  Reflects(SetProperty(p, Made(words, q).key, Made(words, q).value),
                  words, places \cup {q})
<1>. DEFINE key(r) == Made(words, r).key
            after == SetProperty(p, key(q), Made(words, q).value)
<1>1. /\ DOMAIN after = DOMAIN p \cup {key(q)}
      /\ after[key(q)] = Made(words, q).value
      /\ \A k \in DOMAIN p : k # key(q) => after[k] = p[k]
  BY DEF SetProperty
<1>2. DOMAIN p = {key(r) : r \in places}
  BY DEF Reflects
<1>3. DOMAIN after = {key(r) : r \in places \cup {q}}
  BY <1>1, <1>2
<1>4. ASSUME NEW r \in places,
             \A s \in places \cup {q} : key(s) = key(r) => ~ Later(s, r)
      PROVE  after[key(r)] = Made(words, r).value
  <2>1. key(r) # key(q) /\ key(r) \in DOMAIN p
    BY <1>2, <1>4
  <2>2. p[key(r)] = Made(words, r).value
    BY <1>4 DEF Reflects
  <2>. QED BY <1>1, <2>1, <2>2
<1>. HIDE DEF after
<1>5. ASSUME NEW r \in places \cup {q},
             \A s \in places \cup {q} : key(s) = key(r) => ~ Later(s, r)
      PROVE  after[key(r)] = Made(words, r).value
  <2>1. CASE r = q
    BY <1>1, <2>1
  <2>2. CASE r \in places
    BY <1>4, <1>5, <2>2
  <2>. QED BY <2>1, <2>2
<1>. QED BY <1>3, <1>5 DEF Reflects, after

LEMMA PastNumbers ==
  ASSUME NEW words, NEW end \in Nat, NEW cut \in CutsOf(words, end),
         NEW b \in cut, NEW l \in Nat, NEW p \in Past(words, cut, b, l)
  PROVE  /\ p[1] \in cut /\ p[1] \in Nat /\ p[2] \in Nat \ {0}
         /\ p[1] < b \/ (p[1] = b /\ p[2] <= l)
<1>1. cut \in SUBSET (1 .. end)
  BY DEF CutsOf
<1>2. p \in cut \X (Nat \ {0}) /\ (p[1] < b \/ (p[1] = b /\ p[2] <= l))
  BY DEF Past
<1>3. p[1] \in cut /\ p[2] \in Nat \ {0}
  BY <1>2
<1>4. cut \subseteq Nat
  BY <1>1, 1 .. end \subseteq Nat
<1>. QED BY <1>2, <1>3, <1>4

(* From one boundary to the next: the settings of the option in between    *)
(* become past ones.                                                       *)
LEMMA PastOption ==
  ASSUME NEW words, NEW end \in Nat, NEW cut \in CutsOf(words, end),
         NEW b \in cut, NEW c \in Nat, b < end, OptionAt(words, b, c)
  PROVE  /\ DOMAIN SettingsOf(words, b) = {} =>
              Past(words, cut, c, 0) = Past(words, cut, b, 0)
         /\ DOMAIN SettingsOf(words, b) = {1} /\ SettingsOf(words, b)[1] # << >> =>
              Past(words, cut, c, 0) = Past(words, cut, b, 0) \cup {<<b, 1>>}
         /\ \A l \in Nat : DOMAIN SettingsOf(words, b) = 1 .. l =>
              Past(words, cut, c, 0) = Past(words, cut, b, l)
<1>1. Follows(cut, b, c) /\ cut \in SUBSET (1 .. end)
  BY CutStep DEF CutsOf
<1>2. \A d \in cut : d \in Nat /\ (d < c <=> d < b \/ d = b)
  BY <1>1 DEF Follows
<1>3. \A n \in Nat \ {0} : ~ (n <= 0)
  OBVIOUS
<1>4. \A p \in cut \X (Nat \ {0}) :
        p \in Past(words, cut, c, 0) <=>
          /\ p[2] \in DOMAIN SettingsOf(words, p[1])
          /\ SettingsOf(words, p[1])[p[2]] # << >>
          /\ p[1] < b \/ p[1] = b
  BY <1>2, <1>3 DEF Past
<1>5. \A p \in cut \X (Nat \ {0}) : \A l \in Nat :
        p \in Past(words, cut, b, l) <=>
          /\ p[2] \in DOMAIN SettingsOf(words, p[1])
          /\ SettingsOf(words, p[1])[p[2]] # << >>
          /\ p[1] < b \/ (p[1] = b /\ p[2] <= l)
  BY DEF Past
<1>6. \A d, l : Past(words, cut, d, l) \subseteq cut \X (Nat \ {0})
  BY DEF Past
<1>7. ASSUME DOMAIN SettingsOf(words, b) = {}
      PROVE  Past(words, cut, c, 0) = Past(words, cut, b, 0)
  BY <1>3, <1>4, <1>5, <1>6, <1>7
<1>8. ASSUME DOMAIN SettingsOf(words, b) = {1}, SettingsOf(words, b)[1] # << >>
      PROVE  Past(words, cut, c, 0) = Past(words, cut, b, 0) \cup {<<b, 1>>}
  <2>1. <<b, 1>> \in cut \X (Nat \ {0})
    OBVIOUS
  <2>2. <<b, 1>> \in Past(words, cut, c, 0)
    BY <1>4, <1>8, <2>1
  <2>3. ASSUME NEW p \in cut \X (Nat \ {0}), p[1] = b, p[2] = 1
        PROVE  p = <<b, 1>>
    BY <2>3
  <2>4. ASSUME NEW p \in Past(words, cut, c, 0)
        PROVE  p \in Past(words, cut, b, 0) \cup {<<b, 1>>}
    BY <1>4, <1>5, <1>6, <1>8, <2>3, <2>4
  <2>5. ASSUME NEW p \in Past(words, cut, b, 0)
        PROVE  p \in Past(words, cut, c, 0)
    BY <1>3, <1>4, <1>5, <1>6, <2>5
  <2>. QED BY <2>2, <2>4, <2>5
<1>9. ASSUME NEW l \in Nat, DOMAIN SettingsOf(words, b) = 1 .. l
      PROVE  Past(words, cut, c, 0) = Past(words, cut, b, l)
  <2>1. \A n \in Nat : n \in 1 .. l => n <= l
    OBVIOUS
  <2>2. ASSUME NEW p \in cut \X (Nat \ {0})
        PROVE  p \in Past(words, cut, c, 0) <=> p \in Past(words, cut, b, l)
    BY <1>4, <1>5, <1>9, <2>1
  <2>. QED BY <1>6, <2>2
<1>. QED BY <1>7, <1>8, <1>9

(* One line more of the file that is loaded.                               *)
LEMMA PastLine ==
  ASSUME NEW words, NEW cut, NEW b \in cut, NEW l \in Nat, NEW n \in Nat, n = l + 1,
         n \in DOMAIN SettingsOf(words, b)
  PROVE  /\ SettingsOf(words, b)[n] = << >> =>
              Past(words, cut, b, n) = Past(words, cut, b, l)
         /\ SettingsOf(words, b)[n] # << >> =>
              Past(words, cut, b, n) = Past(words, cut, b, l) \cup {<<b, n>>}
<1>1. \A k \in Nat : k <= n <=> k <= l \/ k = n
  OBVIOUS
<1>2. \A p \in cut \X (Nat \ {0}) : \A k \in Nat :
        p \in Past(words, cut, b, k) <=>
          /\ p[2] \in DOMAIN SettingsOf(words, p[1])
          /\ SettingsOf(words, p[1])[p[2]] # << >>
          /\ p[1] < b \/ (p[1] = b /\ p[2] <= k)
  BY DEF Past
<1>3. \A k : Past(words, cut, b, k) \subseteq cut \X (Nat \ {0})
  BY DEF Past
<1>4. <<b, n>> \in cut \X (Nat \ {0})
  OBVIOUS
<1>5. ASSUME NEW p \in cut \X (Nat \ {0}), p[1] = b, p[2] = n
      PROVE  p = <<b, n>>
  BY <1>5
<1>6. ASSUME NEW p \in cut \X (Nat \ {0})
      PROVE  p \in Past(words, cut, b, n) <=>
               \/ p \in Past(words, cut, b, l)
               \/ p = <<b, n>> /\ SettingsOf(words, b)[n] # << >>
  <2>1. p[2] \in Nat
    OBVIOUS
  <2>2. p[2] <= n <=> p[2] <= l \/ p[2] = n
    BY <1>1, <2>1
  <2>. QED BY <1>2, <1>5, <2>1, <2>2
<1>7. ASSUME SettingsOf(words, b)[n] = << >>
      PROVE  Past(words, cut, b, n) = Past(words, cut, b, l)
  <2>1. \A p \in cut \X (Nat \ {0}) :
          p \in Past(words, cut, b, n) <=> p \in Past(words, cut, b, l)
    BY <1>6, <1>7
  <2>. QED BY <1>3, <2>1
<1>8. ASSUME SettingsOf(words, b)[n] # << >>
      PROVE  Past(words, cut, b, n) = Past(words, cut, b, l) \cup {<<b, n>>}
  <2>1. \A p \in cut \X (Nat \ {0}) :
          p \in Past(words, cut, b, n) <=> p \in Past(words, cut, b, l) \/ p = <<b, n>>
    BY <1>6, <1>8
  <2>. QED BY <1>3, <1>4, <2>1
<1>. QED BY <1>7, <1>8

(* Whatever the cut of the command line, the properties are what the last  *)
(* settings made so far make them.                                         *)
LinesRead == IF outcome = "loading" THEN line ELSE 0

SettingsInv ==
  Busy \/ outcome \in Accepted =>
    \A cut \in CutsOf(argv, argc) :
      Reflects(props, argv, Past(argv, cut, Boundary, LinesRead))

LEMMA SettingsInvInit == Init => SettingsInv
<1>. SUFFICES ASSUME Init, NEW cut \in CutsOf(argv, argc)
              PROVE  Reflects(props, argv, Past(argv, cut, Boundary, LinesRead))
  BY DEF SettingsInv
<1>1. argv \in CommandLines /\ argindex = 1 /\ outcome = "parsing" /\ DOMAIN props = {}
  BY DEF Init
<1>2. Boundary = 1 /\ LinesRead = 0
  BY <1>1 DEF Boundary, LinesRead
<1>3. argc \in Nat
  BY <1>1, Lengths
<1>4. cut \in SUBSET (1 .. argc)
  BY DEF CutsOf
<1>5. \A d \in cut : ~ (d < 1)
  BY <1>3, <1>4
<1>6. \A n \in Nat \ {0} : ~ (n <= 0)
  OBVIOUS
<1>7. Past(argv, cut, 1, 0) = {}
  BY <1>5, <1>6 DEF Past
<1>. QED BY <1>1, <1>2, <1>7 DEF Reflects

(* The parser has taken an option that makes one setting.                  *)
LEMMA OneSetting ==
  ASSUME TypeOK, ParseInv, SettingsInv, outcome = "parsing", argindex < argc,
         UNCHANGED <<argv, outcome>>,
         argindex' \in Nat, OptionAt(argv, argindex, argindex'),
         NEW setting, SettingsOf(argv, argindex) = << <<setting>> >>,
         props' = SetProperty(props, setting.key, setting.value)
  PROVE  SettingsInv'
<1>1. /\ Busy /\ Boundary = argindex /\ Boundary' = argindex'
      /\ LinesRead = 0 /\ LinesRead' = 0 /\ argc' = argc
  BY DEF Busy, Boundary, LinesRead, argc
<1>2. argc \in Nat
  BY Lengths DEF TypeOK
<1>3. ASSUME NEW cut \in CutsOf(argv, argc)
      PROVE  Reflects(props', argv, Past(argv, cut, argindex', 0))
  <2>1. argindex \in cut /\ Reflects(props, argv, Past(argv, cut, argindex, 0))
    BY <1>1 DEF ParseInv, SettingsInv
  <2>2. /\ DOMAIN SettingsOf(argv, argindex) = {1}
        /\ SettingsOf(argv, argindex)[1] # << >>
        /\ Made(argv, <<argindex, 1>>) = setting
    BY DEF Made
  <2>3. Past(argv, cut, argindex', 0) =
          Past(argv, cut, argindex, 0) \cup {<<argindex, 1>>}
    BY <1>2, <2>1, <2>2, PastOption
  <2>4. \A q \in Past(argv, cut, argindex, 0) : Later(<<argindex, 1>>, q)
    <3>. TAKE q \in Past(argv, cut, argindex, 0)
    <3>1. /\ q[1] \in Nat /\ q[2] \in Nat \ {0}
          /\ q[1] < argindex \/ (q[1] = argindex /\ q[2] <= 0)
      BY <1>2, <2>1, PastNumbers
    <3>2. argindex > q[1]
      BY <3>1 DEF TypeOK
    <3>. QED BY <3>2 DEF Later
  <2>. QED BY <2>1, <2>2, <2>3, <2>4, ReflectsOneMore
<1>. QED BY <1>1, <1>3 DEF SettingsInv

LEMMA SettingsInvNext ==
  TypeOK /\ ParseInv /\ SettingsInv /\ [Next]_vars => SettingsInv'
<1>. SUFFICES ASSUME TypeOK, ParseInv, SettingsInv, [Next]_vars PROVE SettingsInv'
  OBVIOUS
<1>0. /\ argc \in Nat \ {0} /\ argindex \in 1 .. argc /\ argc = Len(argv) + 1
      /\ argv' = argv => argc' = argc
  BY Lengths DEF TypeOK, argc
<1>1. HasOperand => argindex + 2 \in 1 .. argc /\ Operand = argv[argindex + 1]
  BY <1>0 DEF HasOperand, Operand
<1>2. ASSUME outcome' \in {"usage", "message", "terminated"} PROVE SettingsInv'
  BY <1>2 DEF SettingsInv, Busy, Accepted
<1>3. ASSUME Busy \/ outcome \in Accepted, UNCHANGED <<argv, props>>,
             \A cut \in CutsOf(argv, argc) :
               Past(argv, cut, Boundary', LinesRead') =
                 Past(argv, cut, Boundary, LinesRead)
      PROVE  SettingsInv'
  BY <1>0, <1>3 DEF SettingsInv
<1>4. CASE MissingOperand \/ UnreadableFile \/ NotAnAssignment \/ UnknownOption
  BY <1>2, <1>4 DEF MissingOperand, UnreadableFile, NotAnAssignment, UnknownOption
<1>5. CASE ThreadsOption \/ DbOption \/ PropertyOption
  <2>1. /\ outcome = "parsing" /\ argindex < argc /\ HasOperand
        /\ UNCHANGED <<argv, outcome>> /\ argindex' = argindex + 2
    BY <1>5 DEF ThreadsOption, DbOption, PropertyOption, AtOption
  <2>2. PICK setting :
          /\ SettingsOf(argv, argindex) = << <<setting>> >>
          /\ props' = SetProperty(props, setting.key, setting.value)
          /\ OptionAt(argv, argindex, argindex')
    <3>1. CASE ThreadsOption
      <4>. DEFINE setting == [key |-> "threadcount", value |-> Operand]
      <4>1. /\ argv[argindex] = "-threads"
            /\ props' = SetProperty(props, setting.key, setting.value)
        BY <3>1 DEF ThreadsOption, AtOption
      <4>2. SettingsOf(argv, argindex) = << <<setting>> >>
        BY <1>1, <2>1, <4>1, SettingsOfOptions
      <4>3. OptionAt(argv, argindex, argindex')
        BY <2>1, <4>1 DEF OptionAt
      <4>. HIDE DEF setting
      <4>. QED BY <4>1, <4>2, <4>3
    <3>2. CASE DbOption
      <4>. DEFINE setting == [key |-> "dbname", value |-> Operand]
      <4>1. /\ argv[argindex] = "-db"
            /\ props' = SetProperty(props, setting.key, setting.value)
        BY <3>2 DEF DbOption, AtOption
      <4>2. SettingsOf(argv, argindex) = << <<setting>> >>
        BY <1>1, <2>1, <4>1, SettingsOfOptions
      <4>3. OptionAt(argv, argindex, argindex')
        BY <2>1, <4>1 DEF OptionAt
      <4>. HIDE DEF setting
      <4>. QED BY <4>1, <4>2, <4>3
    <3>3. CASE PropertyOption
      <4>. DEFINE setting == Assignment[Operand]
      <4>1. /\ argv[argindex] = "-p" /\ Operand \in DOMAIN Assignment
            /\ props' = SetProperty(props, setting.key, setting.value)
        BY <3>3 DEF PropertyOption, AtOption
      <4>2. SettingsOf(argv, argindex) = << <<setting>> >>
        BY <1>1, <2>1, <4>1, SettingsOfOptions
      <4>3. OptionAt(argv, argindex, argindex')
        BY <1>1, <2>1, <4>1 DEF OptionAt
      <4>. HIDE DEF setting
      <4>. QED BY <4>1, <4>2, <4>3
    <3>. QED BY <1>5, <3>1, <3>2, <3>3
  <2>3. argindex' \in Nat
    BY <1>0, <2>1
  <2>. QED BY <2>1, <2>2, <2>3, OneSetting
<1>6. CASE PropertyFileOption
  <2>1. /\ outcome = "parsing" /\ outcome' = "loading" /\ argindex' = argindex + 1
        /\ line' = 0 /\ UNCHANGED <<argv, props>>
    BY <1>6 DEF PropertyFileOption, AtOption
  <2>2. Busy /\ Boundary' = Boundary /\ LinesRead' = LinesRead
    BY <1>0, <2>1 DEF Busy, Boundary, LinesRead
  <2>. QED BY <1>3, <2>1, <2>2
<1>7. CASE LoadLine
  <2>1. /\ outcome = "loading" /\ line < Len(File[filename]) /\ line' = line + 1
        /\ UNCHANGED <<argv, argindex, outcome>>
        /\ props' = LET settings == File[filename][line + 1] IN
                      IF settings = << >> THEN props
                      ELSE SetProperty(props, settings[1].key, settings[1].value)
    BY <1>7 DEF LoadLine
  <2>2. /\ Busy /\ Boundary' = Boundary /\ LinesRead = line /\ LinesRead' = line + 1
        /\ Boundary = argindex - 1 /\ line \in Nat
    BY <2>1 DEF Busy, Boundary, LinesRead, TypeOK
  <2>3. /\ argv[Boundary] = "-P" /\ argv[Boundary + 1] = filename
        /\ filename \in DOMAIN File
    <3>1. argindex - 1 + 1 = argindex
      BY <1>0
    <3>. QED BY <2>1, <2>2, <3>1 DEF ParseInv
  <2>4. SettingsOf(argv, Boundary) = File[filename]
    BY <2>3, SettingsOfOptions
  <2>5. line + 1 \in DOMAIN File[filename]
    BY <2>1, <2>2, <2>3, FileLine
  <2>6. ASSUME NEW cut \in CutsOf(argv, argc)
        PROVE  Reflects(props', argv, Past(argv, cut, Boundary, line + 1))
    <3>. DEFINE settings == File[filename][line + 1]
                places == Past(argv, cut, Boundary, line)
    <3>1. Boundary \in cut /\ Reflects(props, argv, places)
      BY <2>2 DEF ParseInv, SettingsInv
    <3>2. Past(argv, cut, Boundary, line + 1) =
            IF settings = << >> THEN places ELSE places \cup {<<Boundary, line + 1>>}
      <4>1. Boundary \in cut /\ line \in Nat
        BY <2>2, <3>1
      <4>2. line + 1 \in DOMAIN SettingsOf(argv, Boundary)
        BY <2>4, <2>5
      <4>3. PICK n \in Nat : n = line + 1
        BY <4>1
      <4>4. /\ settings = << >> => Past(argv, cut, Boundary, n) = places
            /\ settings # << >> =>
                 Past(argv, cut, Boundary, n) = places \cup {<<Boundary, n>>}
        BY <2>4, <4>1, <4>2, <4>3, PastLine
      <4>. QED BY <4>3, <4>4
    <3>3. Made(argv, <<Boundary, line + 1>>) = settings[1]
      BY <2>4 DEF Made
    <3>4. \A q \in places : Later(<<Boundary, line + 1>>, q)
      <4>. TAKE q \in places
      <4>1. /\ q[1] \in Nat /\ q[2] \in Nat \ {0}
            /\ q[1] < Boundary \/ (q[1] = Boundary /\ q[2] <= line)
        BY <1>0, <2>2, <3>1, PastNumbers
      <4>2. Boundary \in Nat
        BY <1>0, <2>1, <2>2 DEF ParseInv
      <4>3. Boundary > q[1] \/ (Boundary = q[1] /\ line + 1 > q[2])
        BY <2>2, <4>1, <4>2
      <4>. QED BY <4>3 DEF Later
    <3>5. props' = IF settings = << >> THEN props
                   ELSE SetProperty(props, settings[1].key, settings[1].value)
      BY <2>1
    <3>. HIDE DEF settings, places
    <3>6. CASE settings = << >>
      BY <3>1, <3>2, <3>5, <3>6
    <3>7. CASE settings # << >>
      <4>1. Reflects(SetProperty(props, settings[1].key, settings[1].value), argv,
                     places \cup {<<Boundary, line + 1>>})
        BY <3>1, <3>3, <3>4, ReflectsOneMore
      <4>. QED BY <3>2, <3>5, <3>7, <4>1
    <3>. QED BY <3>6, <3>7
  <2>. QED BY <1>0, <2>1, <2>2, <2>6 DEF SettingsInv
<1>8. CASE LoadReturns
  <2>1. /\ outcome = "loading" /\ outcome' = "parsing" /\ argindex' = argindex + 1
        /\ line = Len(File[filename]) /\ UNCHANGED <<argv, props>>
    BY <1>8 DEF LoadReturns
  <2>2. /\ Busy /\ LinesRead = line /\ LinesRead' = 0 /\ line \in Nat
        /\ Boundary = argindex - 1 /\ Boundary' = argindex + 1
        /\ argindex < argc /\ argindex >= 2
    BY <2>1 DEF Busy, Boundary, LinesRead, TypeOK, ParseInv
  <2>3. /\ argv[Boundary] = "-P" /\ argv[Boundary + 1] = filename
        /\ filename \in DOMAIN File
    <3>1. argindex - 1 + 1 = argindex
      BY <1>0
    <3>. QED BY <2>1, <2>2, <3>1 DEF ParseInv
  <2>4. DOMAIN SettingsOf(argv, Boundary) = 1 .. line
    <3>1. SettingsOf(argv, Boundary) = File[filename]
      BY <2>3, SettingsOfOptions
    <3>2. DOMAIN File[filename] = 1 .. Len(File[filename])
      BY <2>3, CommandLineAssumption
    <3>. QED BY <2>1, <3>1, <3>2
  <2>5. Boundary' \in Nat /\ Boundary' = Boundary + 2 /\ Boundary < argc
    BY <1>0, <2>2
  <2>6. OptionAt(argv, Boundary, Boundary')
    BY <2>3, <2>5 DEF OptionAt
  <2>7. ASSUME NEW cut \in CutsOf(argv, argc)
        PROVE  Past(argv, cut, Boundary', 0) = Past(argv, cut, Boundary, line)
    <3>1. Boundary \in cut
      BY <2>2 DEF ParseInv
    <3>. QED BY <1>0, <2>2, <2>4, <2>5, <2>6, <3>1, PastOption
  <2>. QED BY <1>3, <2>1, <2>2, <2>7
<1>9. CASE LoadOption \/ RunOption
  <2>1. /\ outcome = "parsing" /\ argindex < argc /\ argindex' = argindex + 1
        /\ UNCHANGED <<argv, props, outcome>>
        /\ argv[argindex] \in {"-load", "-run"}
    BY <1>9 DEF LoadOption, RunOption, AtOption
  <2>2. /\ Busy /\ Boundary = argindex /\ Boundary' = argindex'
        /\ LinesRead = 0 /\ LinesRead' = 0
    BY <2>1 DEF Busy, Boundary, LinesRead
  <2>3. DOMAIN SettingsOf(argv, argindex) = {}
    BY <2>1, SettingsOfOptions
  <2>4. OptionAt(argv, argindex, argindex') /\ argindex' \in Nat
    BY <1>0, <2>1 DEF OptionAt
  <2>5. ASSUME NEW cut \in CutsOf(argv, argc)
        PROVE  Past(argv, cut, argindex', 0) = Past(argv, cut, argindex, 0)
    <3>1. argindex \in cut
      BY <2>2 DEF ParseInv
    <3>. QED BY <1>0, <2>1, <2>3, <2>4, <3>1, PastOption
  <2>. QED BY <1>3, <2>1, <2>2, <2>5
<1>10. CASE EndOfOptions
  <2>1. /\ outcome = "parsing" /\ outcome' \in {"usage", "parsed"}
        /\ UNCHANGED <<argv, argindex, props>>
    BY <1>10 DEF EndOfOptions
  <2>2. Busy /\ Boundary' = Boundary /\ LinesRead' = LinesRead
    BY <2>1 DEF Busy, Boundary, LinesRead
  <2>. QED BY <1>3, <2>1, <2>2
<1>11. CASE CreateDB
  <2>1. /\ outcome = "parsed" /\ UNCHANGED <<argv, argindex, props>>
        /\ outcome' \in {"no_dbname", "unknown_dbname", "no_dbpath", "created"}
    BY <1>11 DEF CreateDB
  <2>2. outcome \in Accepted /\ Boundary' = Boundary /\ LinesRead' = LinesRead
    BY <2>1 DEF Accepted, Boundary, LinesRead
  <2>. QED BY <1>3, <2>1, <2>2
<1>12. CASE InitWorkload
  <2>1. /\ outcome = "created" /\ UNCHANGED <<argv, argindex, props>>
        /\ outcome' \in {"no_workload", "no_threadcount", "launching"}
    BY <1>12, LaunchingOrNot
  <2>2. outcome \in Accepted /\ Boundary' = Boundary /\ LinesRead' = LinesRead
    BY <2>1 DEF Accepted, Boundary, LinesRead
  <2>. QED BY <1>3, <2>1, <2>2
<1>13. CASE UNCHANGED vars
  <2>1. UNCHANGED <<argv, argindex, props, line, outcome>>
    BY <1>13 DEF vars
  <2>2. Boundary' = Boundary /\ LinesRead' = LinesRead /\ Busy' = Busy
    BY <2>1 DEF Boundary, LinesRead, Busy
  <2>. QED BY <1>0, <2>1, <2>2 DEF SettingsInv
<1>. QED
  BY <1>4, <1>5, <1>6, <1>7, <1>8, <1>9, <1>10, <1>11, <1>12, <1>13
  DEF Next, Parse, Ended

THEOREM SettingsInvariance == Spec => []SettingsInv
BY SettingsInvInit, SettingsInvNext, CommandLineTypeCorrect, ParseInvariance, PTL DEF Spec

(* In the end, the past settings are all settings of the command line.     *)
LEMMA PlacesArePast ==
  ASSUME argc \in Nat, NEW cut \in CutsOf(argv, argc)
  PROVE  SettingPlaces(cut) = Past(argv, cut, argc, 0)
<1>1. \A a : SettingsAt(a) = SettingsOf(argv, a)
  BY DEF SettingsAt, SettingsOf
<1>2. cut \in SUBSET (1 .. argc)
  BY DEF CutsOf
<1>3. \A a \in cut : a # argc <=> a < argc
  BY <1>2
<1>4. ASSUME NEW a \in cut, a # argc
      PROVE  DOMAIN SettingsOf(argv, a) \subseteq Nat \ {0}
  <2>1. PICK c : OptionAt(argv, a, c)
    BY <1>3, <1>4, CutStep
  <2>2. CASE argv[a] \in {"-load", "-run"}
    BY <2>2, SettingsOfOptions
  <2>3. CASE argv[a] = "-threads"
    BY <2>3, SettingsOfOptions
  <2>4. CASE argv[a] = "-db"
    BY <2>4, SettingsOfOptions
  <2>5. CASE argv[a] = "-p"
    BY <2>5, SettingsOfOptions
  <2>6. CASE argv[a] = "-P" /\ argv[a + 1] \in DOMAIN File
    <3>1. File[argv[a + 1]] \in Seq(Seq(Setting))
      BY <2>6, CommandLineAssumption
    <3>2. DOMAIN File[argv[a + 1]] \subseteq Nat \ {0}
      BY <3>1
    <3>. QED BY <2>6, <3>2, SettingsOfOptions
  <2>. QED BY <2>1, <2>2, <2>3, <2>4, <2>5, <2>6 DEF OptionAt
<1>5. \A n \in Nat \ {0} : ~ (n <= 0)
  OBVIOUS
<1>6. ASSUME NEW p \in SettingPlaces(cut) PROVE p \in Past(argv, cut, argc, 0)
  <2>1. PICK a \in cut \ {argc} : p \in {a} \X DOMAIN SettingsOf(argv, a)
    BY <1>1 DEF SettingPlaces
  <2>2. SettingsOf(argv, p[1])[p[2]] # << >>
    BY <1>1 DEF SettingPlaces
  <2>3. p[1] = a /\ p[2] \in DOMAIN SettingsOf(argv, a) /\ p = <<p[1], p[2]>>
    BY <2>1
  <2>4. p[1] \in cut /\ p[1] < argc /\ p[2] \in Nat \ {0}
    BY <1>3, <1>4, <2>1, <2>3
  <2>5. p \in cut \X (Nat \ {0})
    BY <2>3, <2>4
  <2>. QED BY <2>2, <2>3, <2>4, <2>5 DEF Past
<1>7. ASSUME NEW p \in Past(argv, cut, argc, 0) PROVE p \in SettingPlaces(cut)
  <2>1. /\ p \in cut \X (Nat \ {0})
        /\ p[2] \in DOMAIN SettingsOf(argv, p[1])
        /\ SettingsOf(argv, p[1])[p[2]] # << >>
        /\ p[1] < argc \/ p[2] <= 0
    BY <1>7 DEF Past
  <2>2. p[1] \in cut /\ p[2] \in Nat \ {0} /\ p = <<p[1], p[2]>>
    BY <2>1
  <2>3. p[1] \in cut \ {argc}
    BY <1>3, <1>5, <2>1, <2>2
  <2>4. p \in {p[1]} \X DOMAIN SettingsAt(p[1])
    BY <1>1, <2>1, <2>2
  <2>. QED BY <1>1, <2>1, <2>3, <2>4 DEF SettingPlaces
<1>. QED BY <1>6, <1>7

(* Options and files are processed in the order specified: a property has  *)
(* the value of the last setting that names it, in the command line or in  *)
(* a file of any length that it names.                                     *)
THEOREM LastSettingCorrect == Spec => []LastSettingWins
<1>1. TypeOK /\ ParseInv /\ SettingsInv => LastSettingWins
  <2>. SUFFICES ASSUME TypeOK, ParseInv, SettingsInv, outcome = "parsed",
                       NEW cut \in Cuts
                PROVE  LET places == SettingPlaces(cut)
                       IN  /\ DOMAIN props = {SettingOf(p).key : p \in places}
                           /\ \A p \in places :
                                Prevails(p, places) =>
                                  props[SettingOf(p).key] = SettingOf(p).value
    BY DEF LastSettingWins
  <2>1. cut \in CutsOf(argv, argc) /\ argc \in Nat
    BY Lengths, CutsAre DEF TypeOK
  <2>2. Boundary = argc /\ LinesRead = 0 /\ outcome \in Accepted
    BY DEF Boundary, LinesRead, Accepted, ParseInv
  <2>3. Reflects(props, argv, SettingPlaces(cut))
    BY <2>1, <2>2, PlacesArePast DEF SettingsInv
  <2>4. \A p : SettingOf(p) = Made(argv, p)
    BY DEF SettingOf, Made, SettingsAt, SettingsOf
  <2>. QED BY <2>3, <2>4 DEF Reflects, Prevails
<1>. QED BY <1>1, CommandLineTypeCorrect, ParseInvariance, SettingsInvariance, PTL

-----------------------------------------------------------------------------
(* The name of the file, the phases, and the result line. *)

Taken(cut, i) == {a \in cut : a < i}

Given(words, taken, w) == \E a \in taken : words[a] = w

(* f is the operand of the last -P that has been taken.                    *)
NamesFile(words, taken, f) ==
  \A a \in taken :
    words[a] = "-P" /\ (\A d \in taken : a < d => words[d] # "-P") =>
      f = words[a + 1]

(* The name is that of the last file, and the phases are those asked for,  *)
(* or both.                                                                *)
OptionsInv ==
  Busy \/ outcome \in Accepted =>
    \A cut \in CutsOf(argv, argc) :
      LET taken == Taken(cut, argindex)
          load  == Given(argv, taken, "-load")
          run   == Given(argv, taken, "-run")
      IN  /\ NamesFile(argv, taken, filename)
          /\ Busy \/ outcome = "parsed" => (do_load <=> load) /\ (do_run <=> run)
          /\ ~ Busy /\ outcome # "parsed" =>
               (do_load <=> load \/ ~ run) /\ (do_run <=> run \/ ~ load)

(* What is taken grows by one option from one boundary to the next.        *)
LEMMA TakenStep ==
  ASSUME NEW words, NEW end \in Nat, NEW cut \in CutsOf(words, end),
         NEW b \in cut, NEW c \in Nat, b < end, OptionAt(words, b, c),
         NEW i \in Nat, b < i, i <= c
  PROVE  Taken(cut, i) = Taken(cut, b) \cup {b}
<1>1. Follows(cut, b, c) /\ cut \subseteq Nat
  <2>1. cut \subseteq 1 .. end
    BY DEF CutsOf
  <2>. QED BY <2>1, CutStep, 1 .. end \subseteq Nat
<1>2. b \in Nat /\ \A d \in cut : d \in Nat /\ ~ (b < d /\ d < c)
  BY <1>1 DEF Follows
<1>3. \A d \in cut : d < i <=> d < b \/ d = b
  BY <1>2
<1>. QED BY <1>3 DEF Taken

LEMMA NamesFileStep ==
  ASSUME NEW words, NEW taken, NEW b, \A a \in taken : a < b,
         NEW f, NEW g, NamesFile(words, taken, f),
         IF words[b] = "-P" THEN g = words[b + 1] ELSE g = f
  PROVE  NamesFile(words, taken \cup {b}, g)
<1>1. ASSUME NEW a \in taken \cup {b}, words[a] = "-P",
             \A d \in taken \cup {b} : a < d => words[d] # "-P"
      PROVE  g = words[a + 1]
  <2>1. CASE words[b] = "-P"
    <3>1. a = b
      BY <1>1, <2>1
    <3>. QED BY <2>1, <3>1
  <2>2. CASE words[b] # "-P"
    <3>1. a \in taken
      BY <1>1, <2>2
    <3>2. f = words[a + 1]
      BY <1>1, <3>1 DEF NamesFile
    <3>. QED BY <2>2, <3>2
  <2>. QED BY <2>1, <2>2
<1>. QED BY <1>1 DEF NamesFile

LEMMA OptionsInvInit == Init => OptionsInv
<1>. SUFFICES ASSUME Init, NEW cut \in CutsOf(argv, argc)
              PROVE  /\ NamesFile(argv, Taken(cut, argindex), filename)
                     /\ (do_load <=> Given(argv, Taken(cut, argindex), "-load"))
                     /\ (do_run <=> Given(argv, Taken(cut, argindex), "-run"))
  BY DEF OptionsInv, Init, Busy
<1>1. argc \in Nat /\ argindex = 1 /\ ~ do_load /\ ~ do_run
  BY Lengths DEF Init
<1>2. cut \in SUBSET (1 .. argc)
  BY DEF CutsOf
<1>3. \A d \in cut : ~ (d < 1)
  BY <1>1, <1>2
<1>4. Taken(cut, argindex) = {}
  BY <1>1, <1>3 DEF Taken
<1>. QED BY <1>1, <1>4 DEF NamesFile, Given

LEMMA OptionsInvNext ==
  TypeOK /\ ParseInv /\ OptionsInv /\ [Next]_vars => OptionsInv'
<1>. SUFFICES ASSUME TypeOK, ParseInv, OptionsInv, [Next]_vars PROVE OptionsInv'
  OBVIOUS
<1>0. /\ argc \in Nat \ {0} /\ argindex \in 1 .. argc /\ argc = Len(argv) + 1
      /\ argv' = argv => argc' = argc
  BY Lengths DEF TypeOK, argc
<1>1. ASSUME outcome' \in {"usage", "message", "terminated"} PROVE OptionsInv'
  BY <1>1 DEF OptionsInv, Busy, Accepted
<1>2. ASSUME outcome = "parsing", Busy', argindex < argc, UNCHANGED argv,
             NEW c \in Nat, OptionAt(argv, argindex, c),
             argindex < argindex', argindex' <= c, argindex' \in Nat,
             do_load' <=> do_load \/ argv[argindex] = "-load",
             do_run' <=> do_run \/ argv[argindex] = "-run",
             filename' = IF argv[argindex] = "-P" THEN argv[argindex + 1] ELSE filename
      PROVE  OptionsInv'
  <2>1. ASSUME NEW cut \in CutsOf(argv, argc)
        PROVE  /\ NamesFile(argv, Taken(cut, argindex'), filename')
               /\ (do_load' <=> Given(argv, Taken(cut, argindex'), "-load"))
               /\ (do_run' <=> Given(argv, Taken(cut, argindex'), "-run"))
    <3>. DEFINE taken == Taken(cut, argindex)
    <3>1. Busy /\ Boundary = argindex
      BY <1>2 DEF Busy, Boundary
    <3>2. /\ argindex \in cut
          /\ NamesFile(argv, taken, filename)
          /\ (do_load <=> Given(argv, taken, "-load"))
          /\ (do_run <=> Given(argv, taken, "-run"))
      BY <3>1 DEF ParseInv, OptionsInv
    <3>3. Taken(cut, argindex') = taken \cup {argindex}
      BY <1>0, <1>2, <3>2, TakenStep
    <3>4. \A a \in taken : a < argindex
      BY DEF Taken
    <3>. HIDE DEF taken
    <3>5. NamesFile(argv, taken \cup {argindex}, filename')
      BY <1>2, <3>2, <3>3, <3>4, NamesFileStep
    <3>6. \A w : Given(argv, taken \cup {argindex}, w) <=>
                   Given(argv, taken, w) \/ argv[argindex] = w
      BY DEF Given
    <3>7. do_load' <=> Given(argv, Taken(cut, argindex'), "-load")
      BY <1>2, <3>2, <3>3, <3>6
    <3>8. do_run' <=> Given(argv, Taken(cut, argindex'), "-run")
      BY <1>2, <3>2, <3>3, <3>6
    <3>. QED BY <3>3, <3>5, <3>7, <3>8
  <2>. QED BY <1>0, <1>2, <2>1 DEF OptionsInv
<1>3. ASSUME Busy, UNCHANGED <<argv, filename, do_load, do_run>>,
             Busy' \/ outcome' = "parsed",
             \A cut \in CutsOf(argv, argc) : Taken(cut, argindex') = Taken(cut, argindex)
      PROVE  OptionsInv'
  <2>1. ASSUME NEW cut \in CutsOf(argv, argc)
        PROVE  /\ NamesFile(argv, Taken(cut, argindex'), filename')
               /\ (do_load' <=> Given(argv, Taken(cut, argindex'), "-load"))
               /\ (do_run' <=> Given(argv, Taken(cut, argindex'), "-run"))
    BY <1>3 DEF OptionsInv
  <2>. QED BY <1>0, <1>3, <2>1 DEF OptionsInv
<1>4. HasOperand => argindex + 2 \in 1 .. argc /\ Operand = argv[argindex + 1]
  BY <1>0 DEF HasOperand, Operand
<1>5. CASE MissingOperand \/ UnreadableFile \/ NotAnAssignment \/ UnknownOption
  BY <1>1, <1>5 DEF MissingOperand, UnreadableFile, NotAnAssignment, UnknownOption
<1>6. CASE ThreadsOption \/ DbOption \/ PropertyOption
  <2>1. /\ outcome = "parsing" /\ argindex < argc /\ HasOperand
        /\ UNCHANGED <<argv, filename, do_load, do_run, outcome>>
        /\ argindex' = argindex + 2
        /\ \/ argv[argindex] \in {"-threads", "-db"}
           \/ argv[argindex] = "-p" /\ Operand \in DOMAIN Assignment
    BY <1>6 DEF ThreadsOption, DbOption, PropertyOption, AtOption
  <2>2. OptionAt(argv, argindex, argindex')
    BY <1>4, <2>1 DEF OptionAt
  <2>3. Busy' /\ argindex' \in Nat /\ argindex < argindex' /\ argindex' <= argindex'
    BY <1>0, <2>1 DEF Busy
  <2>. QED BY <1>2, <2>1, <2>2, <2>3
<1>7. CASE PropertyFileOption
  <2>1. /\ outcome = "parsing" /\ argindex < argc /\ HasOperand
        /\ UNCHANGED <<argv, do_load, do_run>> /\ outcome' = "loading"
        /\ argindex' = argindex + 1
        /\ argv[argindex] = "-P" /\ Operand \in DOMAIN File /\ filename' = Operand
    BY <1>7 DEF PropertyFileOption, AtOption
  <2>2. OptionAt(argv, argindex, argindex + 2)
    BY <1>4, <2>1 DEF OptionAt
  <2>3. /\ Busy' /\ argindex' \in Nat /\ argindex < argindex'
        /\ argindex + 2 \in Nat /\ argindex' <= argindex + 2
    BY <1>0, <2>1 DEF Busy
  <2>4. /\ do_load' <=> do_load \/ argv[argindex] = "-load"
        /\ do_run' <=> do_run \/ argv[argindex] = "-run"
        /\ filename' = IF argv[argindex] = "-P" THEN argv[argindex + 1] ELSE filename
    BY <1>4, <2>1
  <2>. QED BY <1>2, <2>1, <2>2, <2>3, <2>4
<1>8. CASE LoadLine
  <2>1. /\ outcome = "loading"
        /\ UNCHANGED <<argv, argindex, filename, do_load, do_run, outcome>>
    BY <1>8 DEF LoadLine
  <2>2. Busy /\ Busy'
    BY <2>1 DEF Busy
  <2>. QED BY <1>3, <2>1, <2>2
<1>9. CASE LoadReturns
  <2>1. /\ outcome = "loading" /\ outcome' = "parsing" /\ argindex' = argindex + 1
        /\ UNCHANGED <<argv, filename, do_load, do_run>>
    BY <1>9 DEF LoadReturns
  <2>2. Busy /\ Busy' /\ argindex < argc /\ argindex >= 2 /\ Boundary = argindex - 1
    BY <2>1 DEF Busy, Boundary, ParseInv, TypeOK
  <2>3. PICK b \in Nat : b = argindex - 1
    BY <1>0, <2>2
  <2>4. /\ b + 1 = argindex /\ argindex' = b + 2
        /\ argv[b] = "-P" /\ argv[b + 1] \in DOMAIN File
    <3>1. b + 1 = argindex /\ argindex + 1 = b + 2
      BY <1>0, <2>3
    <3>. QED BY <2>1, <2>3, <3>1 DEF ParseInv
  <2>5. OptionAt(argv, b, argindex')
    BY <2>4 DEF OptionAt
  <2>6. ASSUME NEW cut \in CutsOf(argv, argc)
        PROVE  Taken(cut, argindex') = Taken(cut, argindex)
    <3>1. b \in cut
      BY <2>2, <2>3 DEF ParseInv
    <3>2. /\ argindex \in Nat /\ argindex' \in Nat /\ b < argc /\ argc \in Nat
          /\ b < argindex /\ argindex <= argindex'
          /\ b < argindex' /\ argindex' <= argindex'
      BY <1>0, <2>1, <2>2, <2>3
    <3>3. Taken(cut, argindex) = Taken(cut, b) \cup {b}
      BY <2>5, <3>1, <3>2, TakenStep
    <3>4. Taken(cut, argindex') = Taken(cut, b) \cup {b}
      BY <2>5, <3>1, <3>2, TakenStep
    <3>. QED BY <3>3, <3>4
  <2>. QED BY <1>3, <2>1, <2>2, <2>6
<1>10. CASE LoadOption \/ RunOption
  <2>1. /\ outcome = "parsing" /\ argindex < argc /\ argindex' = argindex + 1
        /\ UNCHANGED <<argv, filename, outcome>>
        /\ argv[argindex] \in {"-load", "-run"}
    BY <1>10 DEF LoadOption, RunOption, AtOption
  <2>2. /\ do_load' <=> do_load \/ argv[argindex] = "-load"
        /\ do_run' <=> do_run \/ argv[argindex] = "-run"
    BY <1>10 DEF LoadOption, RunOption, AtOption
  <2>3. OptionAt(argv, argindex, argindex')
    BY <2>1 DEF OptionAt
  <2>4. Busy' /\ argindex' \in Nat /\ argindex < argindex' /\ argindex' <= argindex'
    BY <1>0, <2>1 DEF Busy
  <2>5. filename' = IF argv[argindex] = "-P" THEN argv[argindex + 1] ELSE filename
    BY <2>1
  <2>. QED BY <1>2, <2>1, <2>2, <2>3, <2>4, <2>5
<1>11. CASE EndOfOptions
  <2>1. /\ outcome = "parsing" /\ outcome' \in {"usage", "parsed"}
        /\ UNCHANGED <<argv, argindex, filename, do_load, do_run>>
    BY <1>11 DEF EndOfOptions
  <2>2. Busy
    BY <2>1 DEF Busy
  <2>. QED BY <1>1, <1>3, <2>1, <2>2
<1>12. CASE CreateDB
  <2>1. /\ outcome = "parsed" /\ UNCHANGED <<argv, argindex, filename>>
        /\ outcome' \in {"no_dbname", "unknown_dbname", "no_dbpath", "created"}
        /\ do_load' <=> do_load \/ ~ do_run
        /\ do_run' <=> do_run \/ ~ do_load
    BY <1>12 DEF CreateDB
  <2>2. outcome \in Accepted /\ outcome' # "parsed" /\ ~ Busy'
    BY <2>1 DEF Accepted, Busy
  <2>3. ASSUME NEW cut \in CutsOf(argv, argc)
        PROVE  LET taken == Taken(cut, argindex)
                   load  == Given(argv, taken, "-load")
                   run   == Given(argv, taken, "-run")
               IN  /\ NamesFile(argv, taken, filename)
                   /\ (do_load' <=> load \/ ~ run) /\ (do_run' <=> run \/ ~ load)
    <3>1. /\ NamesFile(argv, Taken(cut, argindex), filename)
          /\ (do_load <=> Given(argv, Taken(cut, argindex), "-load"))
          /\ (do_run <=> Given(argv, Taken(cut, argindex), "-run"))
      BY <2>1, <2>2 DEF OptionsInv
    <3>. QED BY <2>1, <3>1
  <2>. QED BY <1>0, <2>1, <2>2, <2>3 DEF OptionsInv
<1>13. CASE InitWorkload
  <2>1. /\ outcome = "created" /\ UNCHANGED <<argv, argindex, filename, do_load, do_run>>
        /\ outcome' \in {"no_workload", "no_threadcount", "launching"}
    BY <1>13, LaunchingOrNot
  <2>2. /\ outcome \in Accepted /\ outcome' # "parsed" /\ ~ Busy'
        /\ outcome # "parsed" /\ ~ Busy
    BY <2>1 DEF Accepted, Busy
  <2>. QED BY <1>0, <2>1, <2>2 DEF OptionsInv
<1>14. CASE UNCHANGED vars
  <2>1. UNCHANGED <<argv, argindex, filename, do_load, do_run, outcome>>
    BY <1>14 DEF vars
  <2>2. Busy' = Busy
    BY <2>1 DEF Busy
  <2>. QED BY <1>0, <2>1, <2>2 DEF OptionsInv
<1>. QED
  BY <1>5, <1>6, <1>7, <1>8, <1>9, <1>10, <1>11, <1>12, <1>13, <1>14
  DEF Next, Parse, Ended

THEOREM OptionsInvariance == Spec => []OptionsInv
BY OptionsInvInit, OptionsInvNext, CommandLineTypeCorrect, ParseInvariance, PTL DEF Spec

(* The options of the script's command line, in any cut of it.             *)
LEMMA ScriptOptions ==
  ASSUME argc \in Nat, argc >= 8, NEW cut \in CutsOf(argv, argc),
         argv[1] = "-db", argv[3] = "-threads", argv[5] = "-run", argv[6] = "-P"
  PROVE  /\ {1, 3, 5, 6} \subseteq cut
         /\ \A a \in cut : a \in 8 .. argc \/ a = 1 \/ a = 3 \/ a = 5 \/ a = 6
<1>1. cut \subseteq 1 .. argc /\ 1 \in cut
  BY DEF CutsOf
<1>2. ASSUME NEW b \in cut, NEW c, b < argc, OptionAt(argv, b, c)
      PROVE  c \in cut /\ \A d \in cut : ~ (b < d /\ d < c)
  BY <1>2, CutStep DEF Follows
<1>3. 3 \in cut /\ \A d \in cut : ~ (1 < d /\ d < 3)
  <2>1. OptionAt(argv, 1, 3)
    BY DEF OptionAt
  <2>. QED BY <1>1, <1>2, <2>1
<1>4. 5 \in cut /\ \A d \in cut : ~ (3 < d /\ d < 5)
  <2>1. OptionAt(argv, 3, 5)
    BY DEF OptionAt
  <2>. QED BY <1>2, <1>3, <2>1
<1>5. 6 \in cut
  <2>1. OptionAt(argv, 5, 6)
    BY DEF OptionAt
  <2>. QED BY <1>2, <1>4, <2>1
<1>6. 8 \in cut /\ \A d \in cut : ~ (6 < d /\ d < 8)
  <2>1. PICK c \in cut : OptionAt(argv, 6, c)
    BY <1>5, CutStep
  <2>2. c = 8
    BY <2>1 DEF OptionAt
  <2>. QED BY <1>2, <1>5, <2>1, <2>2
<1>7. ASSUME NEW a \in cut
      PROVE  a \in 8 .. argc \/ a = 1 \/ a = 3 \/ a = 5 \/ a = 6
  <2>1. a \in Nat /\ 1 <= a /\ a <= argc
    BY <1>1
  <2>2. /\ ~ (1 < a /\ a < 3) /\ ~ (3 < a /\ a < 5)
        /\ ~ (6 < a /\ a < 8)
    BY <1>3, <1>4, <1>6
  <2>. QED BY <2>1, <2>2
<1>. QED BY <1>1, <1>3, <1>4, <1>5, <1>7

(* Among the settings that a command line makes of a key one prevails.     *)
LEMMA OnePrevails ==
  ASSUME argc \in Nat, NEW cut \in CutsOf(argv, argc),
         NEW p \in SettingPlaces(cut)
  PROVE  \E q \in SettingPlaces(cut) :
           SettingOf(q).key = SettingOf(p).key /\ Prevails(q, SettingPlaces(cut))
<1>. DEFINE same == {q \in SettingPlaces(cut) : SettingOf(q).key = SettingOf(p).key}
            options == {q[1] : q \in same}
<1>1. \A q \in SettingPlaces(cut) :
        q[1] \in cut /\ q[1] \in 1 .. argc /\ q[2] \in Nat /\ q = <<q[1], q[2]>>
        /\ q[2] \in DOMAIN SettingsOf(argv, q[1]) /\ q[1] < argc
  <2>1. cut \subseteq 1 .. argc
    BY DEF CutsOf
  <2>2. \A n \in Nat \ {0} : ~ (n <= 0)
    OBVIOUS
  <2>3. ASSUME NEW q \in Past(argv, cut, argc, 0)
        PROVE  q[1] \in cut /\ q[1] \in 1 .. argc /\ q[2] \in Nat /\ q = <<q[1], q[2]>>
               /\ q[2] \in DOMAIN SettingsOf(argv, q[1]) /\ q[1] < argc
    <3>1. /\ q \in cut \X (Nat \ {0}) /\ q[2] \in DOMAIN SettingsOf(argv, q[1])
          /\ q[1] < argc \/ (q[1] = argc /\ q[2] <= 0)
      BY DEF Past
    <3>2. q[1] \in cut /\ q[2] \in Nat \ {0} /\ q = <<q[1], q[2]>>
      BY <3>1
    <3>. QED BY <2>1, <2>2, <3>1, <3>2
  <2>. QED BY <2>3, PlacesArePast
<1>2. p \in same
  OBVIOUS
<1>3. PICK a \in options : \A b \in options : b <= a
  <2>1. options \in SUBSET Nat /\ options # {} /\ \A b \in options : b <= argc
    BY <1>1, <1>2
  <2>. HIDE DEF options
  <2>. QED BY <2>1, GreatestNatural
<1>. DEFINE lines == {q[2] : q \in {r \in same : r[1] = a}}
<1>4. a \in cut /\ a < argc /\ lines # {}
  BY <1>1
<1>5. PICK m \in Nat : DOMAIN SettingsOf(argv, a) \subseteq 0 .. m
  <2>1. PICK c : OptionAt(argv, a, c)
    BY <1>4, CutStep
  <2>2. CASE argv[a] \in {"-load", "-run"}
    <3>1. DOMAIN SettingsOf(argv, a) \subseteq 0 .. 1
      BY <2>2, SettingsOfOptions
    <3>. QED BY <3>1
  <2>3. CASE argv[a] \in {"-threads", "-db", "-p"}
    <3>1. DOMAIN SettingsOf(argv, a) \subseteq 0 .. 1
      BY <2>3, SettingsOfOptions
    <3>. QED BY <3>1
  <2>4. CASE argv[a] = "-P" /\ argv[a + 1] \in DOMAIN File
    <3>1. File[argv[a + 1]] \in Seq(Seq(Setting))
      BY <2>4, CommandLineAssumption
    <3>2. SettingsOf(argv, a) = File[argv[a + 1]]
      BY <2>4, SettingsOfOptions
    <3>3. PICK n \in Nat : DOMAIN SettingsOf(argv, a) = 1 .. n
      BY <3>1, <3>2
    <3>4. DOMAIN SettingsOf(argv, a) \subseteq 0 .. n
      BY <3>3
    <3>. QED BY <3>4
  <2>. QED BY <2>1, <2>2, <2>3, <2>4 DEF OptionAt
<1>6. PICK l \in lines : \A b \in lines : b <= l
  <2>1. lines \in SUBSET Nat /\ \A b \in lines : b <= m
    BY <1>1, <1>5
  <2>. HIDE DEF lines
  <2>. QED BY <1>4, <2>1, GreatestNatural
<1>7. PICK q \in same : q[1] = a /\ q[2] = l
  OBVIOUS
<1>8. ASSUME NEW r \in SettingPlaces(cut), SettingOf(r).key = SettingOf(q).key,
             Later(r, q)
      PROVE  FALSE
  <2>1. r \in same
    BY <1>8
  <2>2. r[1] \in Nat /\ r[2] \in Nat /\ q[1] \in Nat /\ q[2] \in Nat
    BY <1>1
  <2>3. r[1] <= q[1]
    BY <1>3, <1>7, <2>1
  <2>4. r[1] = q[1] => r[2] <= q[2]
    BY <1>6, <1>7, <2>1
  <2>. QED BY <1>8, <2>2, <2>3, <2>4 DEF Later
<1>. QED BY <1>8 DEF Prevails

(* The script's command carries out the run phase alone, and its line is   *)
(* the one that the script greps for precisely if the last words that set  *)
(* the database and the number of threads, in the command or in the file,  *)
(* are the script's name and a word for the number that the script's word  *)
(* is the writing of.                                                      *)
THEOREM ResultLineCorrect == Spec => []ResultLineIsNeedle
<1>1. TypeOK /\ ParseInv /\ SettingsInv /\ OptionsInv => ResultLineIsNeedle
  <2>. SUFFICES ASSUME TypeOK, ParseInv, SettingsInv, OptionsInv,
                       outcome = "launching", Len(argv) >= 7, NEW cut \in Cuts,
                       <<argv[1], argv[3], argv[5], argv[6]>> =
                         <<"-db", "-threads", "-run", "-P">>,
                       \A a \in cut : a \in 8 .. Len(argv) => argv[a] = "-p"
                PROVE  /\ do_run /\ ~ do_load
                       /\ ResultLine = <<argv[2], argv[7], argv[4]>> <=>
                            \A p \in SettingPlaces(cut) :
                              Prevails(p, SettingPlaces(cut)) =>
                                /\ SettingOf(p).key = "dbname" =>
                                     SettingOf(p).value = argv[2]
                                /\ SettingOf(p).key = "threadcount" =>
                                     Decimal[Stoi[SettingOf(p).value]] = argv[4]
    BY DEF ResultLineIsNeedle
  <2>1. /\ cut \in CutsOf(argv, argc) /\ argc \in Nat /\ argc >= 8
        /\ argc = Len(argv) + 1 /\ Len(argv) \in Nat
    BY Lengths, CutsAre DEF TypeOK
  <2>2. /\ argv[1] = "-db" /\ argv[3] = "-threads" /\ argv[5] = "-run"
        /\ argv[6] = "-P"
    OBVIOUS
  <2>3. /\ {1, 3, 5, 6} \subseteq cut
        /\ \A a \in cut : a \in 8 .. argc \/ a = 1 \/ a = 3 \/ a = 5 \/ a = 6
    BY <2>1, <2>2, ScriptOptions
  <2>4. /\ outcome \in Accepted /\ ~ Busy /\ outcome # "parsed"
        /\ argindex = argc /\ Boundary = argc /\ LinesRead = 0
    BY DEF Accepted, Busy, Boundary, LinesRead, ParseInv
  <2>5. \A a \in cut : a < argc => \/ a \in 8 .. argc /\ argv[a] = "-p"
                                   \/ a = 1 \/ a = 3 \/ a = 5 \/ a = 6
    <3>1. \A a \in 8 .. argc : a < argc => a \in 8 .. Len(argv)
      BY <2>1
    <3>. QED BY <2>3, <3>1
  <2>6. do_run /\ ~ do_load /\ filename = argv[7]
    <3>. DEFINE taken == Taken(cut, argc)
    <3>1. /\ NamesFile(argv, taken, filename)
          /\ do_load <=> Given(argv, taken, "-load") \/ ~ Given(argv, taken, "-run")
          /\ do_run <=> Given(argv, taken, "-run") \/ ~ Given(argv, taken, "-load")
      BY <2>1, <2>4 DEF OptionsInv
    <3>2. 5 \in taken /\ 6 \in taken
      BY <2>1, <2>3 DEF Taken
    <3>3. \A a \in taken : \/ a \in 8 .. argc /\ argv[a] = "-p"
                           \/ a = 1 \/ a = 3 \/ a = 5 \/ a = 6
      BY <2>5 DEF Taken
    <3>. HIDE DEF taken
    <3>4. Given(argv, taken, "-run") /\ ~ Given(argv, taken, "-load")
      BY <2>2, <3>2, <3>3 DEF Given
    <3>5. \A d \in taken : 6 < d => argv[d] # "-P"
      BY <2>2, <3>3
    <3>6. filename = argv[6 + 1]
      BY <2>2, <3>1, <3>2, <3>5 DEF NamesFile
    <3>. QED BY <3>1, <3>4, <3>6
  <2>. DEFINE places == SettingPlaces(cut)
  <2>7. /\ DOMAIN props = {SettingOf(p).key : p \in places}
        /\ \A p \in places :
             Prevails(p, places) => props[SettingOf(p).key] = SettingOf(p).value
    <3>1. Reflects(props, argv, places)
      BY <2>1, <2>4, PlacesArePast DEF SettingsInv
    <3>2. \A p : SettingOf(p) = Made(argv, p)
      BY DEF SettingOf, Made, SettingsAt, SettingsOf
    <3>. QED BY <3>1, <3>2 DEF Reflects, Prevails
  (* The two options set the two properties. *)
  <2>8. /\ <<1, 1>> \in places /\ SettingOf(<<1, 1>>).key = "dbname"
        /\ <<3, 1>> \in places /\ SettingOf(<<3, 1>>).key = "threadcount"
    <3>1. /\ SettingsAt(1) = << <<[key |-> "dbname", value |-> argv[1 + 1]]>> >>
          /\ SettingsAt(3) = << <<[key |-> "threadcount", value |-> argv[3 + 1]]>> >>
      BY <2>2 DEF SettingsAt
    <3>2. 1 \in cut \ {argc} /\ 3 \in cut \ {argc}
      BY <2>1, <2>3
    <3>3. 1 \in DOMAIN SettingsAt(1) /\ 1 \in DOMAIN SettingsAt(3)
      BY <3>1
    <3>4. SettingsAt(1)[1] # << >> /\ SettingsAt(3)[1] # << >>
      BY <3>1
    <3>5. /\ <<1, 1>> \in {1} \X DOMAIN SettingsAt(1)
          /\ <<3, 1>> \in {3} \X DOMAIN SettingsAt(3)
      BY <3>3
    <3>. QED BY <3>1, <3>2, <3>4, <3>5 DEF SettingPlaces, SettingOf
  <2>9. PICK d \in places : SettingOf(d).key = "dbname" /\ Prevails(d, places)
    BY <2>1, <2>8, OnePrevails
  <2>10. PICK t \in places : SettingOf(t).key = "threadcount" /\ Prevails(t, places)
    BY <2>1, <2>8, OnePrevails
  <2>. HIDE DEF places
  <2>11. /\ "dbname" \in DOMAIN props /\ props["dbname"] = SettingOf(d).value
         /\ "threadcount" \in DOMAIN props /\ props["threadcount"] = SettingOf(t).value
    BY <2>7, <2>9, <2>10
  <2>12. ResultLine =
           <<SettingOf(d).value, argv[7], Decimal[Stoi[SettingOf(t).value]]>>
    BY <2>6, <2>11 DEF ResultLine, ThreadCount, GetProperty
  <2>13. ResultLine = <<argv[2], argv[7], argv[4]>> <=>
           /\ SettingOf(d).value = argv[2]
           /\ Decimal[Stoi[SettingOf(t).value]] = argv[4]
    BY <2>12
  (* What prevails for a key is one value, the property's. *)
  <2>14. \A p \in places : Prevails(p, places) =>
           /\ SettingOf(p).key = "dbname" => SettingOf(p).value = SettingOf(d).value
           /\ SettingOf(p).key = "threadcount" => SettingOf(p).value = SettingOf(t).value
    BY <2>7, <2>11
  <2>15. ResultLine = <<argv[2], argv[7], argv[4]>> <=>
           \A p \in places :
             Prevails(p, places) =>
               /\ SettingOf(p).key = "dbname" => SettingOf(p).value = argv[2]
               /\ SettingOf(p).key = "threadcount" =>
                    Decimal[Stoi[SettingOf(p).value]] = argv[4]
    BY <2>9, <2>10, <2>13, <2>14
  <2>. QED BY <2>6, <2>15 DEF places
<1>. QED
  BY <1>1, CommandLineTypeCorrect, ParseInvariance, SettingsInvariance,
     OptionsInvariance, PTL

=============================================================================
