---------------------------- MODULE ResultLogProof ----------------------------
(***************************************************************************)
(* The campaign with its log as text implements Harness, and so has every  *)
(* property that HarnessProof establishes.  Besides, grep and the parser   *)
(* find in the text what the campaign has done: wherever the program was   *)
(* stopped in its reports, and whatever was written on there.              *)
(***************************************************************************)
EXTENDS ResultLog, HarnessProof, SequenceTheorems, WellFoundedInduction

(* A step of the script, of the program or of the end of both is one that  *)
(* Harness allows, or a write that Harness does not see.                   *)
LEMMA LogStepIsHarnessStep ==
  ASSUME [LogNext]_logVars
  PROVE  [Next]_vars
<1>1. CASE ScriptStep
  BY <1>1 DEF ScriptStep, Next, Script
<1>2. CASE StartLoad
  BY <1>2 DEF StartLoad, Next, Script
<1>3. CASE StartRun
  BY <1>3 DEF StartRun, Next, Script
<1>4. CASE Return
  BY <1>4 DEF Return, Next, Script
<1>5. CASE WriteNeedleEnd
  BY <1>5 DEF WriteNeedleEnd, Next, Script
<1>6. CASE WriteResultEnd
  BY <1>6 DEF WriteResultEnd, Next, Script
<1>7. CASE WriteOther
  BY <1>7 DEF WriteOther
<1>8. CASE LogStop
  BY <1>8 DEF LogStop, Next
<1>9. CASE UNCHANGED logVars
  BY <1>9 DEF logVars
<1> QED
  BY <1>1, <1>2, <1>3, <1>4, <1>5, <1>6, <1>7, <1>8, <1>9 DEF LogNext, LogScript

(* With the log as text that may break off anywhere, a campaign still is   *)
(* one of Harness.                                                         *)
THEOREM LogImplementsHarness == LogSpec => Spec
<1>1. LogInit => Init
  BY DEF LogInit
<1>2. [LogNext]_logVars => [Next]_vars
  BY LogStepIsHarnessStep
<1> QED
  BY <1>1, <1>2, PTL DEF LogSpec, Spec

(* So what it finds in the log, the databases and its place in the loops   *)
(* still fit each other wherever it is stopped.                            *)
THEOREM LogInvariance == LogSpec => []HInv
  BY LogImplementsHarness, HarnessInvariance, PTL

-----------------------------------------------------------------------------
(* What the program writes, spelled out. *)

Token ==
  {Hash, Tab, Space, Throughput, <<"newline", 0>>, Number(0)}
    \cup {Word("Loading"), Word("records:"), Word("Transaction"),
          Word("throughput"), Word("(KTPS)")}
    \cup {Name(x) : x \in Db \cup File}
    \cup {Number(x) : x \in Nat}

LEMMA Tokens ==
  ASSUME NEW t \in Target, NEW n \in Nat
  PROVE  /\ Name(t[1]) \in Token /\ Name(t[2]) \in Token /\ Number(n) \in Token
         /\ Tab \in Token /\ Throughput \in Token
<1>1. t[1] \in Db \cup File /\ t[2] \in Db \cup File
  BY TargetAssumption
<1>2. /\ Name(t[1]) \in {Name(x) : x \in Db \cup File}
      /\ Name(t[2]) \in {Name(x) : x \in Db \cup File}
      /\ Number(n) \in {Number(x) : x \in Nat}
  BY <1>1
<1>. QED
  BY <1>2 DEF Token

LEMMA FixedTokens ==
  /\ Hash \in Token /\ Space \in Token /\ Tab \in Token /\ Number(0) \in Token
  /\ <<"newline", 0>> \in Token
  /\ Word("Loading") \in Token /\ Word("records:") \in Token
  /\ Word("Transaction") \in Token /\ Word("throughput") \in Token
  /\ Word("(KTPS)") \in Token
BY Zenon DEF Token

(* No two kinds of tokens are taken for each other.                        *)
LEMMA TokensDiffer ==
  ASSUME NEW x, NEW y
  PROVE  /\ Tab # Name(x) /\ Tab # Number(x) /\ Tab # Throughput
         /\ Tab # Hash /\ Tab # Space /\ Tab # Word(x) /\ Tab # <<"newline", 0>>
         /\ Word(x) # Number(y)
         /\ Throughput # Name(x) /\ Throughput # Number(x)
         /\ Throughput # <<"newline", 0>> /\ Throughput # Tab
         /\ Name(x) = Name(y) => x = y
         /\ Number(x) = Number(y) => x = y
BY DEF Tab, Name, Number, Throughput, Hash, Space, Word

LEMMA HeadingTokens ==
  /\ Heading \in Seq(Token) /\ Len(Heading) = 7
  /\ \A j \in 1 .. 7 : Heading[j] # Tab
<1>1. /\ Word("Transaction") \in Token /\ Word("throughput") \in Token
      /\ Word("(KTPS)") \in Token /\ Hash \in Token /\ Space \in Token
  BY FixedTokens
<1>2. /\ Word("Transaction") # Tab /\ Word("throughput") # Tab
      /\ Word("(KTPS)") # Tab /\ Hash # Tab /\ Space # Tab
  BY TokensDiffer
<1>3. /\ Len(Heading) = 7
      /\ Heading[1] = Hash /\ Heading[2] = Space /\ Heading[3] = Word("Transaction")
      /\ Heading[4] = Space /\ Heading[5] = Word("throughput")
      /\ Heading[6] = Space /\ Heading[7] = Word("(KTPS)")
  BY DEF Heading
<1>4. Heading \in Seq(Token)
  BY <1>1 DEF Heading
<1>. QED BY <1>2, <1>3, <1>4

(* The pieces of a run's report.                                           *)
LEMMA RunReportPieces ==
  ASSUME NEW t \in Target, NEW n \in Nat
  PROVE  /\ RunReport(t, n) \in Seq(Seq(Token))
         /\ Len(RunReport(t, n)) = 10
         /\ RunReport(t, n)[1] = Heading
         /\ RunReport(t, n)[2] = Newline
         /\ RunReport(t, n)[3] = <<Name(t[1])>>
         /\ RunReport(t, n)[4] = <<Tab>>
         /\ RunReport(t, n)[5] = <<Name(t[2])>>
         /\ RunReport(t, n)[6] = <<Tab>>
         /\ RunReport(t, n)[7] = <<Number(n)>>
         /\ RunReport(t, n)[8] = <<Tab>>
         /\ RunReport(t, n)[9] = <<Throughput>>
         /\ RunReport(t, n)[10] = Newline
<1>. DEFINE S == Seq(Token)
            x == <<Heading, Newline>>
            y == LineUpToThreads(t, n)
            z == << <<Tab>>, <<Throughput>>, Newline >>
<1>1. /\ Heading \in S /\ Newline \in S /\ <<Name(t[1])>> \in S /\ <<Tab>> \in S
      /\ <<Name(t[2])>> \in S /\ <<Number(n)>> \in S /\ <<Throughput>> \in S
  BY HeadingTokens, FixedTokens, Tokens DEF Newline
<1>. HIDE DEF S
<1>2. x \in Seq(S) /\ y \in Seq(S) /\ z \in Seq(S)
  BY <1>1 DEF LineUpToThreads
<1>3. Len(x) = 2 /\ x[1] = Heading /\ x[2] = Newline
  OBVIOUS
<1>4. /\ Len(y) = 5 /\ y[1] = <<Name(t[1])>> /\ y[2] = <<Tab>>
      /\ y[3] = <<Name(t[2])>> /\ y[4] = <<Tab>> /\ y[5] = <<Number(n)>>
  BY DEF LineUpToThreads
<1>5. Len(z) = 3 /\ z[1] = <<Tab>> /\ z[2] = <<Throughput>> /\ z[3] = Newline
  OBVIOUS
<1>. HIDE DEF x, y, z
<1>. DEFINE xy == x \o y
<1>6. xy \in Seq(S)
  BY <1>2
<1>7. /\ Len(xy) = Len(x) + Len(y)
      /\ \A i \in 1 .. Len(x) : xy[i] = x[i]
      /\ \A i \in 1 .. Len(y) : xy[Len(x) + i] = y[i]
  BY <1>2
<1>. HIDE DEF xy
<1>. DEFINE r == xy \o z
<1>8. r \in Seq(S)
  BY <1>2, <1>6
<1>9. /\ Len(r) = Len(xy) + Len(z)
      /\ \A i \in 1 .. Len(xy) : r[i] = xy[i]
      /\ \A i \in 1 .. Len(z) : r[Len(xy) + i] = z[i]
  BY <1>2, <1>6
<1>. HIDE DEF r
<1>10. /\ Len(xy) = 7 /\ xy[1] = x[1] /\ xy[2] = x[2]
       /\ xy[3] = y[1] /\ xy[4] = y[2] /\ xy[5] = y[3] /\ xy[6] = y[4] /\ xy[7] = y[5]
  BY <1>3, <1>4, <1>7
<1>11. /\ Len(r) = 10 /\ r[1] = xy[1] /\ r[2] = xy[2] /\ r[3] = xy[3] /\ r[4] = xy[4]
       /\ r[5] = xy[5] /\ r[6] = xy[6] /\ r[7] = xy[7]
       /\ r[8] = z[1] /\ r[9] = z[2] /\ r[10] = z[3]
  BY <1>5, <1>9, <1>10
<1>12. r = RunReport(t, n)
  BY DEF r, xy, x, y, z, RunReport
<1>. QED BY <1>3, <1>4, <1>5, <1>8, <1>10, <1>11, <1>12 DEF S

LEMMA LoadReportPieces ==
  /\ LoadReport \in Seq(Seq(Token)) /\ Len(LoadReport) = 3
  /\ LoadReport[1] = <<Hash, Space, Word("Loading"), Space, Word("records:"), Tab>>
  /\ LoadReport[2] = <<Number(0)>>
  /\ LoadReport[3] = Newline
<1>1. /\ Word("Loading") \in Token /\ Word("records:") \in Token
      /\ Hash \in Token /\ Space \in Token /\ Tab \in Token
      /\ Number(0) \in Token /\ <<"newline", 0>> \in Token
  BY FixedTokens
<1>2. /\ <<Hash, Space, Word("Loading"), Space, Word("records:"), Tab>> \in Seq(Token)
      /\ <<Number(0)>> \in Seq(Token) /\ Newline \in Seq(Token)
  BY <1>1 DEF Newline
<1>. QED BY <1>2 DEF LoadReport

-----------------------------------------------------------------------------
(* Where grep finds a needle. *)

(* The needle begins behind the k-th token of a line.                      *)
Marks(line, k, t, n) ==
  /\ k + 6 <= Len(line)
  /\ line[k + 1] = Name(t[1]) /\ line[k + 2] = Tab
  /\ line[k + 3] = Name(t[2]) /\ line[k + 4] = Tab
  /\ line[k + 5] = Number(n)  /\ line[k + 6] = Tab

LEMMA NeedleAt ==
  ASSUME NEW line \in Seq(Token), NEW k \in Nat, k + 6 <= Len(line),
         NEW t \in Target, NEW n \in Nat
  PROVE  SubSeq(line, k + 1, k + 6) = Needle(t, n) <=> Marks(line, k, t, n)
<1>. DEFINE sub == SubSeq(line, k + 1, k + 6)
            needle == Needle(t, n)
<1>1. needle \in Seq(Token)
  BY Tokens DEF Needle
<1>2. /\ Len(needle) = 6
      /\ needle[1] = Name(t[1]) /\ needle[2] = Tab /\ needle[3] = Name(t[2])
      /\ needle[4] = Tab /\ needle[5] = Number(n) /\ needle[6] = Tab
  BY DEF Needle
<1>3. sub \in Seq(Token) /\ Len(sub) = 6 /\ \A j \in 1 .. 6 : sub[j] = line[k + j]
  <2>1. k + 1 \in 1 .. Len(line) /\ k + 6 \in 1 .. Len(line)
    OBVIOUS
  <2>2. /\ sub \in Seq(Token) /\ Len(sub) = k + 6 - (k + 1) + 1
        /\ \A j \in 1 .. (k + 6 - (k + 1) + 1) : sub[j] = line[k + 1 + j - 1]
    BY <2>1, SubSeqProperties
  <2>3. k + 6 - (k + 1) + 1 = 6
    OBVIOUS
  <2>4. \A j \in 1 .. 6 : k + 1 + j - 1 = k + j
    OBVIOUS
  <2>. HIDE DEF sub
  <2>. QED BY <2>2, <2>3, <2>4
<1>. HIDE DEF sub, needle
<1>4. sub = needle <=> \A j \in 1 .. 6 : sub[j] = needle[j]
  BY <1>1, <1>2, <1>3, SeqEqual
<1>5. (\A j \in 1 .. 6 : sub[j] = needle[j]) <=>
        /\ sub[1] = needle[1] /\ sub[2] = needle[2] /\ sub[3] = needle[3]
        /\ sub[4] = needle[4] /\ sub[5] = needle[5] /\ sub[6] = needle[6]
  OBVIOUS
<1>6. /\ sub[1] = line[k + 1] /\ sub[2] = line[k + 2] /\ sub[3] = line[k + 3]
      /\ sub[4] = line[k + 4] /\ sub[5] = line[k + 5] /\ sub[6] = line[k + 6]
  BY <1>3
<1>. QED BY <1>2, <1>4, <1>5, <1>6 DEF Marks, sub, needle

LEMMA GrepMarks ==
  ASSUME text \in Seq(Seq(Token)), NEW t \in Target, NEW n \in Nat
  PROVE  Grep(t, n) <=> \E l \in 1 .. Len(text), k \in Nat : Marks(text[l], k, t, n)
<1>1. Len(Needle(t, n)) = 6
  BY DEF Needle
<1>2. \A l \in DOMAIN text : text[l] \in Seq(Token) /\ Len(text[l]) \in Nat
  OBVIOUS
<1>3. ASSUME NEW l \in DOMAIN text
      PROVE  (\E k \in 0 .. (Len(text[l]) - 6) :
                SubSeq(text[l], k + 1, k + 6) = Needle(t, n))
             <=> \E k \in Nat : Marks(text[l], k, t, n)
  <2>1. ASSUME NEW k \in 0 .. (Len(text[l]) - 6)
        PROVE  k \in Nat /\ k + 6 <= Len(text[l])
    BY <1>2
  <2>2. ASSUME NEW k \in Nat, Marks(text[l], k, t, n)
        PROVE  k \in 0 .. (Len(text[l]) - 6)
    BY <1>2, <2>2 DEF Marks
  <2>3. ASSUME NEW k \in Nat, k + 6 <= Len(text[l])
        PROVE  SubSeq(text[l], k + 1, k + 6) = Needle(t, n) <=> Marks(text[l], k, t, n)
    BY <1>2, <2>3, NeedleAt
  <2>4. \A k \in Nat : Marks(text[l], k, t, n) => k + 6 <= Len(text[l])
    BY DEF Marks
  <2>. QED BY <2>1, <2>2, <2>3, <2>4
<1>4. DOMAIN text = 1 .. Len(text)
  OBVIOUS
<1>. QED BY <1>1, <1>3, <1>4 DEF Grep

-----------------------------------------------------------------------------
(* What is left of a report.  The invariant: how much of its report the    *)
(* running program has still to write, and, from the end of the heading on,*)
(* what of the result line stands in the open line.                        *)

IsRest(rest, report) ==
  /\ Len(rest) <= Len(report)
  /\ \A i \in 1 .. Len(rest) :
       rest[i] = report[Len(report) - Len(rest) + i]

OpenLine == text[Len(text)]

(* Of the line that begins with the needle, all but the last k pieces.     *)
LineBegins(line, t, n, k) ==
  /\ Len(line) = 8 - k
  /\ 1 <= Len(line) => line[1] = Name(t[1])
  /\ 2 <= Len(line) => line[2] = Tab
  /\ 3 <= Len(line) => line[3] = Name(t[2])
  /\ 4 <= Len(line) => line[4] = Tab
  /\ 5 <= Len(line) => line[5] = Number(n)
  /\ 6 <= Len(line) => line[6] = Tab
  /\ 7 <= Len(line) => line[7] = Throughput

FileInv ==
  /\ text \in Seq(Seq(Token)) /\ text # << >>
  /\ pending \in Seq(Seq(Token))

LoadRest ==
  at = "load" => IsRest(pending, LoadReport)

RunRest ==
  at \in {"run", "line"} =>
    IF target \in Known
    THEN /\ IsRest(pending, RunReport(target, Threads[th]))
         /\ at = "run" => Len(pending) >= 3
         /\ at = "line" => Len(pending) \in {1, 2}
         /\ Len(pending) \in 1 .. 8 =>
              LineBegins(OpenLine, target, Threads[th], Len(pending))
    ELSE pending = << >>

IdleRest ==
  at \notin {"load", "run", "line"} => pending = << >>

Found(t, n) ==
  \E l \in 1 .. Len(text), k \in Nat : Marks(text[l], k, t, n)

FoundInv ==
  \A t \in Target, n \in Nat : Found(t, n) <=> HasResult(t, n)

TextInv == FileInv /\ LoadRest /\ RunRest /\ IdleRest /\ FoundInv

(* One piece less is left of a report when its next one is written.        *)
LEMMA RestStep ==
  ASSUME NEW S, NEW rest \in Seq(S), NEW report \in Seq(S),
         IsRest(rest, report), rest # << >>
  PROVE  /\ Head(rest) = report[Len(report) - Len(rest) + 1]
         /\ Tail(rest) \in Seq(S) /\ Len(Tail(rest)) = Len(rest) - 1
         /\ IsRest(Tail(rest), report)
<1>1. Len(rest) \in Nat \ {0} /\ Len(report) \in Nat
  OBVIOUS
<1>2. Head(rest) = rest[1] /\ 1 \in 1 .. Len(rest)
  BY <1>1
<1>3. Tail(rest) \in Seq(S) /\ Len(Tail(rest)) = Len(rest) - 1
  OBVIOUS
<1>4. ASSUME NEW i \in 1 .. Len(Tail(rest))
      PROVE  Tail(rest)[i] = report[Len(report) - Len(Tail(rest)) + i]
  <2>1. Tail(rest)[i] = rest[i + 1]
    BY <1>4
  <2>2. i + 1 \in 1 .. Len(rest)
    BY <1>1, <1>3
  <2>3. Len(report) - Len(Tail(rest)) + i = Len(report) - Len(rest) + (i + 1)
    BY <1>1, <1>3
  <2>. QED BY <2>1, <2>2, <2>3 DEF IsRest
<1>. QED BY <1>1, <1>2, <1>3, <1>4 DEF IsRest

LEMMA WholeRest ==
  ASSUME NEW S, NEW report \in Seq(S)
  PROVE  IsRest(report, report)
BY DEF IsRest

(* What a piece that is not a newline does to the open line.               *)
LEMMA AppendPiece ==
  ASSUME FileInv, NEW piece \in Seq(Token), piece # Newline,
         text' = Written(piece)
  PROVE  /\ text' \in Seq(Seq(Token)) /\ Len(text') = Len(text)
         /\ \A l \in 1 .. (Len(text) - 1) : text'[l] = text[l]
         /\ text'[Len(text)] = OpenLine \o piece
         /\ OpenLine \in Seq(Token)
<1>1. text \in Seq(Seq(Token)) /\ Len(text) \in Nat \ {0}
  BY DEF FileInv
<1>2. OpenLine \in Seq(Token)
  BY <1>1 DEF OpenLine
<1>3. OpenLine \o piece \in Seq(Token)
  BY <1>2
<1>4. text' = [text EXCEPT ![Len(text)] = OpenLine \o piece]
  BY DEF Written, OpenLine
<1>. HIDE DEF OpenLine
<1>. QED BY <1>1, <1>2, <1>3, <1>4

LEMMA AppendNewline ==
  ASSUME FileInv, text' = Written(Newline)
  PROVE  /\ text' \in Seq(Seq(Token)) /\ Len(text') = Len(text) + 1
         /\ \A l \in 1 .. Len(text) : text'[l] = text[l]
         /\ text'[Len(text) + 1] = << >>
<1>1. text \in Seq(Seq(Token)) /\ << >> \in Seq(Token)
  BY DEF FileInv
<1>2. text' = Append(text, << >>)
  BY DEF Written
<1>. QED BY <1>1, <1>2

(* A needle that a piece makes ends with a tab within that piece, and the  *)
(* number of threads stands before that.                                   *)
LEMMA MarksAppended ==
  ASSUME NEW line \in Seq(Token), NEW piece \in Seq(Token),
         NEW k \in Nat, NEW t \in Target, NEW n \in Nat
  PROVE  /\ Marks(line, k, t, n) => Marks(line \o piece, k, t, n)
         /\ Marks(line \o piece, k, t, n) =>
              \/ Marks(line, k, t, n)
              \/ \E j \in 1 .. Len(piece) :
                   /\ j = k + 6 - Len(line)
                   /\ piece[j] = Tab
                   /\ j > 1 => piece[j - 1] = Number(n)
<1>. DEFINE both == line \o piece
<1>1. /\ both \in Seq(Token) /\ Len(both) = Len(line) + Len(piece)
      /\ \A i \in 1 .. Len(line) : both[i] = line[i]
      /\ \A i \in 1 .. Len(piece) : both[Len(line) + i] = piece[i]
  OBVIOUS
<1>2. Len(line) \in Nat /\ Len(piece) \in Nat
  OBVIOUS
<1>. HIDE DEF both
<1>3. ASSUME k + 6 <= Len(line)
      PROVE  Marks(line, k, t, n) <=> Marks(both, k, t, n)
  <2>1. /\ both[k + 1] = line[k + 1] /\ both[k + 2] = line[k + 2]
        /\ both[k + 3] = line[k + 3] /\ both[k + 4] = line[k + 4]
        /\ both[k + 5] = line[k + 5] /\ both[k + 6] = line[k + 6]
    <3>1. /\ k + 1 \in 1 .. Len(line) /\ k + 2 \in 1 .. Len(line)
          /\ k + 3 \in 1 .. Len(line) /\ k + 4 \in 1 .. Len(line)
          /\ k + 5 \in 1 .. Len(line) /\ k + 6 \in 1 .. Len(line)
      BY <1>2, <1>3
    <3>. QED BY <1>1, <3>1
  <2>2. k + 6 <= Len(both)
    BY <1>1, <1>2, <1>3
  <2>. QED BY <1>3, <2>1, <2>2 DEF Marks
<1>4. ASSUME k + 6 > Len(line), Marks(both, k, t, n)
      PROVE  \E j \in 1 .. Len(piece) :
               /\ j = k + 6 - Len(line)
               /\ piece[j] = Tab
               /\ j > 1 => piece[j - 1] = Number(n)
  <2>. DEFINE j == k + 6 - Len(line)
  <2>1. j \in 1 .. Len(piece)
    BY <1>1, <1>2, <1>4 DEF Marks
  <2>2. Len(line) + j = k + 6 /\ Len(line) + (j - 1) = k + 5
    BY <1>2
  <2>3. j > 1 => j - 1 \in 1 .. Len(piece)
    BY <1>2, <2>1
  <2>. HIDE DEF j
  <2>4. piece[j] = both[k + 6]
    BY <1>1, <2>1, <2>2
  <2>5. j > 1 => piece[j - 1] = both[k + 5]
    BY <1>1, <2>2, <2>3
  <2>6. both[k + 6] = Tab /\ both[k + 5] = Number(n)
    BY <1>4 DEF Marks
  <2>. QED BY <2>1, <2>4, <2>5, <2>6 DEF j
<1>5. Marks(line, k, t, n) => k + 6 <= Len(line)
  BY DEF Marks
<1>6. k + 6 <= Len(line) \/ k + 6 > Len(line)
  BY <1>2
<1>. QED BY <1>3, <1>4, <1>5, <1>6 DEF both

(* A piece whose tabs, if any, come behind something that is not a number  *)
(* completes no needle.                                                    *)
Inert(piece) ==
  \A j \in 1 .. Len(piece) :
    piece[j] = Tab => j > 1 /\ \A n \in Nat : piece[j - 1] # Number(n)

LEMMA InertPieces ==
  /\ Inert(Heading) /\ Inert(LoadReport[1])
  /\ \A x : Inert(<<Name(x)>>) /\ Inert(<<Number(x)>>) /\ Inert(<<Throughput>>)
<1>1. Inert(Heading)
  BY HeadingTokens DEF Inert
<1>2. Inert(LoadReport[1])
  <2>. DEFINE p == LoadReport[1]
  <2>1. /\ Len(p) = 6 /\ p[1] = Hash /\ p[2] = Space /\ p[3] = Word("Loading")
        /\ p[4] = Space /\ p[5] = Word("records:") /\ p[6] = Tab
    BY LoadReportPieces
  <2>. HIDE DEF p
  <2>2. Tab # Hash /\ Tab # Space /\ Tab # Word("Loading") /\ Tab # Word("records:")
    BY TokensDiffer
  <2>3. \A n \in Nat : p[5] # Number(n)
    BY <2>1, TokensDiffer
  <2>4. ASSUME NEW j \in 1 .. 6, p[j] = Tab PROVE j = 6
    BY <2>1, <2>2, <2>4
  <2>. QED BY <2>1, <2>3, <2>4 DEF Inert, p
<1>3. \A x : Inert(<<Name(x)>>) /\ Inert(<<Number(x)>>) /\ Inert(<<Throughput>>)
  BY TokensDiffer DEF Inert
<1>. QED BY <1>1, <1>2, <1>3

LEMMA FoundNewline ==
  ASSUME FileInv, text' = Written(Newline), NEW t \in Target, NEW n \in Nat
  PROVE  Found(t, n)' <=> Found(t, n)
<1>1. /\ Len(text) \in Nat /\ Len(text') = Len(text) + 1
      /\ \A l \in 1 .. Len(text) : text'[l] = text[l]
      /\ text'[Len(text) + 1] = << >>
  BY AppendNewline DEF FileInv
<1>2. \A k \in Nat : ~ Marks(<< >>, k, t, n)
  BY DEF Marks
<1>3. \A l \in 1 .. Len(text') : l \in 1 .. Len(text) \/ l = Len(text) + 1
  BY <1>1
<1>4. \A l \in 1 .. Len(text) : l \in 1 .. Len(text')
  BY <1>1
<1>. QED BY <1>1, <1>2, <1>3, <1>4 DEF Found

LEMMA FoundPiece ==
  ASSUME FileInv, NEW piece \in Seq(Token), piece # Newline,
         text' = Written(piece), NEW t \in Target, NEW n \in Nat
  PROVE  Found(t, n)' <=>
           Found(t, n) \/ \E k \in Nat : Marks(OpenLine \o piece, k, t, n)
<1>1. /\ Len(text) \in Nat \ {0} /\ Len(text') = Len(text)
      /\ \A l \in 1 .. (Len(text) - 1) : text'[l] = text[l]
      /\ text'[Len(text)] = OpenLine \o piece
      /\ OpenLine \in Seq(Token)
  BY AppendPiece DEF FileInv
<1>2. \A l \in 1 .. Len(text) : l \in 1 .. (Len(text) - 1) \/ l = Len(text)
  BY <1>1
<1>3. /\ Len(text) \in 1 .. Len(text)
      /\ \A l \in 1 .. (Len(text) - 1) : l \in 1 .. Len(text)
  BY <1>1
<1>4. \A k \in Nat : Marks(OpenLine, k, t, n) => Marks(OpenLine \o piece, k, t, n)
  BY <1>1, MarksAppended
<1>5. Found(t, n)' <=> \E l \in 1 .. Len(text), k \in Nat : Marks(text'[l], k, t, n)
  BY <1>1 DEF Found
<1>6. Found(t, n) <=>
        \/ \E l \in 1 .. (Len(text) - 1), k \in Nat : Marks(text[l], k, t, n)
        \/ \E k \in Nat : Marks(OpenLine, k, t, n)
  BY <1>2, <1>3 DEF Found, OpenLine
<1>7. Found(t, n)' <=>
        \/ \E l \in 1 .. (Len(text) - 1), k \in Nat : Marks(text[l], k, t, n)
        \/ \E k \in Nat : Marks(OpenLine \o piece, k, t, n)
  BY <1>1, <1>2, <1>3, <1>5
<1>. QED BY <1>4, <1>6, <1>7

LEMMA FoundInert ==
  ASSUME FileInv, NEW piece \in Seq(Token), piece # Newline, Inert(piece),
         text' = Written(piece), NEW t \in Target, NEW n \in Nat
  PROVE  Found(t, n)' <=> Found(t, n)
<1>1. /\ OpenLine \in Seq(Token)
      /\ Found(t, n)' <=>
           Found(t, n) \/ \E k \in Nat : Marks(OpenLine \o piece, k, t, n)
  BY FoundPiece, AppendPiece
<1>2. ASSUME NEW k \in Nat, Marks(OpenLine \o piece, k, t, n)
      PROVE  Marks(OpenLine, k, t, n)
  <2>1. ~ \E j \in 1 .. Len(piece) :
            piece[j] = Tab /\ (j > 1 => piece[j - 1] = Number(n))
    BY DEF Inert
  <2>. QED BY <1>1, <1>2, <2>1, MarksAppended
<1>3. \A k \in Nat : Marks(OpenLine, k, t, n) => Found(t, n)
  <2>1. Len(text) \in 1 .. Len(text)
    BY DEF FileInv
  <2>. QED BY <2>1 DEF Found, OpenLine
<1>. QED BY <1>1, <1>2, <1>3

(* A tab makes a needle of a line only behind five tokens at least.        *)
LEMMA FoundTabEarly ==
  ASSUME FileInv, Len(OpenLine) < 5, text' = Written(<<Tab>>),
         NEW t \in Target, NEW n \in Nat
  PROVE  Found(t, n)' <=> Found(t, n)
<1>1. <<Tab>> \in Seq(Token) /\ <<Tab>> # Newline
  BY FixedTokens, TokensDiffer DEF Newline
<1>2. /\ OpenLine \in Seq(Token)
      /\ Found(t, n)' <=>
           Found(t, n) \/ \E k \in Nat : Marks(OpenLine \o <<Tab>>, k, t, n)
  BY <1>1, FoundPiece, AppendPiece
<1>3. ASSUME NEW k \in Nat PROVE ~ Marks(OpenLine \o <<Tab>>, k, t, n)
  <2>1. Len(OpenLine \o <<Tab>>) = Len(OpenLine) + 1 /\ Len(OpenLine) \in Nat
    BY <1>1, <1>2
  <2>. QED BY <2>1 DEF Marks
<1>. QED BY <1>2, <1>3

(* Behind the five tokens of a result line it makes that line's needle.    *)
LEMMA FoundTabLast ==
  ASSUME FileInv, text' = Written(<<Tab>>),
         NEW t \in Target, NEW n \in Nat, LineBegins(OpenLine, t, n, 3),
         NEW u \in Target, NEW m \in Nat
  PROVE  Found(u, m)' <=> Found(u, m) \/ (u = t /\ m = n)
<1>1. <<Tab>> \in Seq(Token) /\ <<Tab>> # Newline
  BY FixedTokens, TokensDiffer DEF Newline
<1>. DEFINE both == OpenLine \o <<Tab>>
<1>2. /\ OpenLine \in Seq(Token)
      /\ Found(u, m)' <=> Found(u, m) \/ \E k \in Nat : Marks(both, k, u, m)
  BY <1>1, FoundPiece, AppendPiece
<1>3. /\ Len(OpenLine) = 5
      /\ OpenLine[1] = Name(t[1]) /\ OpenLine[2] = Tab /\ OpenLine[3] = Name(t[2])
      /\ OpenLine[4] = Tab /\ OpenLine[5] = Number(n)
  BY DEF LineBegins
<1>4. /\ Len(both) = 6
      /\ both[1] = OpenLine[1] /\ both[2] = OpenLine[2] /\ both[3] = OpenLine[3]
      /\ both[4] = OpenLine[4] /\ both[5] = OpenLine[5] /\ both[6] = Tab
  <2>1. Len(<<Tab>>) = 1 /\ <<Tab>>[1] = Tab
    OBVIOUS
  <2>2. /\ Len(both) = Len(OpenLine) + 1
        /\ \A i \in 1 .. Len(OpenLine) : both[i] = OpenLine[i]
        /\ both[Len(OpenLine) + 1] = Tab
    BY <1>1, <1>2, <2>1
  <2>. HIDE DEF both
  <2>. QED BY <1>3, <2>2
<1>. HIDE DEF both
<1>5. \A k \in Nat : Marks(both, k, u, m) => k = 0
  BY <1>4 DEF Marks
<1>6. Marks(both, 0, u, m) <=>
        Name(t[1]) = Name(u[1]) /\ Name(t[2]) = Name(u[2]) /\ Number(n) = Number(m)
  BY <1>3, <1>4 DEF Marks
<1>7. u = t <=> t[1] = u[1] /\ t[2] = u[2]
  BY TargetAssumption
<1>8. /\ Name(t[1]) = Name(u[1]) <=> t[1] = u[1]
      /\ Name(t[2]) = Name(u[2]) <=> t[2] = u[2]
      /\ Number(n) = Number(m) <=> n = m
  BY TokensDiffer
<1>9. (\E k \in Nat : Marks(both, k, u, m)) <=> u = t /\ m = n
  BY <1>5, <1>6, <1>7, <1>8
<1>. QED BY <1>2, <1>9

(* The token that is written when c pieces are left. *)
IsTokenOf(token, t, n, c) ==
  /\ c = 8 => token = Name(t[1])
  /\ c = 7 => token = Tab
  /\ c = 6 => token = Name(t[2])
  /\ c = 5 => token = Tab
  /\ c = 4 => token = Number(n)
  /\ c = 3 => token = Tab
  /\ c = 2 => token = Throughput

LEMMA LineGrows ==
  ASSUME NEW line \in Seq(Token), NEW token \in Token,
         NEW t \in Target, NEW n \in Nat, NEW c \in 2 .. 8,
         LineBegins(line, t, n, c), IsTokenOf(token, t, n, c)
  PROVE  LineBegins(line \o <<token>>, t, n, c - 1)
<1>. DEFINE both == line \o <<token>>
<1>1. <<token>> \in Seq(Token) /\ Len(<<token>>) = 1 /\ <<token>>[1] = token
  OBVIOUS
<1>2. /\ Len(both) = Len(line) + 1
      /\ \A i \in 1 .. Len(line) : both[i] = line[i]
      /\ both[Len(line) + 1] = token
  BY <1>1
<1>. HIDE DEF both
<1>3. Len(line) = 8 - c /\ Len(both) = 8 - (c - 1)
  BY <1>2 DEF LineBegins
<1>4. \A i \in 1 .. 7 : i <= Len(line) => both[i] = line[i]
  BY <1>2, <1>3
<1>6. /\ 1 <= Len(both) => both[1] = Name(t[1])
      /\ 2 <= Len(both) => both[2] = Tab
      /\ 3 <= Len(both) => both[3] = Name(t[2])
      /\ 4 <= Len(both) => both[4] = Tab
      /\ 5 <= Len(both) => both[5] = Number(n)
      /\ 6 <= Len(both) => both[6] = Tab
      /\ 7 <= Len(both) => both[7] = Throughput
  BY <1>2, <1>3, <1>4 DEF LineBegins, IsTokenOf
<1>. QED BY <1>3, <1>6 DEF LineBegins, both

(* The next write of a run's report.                                       *)
LEMMA RunPiece ==
  ASSUME FileInv, Write, NEW t \in Target, NEW n \in Nat,
         IsRest(pending, RunReport(t, n))
  PROVE  \E c \in 1 .. 10, piece \in Seq(Token) :
           /\ c = Len(pending) /\ text' = Written(piece)
           /\ pending' \in Seq(Seq(Token)) /\ Len(pending') = c - 1
           /\ IsRest(pending', RunReport(t, n))
           /\ c \in {9, 1} => piece = Newline
           /\ c \notin {9, 1} => piece # Newline
           /\ c = 10 => piece = Heading
           /\ c \notin {10, 9, 1} =>
                \E token \in Token : piece = <<token>> /\ IsTokenOf(token, t, n, c)
<1>1. pending # << >> /\ text' = Written(Head(pending)) /\ pending' = Tail(pending)
  BY DEF Write
<1>2. /\ pending \in Seq(Seq(Token)) /\ RunReport(t, n) \in Seq(Seq(Token))
      /\ Len(RunReport(t, n)) = 10
  BY RunReportPieces DEF FileInv
<1>3. PICK c \in 1 .. 10 : c = Len(pending)
  <2>1. PICK d \in Nat : d = Len(pending) /\ d # 0
    BY <1>1, <1>2
  <2>2. d <= 10
    BY <1>2, <2>1 DEF IsRest
  <2>3. \A x \in Nat : x # 0 /\ x <= 10 => x \in 1 .. 10
    OBVIOUS
  <2>4. d \in 1 .. 10
    BY <2>1, <2>2, <2>3
  <2>. QED BY <2>1, <2>4
<1>4. PICK piece \in Seq(Token) : piece = Head(pending)
  BY <1>1, <1>2
<1>5. /\ piece = RunReport(t, n)[11 - c]
      /\ pending' \in Seq(Seq(Token)) /\ Len(pending') = c - 1
      /\ IsRest(pending', RunReport(t, n))
  <2>1. /\ piece = RunReport(t, n)[Len(RunReport(t, n)) - Len(pending) + 1]
        /\ Tail(pending) \in Seq(Seq(Token)) /\ Len(Tail(pending)) = Len(pending) - 1
        /\ IsRest(Tail(pending), RunReport(t, n))
    BY <1>1, <1>2, <1>4, RestStep
  <2>2. Len(RunReport(t, n)) - Len(pending) + 1 = 11 - c
    BY <1>2, <1>3
  <2>. QED BY <1>1, <1>3, <2>1, <2>2
<1>6. /\ c \in {9, 1} => piece = Newline
      /\ c = 10 => piece = Heading
      /\ c \notin {10, 9, 1} =>
           \E token \in Token : piece = <<token>> /\ IsTokenOf(token, t, n, c)
  <2>1. /\ (c = 10 => 11 - c = 1) /\ (c = 9 => 11 - c = 2) /\ (c = 8 => 11 - c = 3)
        /\ (c = 7 => 11 - c = 4) /\ (c = 6 => 11 - c = 5) /\ (c = 5 => 11 - c = 6)
        /\ (c = 4 => 11 - c = 7) /\ (c = 3 => 11 - c = 8) /\ (c = 2 => 11 - c = 9)
        /\ (c = 1 => 11 - c = 10)
    OBVIOUS
  <2>2. /\ c = 10 => piece = Heading
        /\ c = 9 => piece = Newline
        /\ c = 8 => piece = <<Name(t[1])>>
        /\ c = 7 => piece = <<Tab>>
        /\ c = 6 => piece = <<Name(t[2])>>
        /\ c = 5 => piece = <<Tab>>
        /\ c = 4 => piece = <<Number(n)>>
        /\ c = 3 => piece = <<Tab>>
        /\ c = 2 => piece = <<Throughput>>
        /\ c = 1 => piece = Newline
    <3>. DEFINE report == RunReport(t, n)
    <3>1. piece = report[11 - c]
      BY <1>5
    <3>. HIDE DEF report
    <3>2. /\ (c = 10 => piece = report[1]) /\ (c = 9 => piece = report[2])
          /\ (c = 8 => piece = report[3]) /\ (c = 7 => piece = report[4])
          /\ (c = 6 => piece = report[5]) /\ (c = 5 => piece = report[6])
          /\ (c = 4 => piece = report[7]) /\ (c = 3 => piece = report[8])
          /\ (c = 2 => piece = report[9]) /\ (c = 1 => piece = report[10])
      BY <2>1, <3>1
    <3>3. /\ report[1] = Heading /\ report[2] = Newline
          /\ report[3] = <<Name(t[1])>> /\ report[4] = <<Tab>>
          /\ report[5] = <<Name(t[2])>> /\ report[6] = <<Tab>>
          /\ report[7] = <<Number(n)>> /\ report[8] = <<Tab>>
          /\ report[9] = <<Throughput>> /\ report[10] = Newline
      BY RunReportPieces DEF report
    <3>. QED BY <3>2, <3>3
  <2>3. c \in {10, 9, 1} \/ c \in {8, 7, 6, 5, 4, 3, 2}
    OBVIOUS
  <2>4. CASE c \in {8, 7, 6, 5, 4, 3, 2}
    BY <2>2, <2>4, Tokens DEF IsTokenOf
  <2>. QED BY <2>2, <2>3, <2>4
<1>7. text' = Written(piece)
  BY <1>1, <1>4
<1>8. c \notin {9, 1} => piece # Newline
  <2>1. Heading # Newline
    BY HeadingTokens DEF Newline
  <2>2. ASSUME NEW token, IsTokenOf(token, t, n, c), c \in {8, 7, 6, 5, 4, 3, 2}
        PROVE  token # <<"newline", 0>>
    BY <2>2 DEF IsTokenOf, Name, Tab, Number, Throughput
  <2>3. \A token : <<token>> = Newline => token = <<"newline", 0>>
    BY DEF Newline
  <2>4. c \notin {9, 1} => c = 10 \/ c \in {8, 7, 6, 5, 4, 3, 2}
    OBVIOUS
  <2>. QED BY <1>6, <2>1, <2>2, <2>3, <2>4
<1>. QED BY <1>3, <1>5, <1>6, <1>7, <1>8

(* One write of a run: its report gets shorter, the line grows, and a      *)
(* needle is completed by the third write from the end, and by no other.   *)
LEMMA RunPieceWritten ==
  ASSUME FileInv, Write, NEW t \in Target, NEW n \in Nat,
         IsRest(pending, RunReport(t, n)),
         Len(pending) \in 1 .. 8 => LineBegins(OpenLine, t, n, Len(pending))
  PROVE  /\ FileInv'
         /\ Len(pending) \in 1 .. 10
         /\ Len(pending') = Len(pending) - 1
         /\ IsRest(pending', RunReport(t, n))
         /\ Len(pending) \in 2 .. 9 =>
              LineBegins(OpenLine', t, n, Len(pending'))
         /\ \A u \in Target, m \in Nat :
              Found(u, m)' <=> Found(u, m) \/ (Len(pending) = 3 /\ u = t /\ m = n)
<1>1. PICK c \in 1 .. 10, piece \in Seq(Token) :
        /\ c = Len(pending) /\ text' = Written(piece)
        /\ pending' \in Seq(Seq(Token)) /\ Len(pending') = c - 1
        /\ IsRest(pending', RunReport(t, n))
        /\ c \in {9, 1} => piece = Newline
        /\ c \notin {9, 1} => piece # Newline
        /\ c = 10 => piece = Heading
        /\ c \notin {10, 9, 1} =>
             \E token \in Token : piece = <<token>> /\ IsTokenOf(token, t, n, c)
  BY RunPiece
<1>3. c = Len(pending)
  BY <1>1
<1>5. /\ pending' \in Seq(Seq(Token)) /\ Len(pending') = c - 1
      /\ IsRest(pending', RunReport(t, n))
  BY <1>1
<1>6. /\ c \in {9, 1} => piece = Newline
      /\ c = 10 => piece = Heading
      /\ c \notin {10, 9, 1} =>
           \E token \in Token : piece = <<token>> /\ IsTokenOf(token, t, n, c)
  BY <1>1
<1>7. c \in 1 .. 8 => LineBegins(OpenLine, t, n, c)
  BY <1>3
<1>8. text' = Written(piece)
  BY <1>1
<1>9. CASE c \in {9, 1}
  <2>1. text' = Written(Newline)
    BY <1>6, <1>8, <1>9
  <2>2. /\ text' \in Seq(Seq(Token)) /\ Len(text') = Len(text) + 1
        /\ text'[Len(text) + 1] = << >>
    BY <2>1, AppendNewline
  <2>3. text' # << >> /\ OpenLine' = << >>
    BY <2>2 DEF OpenLine, FileInv
  <2>4. c = 9 => LineBegins(OpenLine', t, n, c - 1)
    BY <2>3 DEF LineBegins
  <2>5. \A u \in Target, m \in Nat : Found(u, m)' <=> Found(u, m)
    BY <2>1, FoundNewline
  <2>6. FileInv'
    BY <1>5, <2>2, <2>3 DEF FileInv
  <2>7. (c \in 2 .. 9 => c = 9) /\ c # 3
    BY <1>9
  <2>. QED BY <1>3, <1>5, <1>9, <2>4, <2>5, <2>6, <2>7
<1>10. CASE c \notin {9, 1}
  <2>1. piece # Newline
    BY <1>1, <1>10
  <2>2. /\ text' \in Seq(Seq(Token)) /\ Len(text') = Len(text)
        /\ text'[Len(text)] = OpenLine \o piece
        /\ OpenLine \in Seq(Token)
    BY <1>8, <2>1, AppendPiece
  <2>3. text' # << >> /\ OpenLine' = OpenLine \o piece
    BY <2>2 DEF OpenLine, FileInv
  <2>4. CASE c = 10
    <3>1. Inert(piece)
      BY <1>6, <2>4, InertPieces
    <3>2. \A u \in Target, m \in Nat : Found(u, m)' <=> Found(u, m)
      BY <1>8, <2>1, <3>1, FoundInert
    <3>3. FileInv'
      BY <1>5, <2>2, <2>3 DEF FileInv
    <3>4. c \notin 2 .. 9 /\ c # 3
      BY <2>4
    <3>. QED BY <1>3, <1>5, <3>2, <3>3, <3>4
  <2>5. CASE c # 10
    <3>1. PICK token \in Token : piece = <<token>> /\ IsTokenOf(token, t, n, c)
      BY <1>6, <1>10, <2>5
    <3>2. c \in 2 .. 8 /\ LineBegins(OpenLine, t, n, c)
      BY <1>7, <1>10, <2>5
    <3>3. LineBegins(OpenLine', t, n, c - 1)
      BY <2>2, <2>3, <3>1, <3>2, LineGrows
    <3>5. ASSUME NEW u \in Target, NEW m \in Nat
          PROVE  Found(u, m)' <=> Found(u, m) \/ (c = 3 /\ u = t /\ m = n)
      <4>1. CASE c \in {8, 6, 4, 2}
        <5>1. Inert(piece)
          BY <3>1, <4>1, InertPieces DEF IsTokenOf
        <5>. QED BY <1>8, <2>1, <4>1, <5>1, FoundInert
      <4>2. CASE c \in {7, 5}
        <5>1. Len(OpenLine) < 5
          BY <3>2, <4>2 DEF LineBegins
        <5>2. text' = Written(<<Tab>>)
          BY <1>8, <3>1, <4>2 DEF IsTokenOf
        <5>. QED BY <4>2, <5>1, <5>2, FoundTabEarly
      <4>3. CASE c = 3
        <5>1. LineBegins(OpenLine, t, n, 3)
          BY <3>2, <4>3
        <5>2. text' = Written(<<Tab>>)
          BY <1>8, <3>1, <4>3 DEF IsTokenOf
        <5>. QED BY <4>3, <5>1, <5>2, FoundTabLast
      <4>. QED BY <3>2, <4>1, <4>2, <4>3
    <3>6. FileInv'
      BY <1>5, <2>2, <2>3 DEF FileInv
    <3>. QED BY <1>3, <1>5, <3>3, <3>5, <3>6
  <2>. QED BY <2>4, <2>5
<1>. QED BY <1>9, <1>10

(* The next write of a load's report.                                      *)
LEMMA LoadPiece ==
  ASSUME FileInv, Write, IsRest(pending, LoadReport)
  PROVE  \E c \in 1 .. 3, piece \in Seq(Token) :
           /\ c = Len(pending) /\ text' = Written(piece)
           /\ pending' \in Seq(Seq(Token)) /\ Len(pending') = c - 1
           /\ IsRest(pending', LoadReport)
           /\ c = 1 => piece = Newline
           /\ c # 1 => piece # Newline
           /\ c = 2 => piece = <<Number(0)>>
           /\ c = 3 => piece = LoadReport[1]
<1>1. pending # << >> /\ text' = Written(Head(pending)) /\ pending' = Tail(pending)
  BY DEF Write
<1>2. /\ pending \in Seq(Seq(Token)) /\ LoadReport \in Seq(Seq(Token))
      /\ Len(LoadReport) = 3
  BY LoadReportPieces DEF FileInv
<1>3. PICK c \in 1 .. 3 : c = Len(pending)
  <2>1. PICK d \in Nat : d = Len(pending) /\ d # 0
    BY <1>1, <1>2
  <2>2. d <= 3
    BY <1>2, <2>1 DEF IsRest
  <2>3. d \in 1 .. 3
    BY <2>1, <2>2
  <2>. QED BY <2>1, <2>3
<1>4. PICK piece \in Seq(Token) : piece = Head(pending)
  BY <1>1, <1>2
<1>5. /\ piece = LoadReport[4 - c]
      /\ pending' \in Seq(Seq(Token)) /\ Len(pending') = c - 1
      /\ IsRest(pending', LoadReport)
  <2>1. /\ piece = LoadReport[Len(LoadReport) - Len(pending) + 1]
        /\ Tail(pending) \in Seq(Seq(Token)) /\ Len(Tail(pending)) = Len(pending) - 1
        /\ IsRest(Tail(pending), LoadReport)
    BY <1>1, <1>2, <1>4, RestStep
  <2>2. Len(LoadReport) - Len(pending) + 1 = 4 - c
    BY <1>2, <1>3
  <2>. QED BY <1>1, <1>3, <2>1, <2>2
<1>6. /\ c = 1 => piece = Newline
      /\ c = 2 => piece = <<Number(0)>>
      /\ c = 3 => piece = LoadReport[1] /\ Len(piece) = 6
  <2>1. (c = 1 => 4 - c = 3) /\ (c = 2 => 4 - c = 2) /\ (c = 3 => 4 - c = 1)
    OBVIOUS
  <2>2. Len(LoadReport[1]) = 6
    BY LoadReportPieces
  <2>. QED BY <1>5, <2>1, <2>2, LoadReportPieces
<1>7. text' = Written(piece)
  BY <1>1, <1>4
<1>8. c # 1 => piece # Newline
  <2>1. Len(Newline) = 1 /\ <<Number(0)>> # Newline
    BY DEF Newline, Number
  <2>2. c # 1 => c = 2 \/ c = 3
    OBVIOUS
  <2>3. CASE c = 3
    <3>1. Len(piece) = 6
      BY <1>6, <2>3
    <3>2. Len(piece) # Len(Newline)
      BY <2>1, <3>1
    <3>. QED BY <3>2
  <2>. QED BY <1>6, <2>1, <2>2, <2>3
<1>. QED BY <1>3, <1>5, <1>6, <1>7, <1>8

(* One write of a load completes none.                                     *)
LEMMA LoadPieceWritten ==
  ASSUME FileInv, Write, IsRest(pending, LoadReport)
  PROVE  /\ FileInv'
         /\ IsRest(pending', LoadReport)
         /\ \A u \in Target, m \in Nat : Found(u, m)' <=> Found(u, m)
<1>1. PICK c \in 1 .. 3, piece \in Seq(Token) :
        /\ c = Len(pending) /\ text' = Written(piece)
        /\ pending' \in Seq(Seq(Token)) /\ Len(pending') = c - 1
        /\ IsRest(pending', LoadReport)
        /\ c = 1 => piece = Newline
        /\ c # 1 => piece # Newline
        /\ c = 2 => piece = <<Number(0)>>
        /\ c = 3 => piece = LoadReport[1]
  BY LoadPiece
<1>8. CASE c = 1
  <2>1. text' = Written(Newline)
    BY <1>1, <1>8
  <2>2. text' \in Seq(Seq(Token)) /\ Len(text') = Len(text) + 1
    BY <2>1, AppendNewline
  <2>3. text' # << >>
    BY <2>2 DEF FileInv
  <2>. QED BY <1>1, <2>1, <2>2, <2>3, FoundNewline DEF FileInv
<1>9. CASE c # 1
  <2>1. piece # Newline
    BY <1>1, <1>9
  <2>5. Inert(piece)
    <3>1. c = 2 \/ c = 3
      BY <1>9
    <3>. QED BY <1>1, <3>1, InertPieces
  <2>2. text' \in Seq(Seq(Token)) /\ Len(text') = Len(text)
    BY <1>1, <2>1, AppendPiece
  <2>3. text' # << >>
    BY <2>2 DEF FileInv
  <2>4. \A u \in Target, m \in Nat : Found(u, m)' <=> Found(u, m)
    BY <1>1, <2>1, <2>5, FoundInert
  <2>. QED BY <1>1, <2>2, <2>3, <2>4 DEF FileInv
<1>. QED BY <1>8, <1>9

(* The third write from the end is the one that writes up to the           *)
(* throughput.                                                             *)
LEMMA SecondPiece ==
  ASSUME NEW rest \in Seq(Seq(Token)), NEW t \in Target, NEW n \in Nat,
         IsRest(rest, RunReport(t, n)), Len(rest) > 1
  PROVE  rest[2] = <<Throughput>> <=> Len(rest) = 3
<1>. DEFINE report == RunReport(t, n)
<1>1. /\ Len(report) = 10 /\ report[2] = Newline
      /\ report[3] = <<Name(t[1])>> /\ report[4] = <<Tab>>
      /\ report[5] = <<Name(t[2])>> /\ report[6] = <<Tab>>
      /\ report[7] = <<Number(n)>> /\ report[8] = <<Tab>>
      /\ report[9] = <<Throughput>> /\ report[10] = Newline
  BY RunReportPieces
<1>2. IsRest(rest, report)
  OBVIOUS
<1>. HIDE DEF report
<1>3. PICK c \in Nat : c = Len(rest)
  OBVIOUS
<1>4. c > 1 /\ c <= 10
  BY <1>1, <1>2, <1>3 DEF IsRest
<1>5. rest[2] = report[12 - c]
  <2>1. 2 \in 1 .. Len(rest)
    BY <1>3, <1>4
  <2>2. rest[2] = report[Len(report) - Len(rest) + 2]
    BY <1>2, <2>1 DEF IsRest
  <2>3. Len(report) - Len(rest) + 2 = 12 - c
    BY <1>1, <1>3
  <2>. QED BY <2>2, <2>3
<1>6. /\ \A x : <<Throughput>> = <<x>> => Throughput = x
      /\ Newline = << <<"newline", 0>> >>
  BY DEF Newline
<1>7. /\ Throughput # Name(t[1]) /\ Throughput # Name(t[2]) /\ Throughput # Tab
      /\ Throughput # Number(n) /\ Throughput # <<"newline", 0>>
  BY TokensDiffer
<1>8. \/ 12 - c = 2 \/ 12 - c = 3 \/ 12 - c = 4 \/ 12 - c = 5 \/ 12 - c = 6
      \/ 12 - c = 7 \/ 12 - c = 8 \/ 12 - c = 9 \/ 12 - c = 10
  BY <1>4
<1>9. report[12 - c] = <<Throughput>> <=> 12 - c = 9
  BY <1>1, <1>6, <1>7, <1>8
<1>10. 12 - c = 9 <=> c = 3
  OBVIOUS
<1>. QED BY <1>3, <1>5, <1>9, <1>10

LEMMA RunReportOf ==
  ASSUME HInv, at \in {"threads", "run", "line"}, th <= Len(Threads)
  PROVE  target \in Target /\ Threads[th] \in Nat
<1>1. Len(Targets) \in Nat /\ Len(Threads) \in Nat
  BY HarnessAssumption
<1>2. pair \in 1 .. Len(Targets) /\ th \in 1 .. Len(Threads)
  BY <1>1 DEF HInv, TypeOK, LoopInv, InTarget
<1>. QED BY <1>2, HarnessAssumption DEF target

LEMMA SameResults ==
  ASSUME UNCHANGED log
  PROVE  \A t, n : HasResult(t, n)' <=> HasResult(t, n)
BY DEF HasResult

(* A step that writes no text, and no line of the log.                     *)
LEMMA SameText ==
  ASSUME TextInv, UNCHANGED <<text, log>>, pending' \in Seq(Seq(Token))
  PROVE  FileInv' /\ FoundInv'
<1>1. FileInv'
  BY DEF TextInv, FileInv
<1>2. \A t \in Target, n \in Nat : Found(t, n)' <=> Found(t, n)
  BY DEF Found
<1>. QED BY <1>1, <1>2, SameResults DEF TextInv, FoundInv

(* The invariant holds of the empty file.                                  *)
LEMMA TextInvInit == LogInit => TextInv
<1>. SUFFICES ASSUME LogInit PROVE TextInv
  OBVIOUS
<1>1. text = << << >> >> /\ pending = << >> /\ at = "down" /\ log = << >>
  BY DEF LogInit, Init
<1>2. Len(text) = 1 /\ text[1] = << >> /\ text \in Seq(Seq(Token))
  BY <1>1
<1>3. FileInv
  BY <1>1, <1>2 DEF FileInv
<1>4. FoundInv
  <2>1. \A t, n : ~ HasResult(t, n)
    BY <1>1 DEF HasResult
  <2>2. \A l \in 1 .. 1 : l = 1
    OBVIOUS
  <2>3. \A t : \A n : \A k \in Nat : ~ Marks(<< >>, k, t, n)
    BY DEF Marks
  <2>. QED BY <1>2, <2>1, <2>2, <2>3 DEF FoundInv, Found
<1>. QED BY <1>1, <1>3, <1>4 DEF TextInv, LoadRest, RunRest, IdleRest

(* Every step keeps it.                                                    *)
LEMMA TextInvNext == HInv /\ TextInv /\ [LogNext]_logVars => TextInv'
<1>. SUFFICES ASSUME HInv, TextInv, [LogNext]_logVars PROVE TextInv'
  OBVIOUS
<1>. USE DEF TextInv
<1>0. << >> \in Seq(Seq(Token)) /\ Len(<< >>) = 0
  OBVIOUS
<1>1. CASE ScriptStep
  <2>1. /\ at \notin {"load", "run", "line"} /\ at' \notin {"load", "run", "line"}
        /\ UNCHANGED <<text, pending, log>>
    BY <1>1 DEF ScriptStep, Start, SkipTarget, SkipThreads, NextTarget, Done
  <2>2. pending' = << >>
    BY <2>1 DEF IdleRest
  <2>. QED BY <1>0, <2>1, <2>2, SameText DEF LoadRest, RunRest, IdleRest
<1>2. CASE StartLoad
  <2>1. at' = "load" /\ UNCHANGED <<text, log>> /\ pending' \in {LoadReport, << >>}
    BY <1>2 DEF StartLoad, Prepare
  <2>2. IsRest(LoadReport, LoadReport) /\ IsRest(<< >>, LoadReport)
    <3>1. Len(LoadReport) = 3 /\ LoadReport \in Seq(Seq(Token))
      BY LoadReportPieces
    <3>. QED BY <1>0, <3>1, WholeRest DEF IsRest
  <2>3. pending' \in Seq(Seq(Token)) /\ IsRest(pending', LoadReport)
    BY <1>0, <2>1, <2>2, LoadReportPieces
  <2>. QED BY <2>1, <2>3, SameText DEF LoadRest, RunRest, IdleRest
<1>3. CASE StartRun
  <2>1. /\ at = "threads" /\ th <= Len(Threads)
        /\ at' = "run" /\ UNCHANGED <<text, log, pair, th>>
        /\ pending' = IF target \in Known THEN RunReport(target, Threads[th]) ELSE << >>
        /\ target' = target
    BY <1>3 DEF StartRun, Run, target
  <2>2. /\ RunReport(target, Threads[th]) \in Seq(Seq(Token))
        /\ Len(RunReport(target, Threads[th])) = 10
    BY <2>1, RunReportOf, RunReportPieces
  <2>3. IsRest(RunReport(target, Threads[th]), RunReport(target, Threads[th]))
    BY <2>2, WholeRest
  <2>4. pending' \in Seq(Seq(Token))
    BY <1>0, <2>1, <2>2
  <2>5. FileInv' /\ FoundInv'
    BY <2>1, <2>4, SameText
  <2>6. RunRest'
    <3>1. CASE target \in Known
      <4>1. pending' = RunReport(target, Threads[th]) /\ Len(pending') = 10
        BY <2>1, <2>2, <3>1
      <4>2. IsRest(pending', RunReport(target', Threads[th']))
        BY <2>1, <2>3, <4>1
      <4>3. at' = "run" /\ Len(pending') >= 3 /\ Len(pending') \notin 1 .. 8
        <5>1. 10 >= 3 /\ 10 \notin 1 .. 8
          OBVIOUS
        <5>. QED BY <2>1, <4>1, <5>1
      <4>4. target' \in Known
        BY <2>1, <3>1
      <4>. QED BY <4>2, <4>3, <4>4 DEF RunRest
    <3>2. CASE target \notin Known
      BY <2>1, <3>2 DEF RunRest
    <3>. QED BY <3>1, <3>2
  <2>. QED BY <2>1, <2>5, <2>6 DEF LoadRest, IdleRest
<1>4. CASE Return
  <2>1. at' = "threads" /\ pending' = << >> /\ UNCHANGED <<text, log>>
    BY <1>4 DEF Return, LoadReturns, RunUnknown
  <2>. QED BY <1>0, <2>1, SameText DEF LoadRest, RunRest, IdleRest
<1>5. CASE LogStop
  <2>1. at' = "down" /\ pending' = << >> /\ UNCHANGED <<text, log>>
    BY <1>5 DEF LogStop, Stop
  <2>. QED BY <1>0, <2>1, SameText DEF LoadRest, RunRest, IdleRest
<1>6. CASE UNCHANGED logVars
  <2>1. UNCHANGED <<text, log, pending, at, th, pair>>
    BY <1>6 DEF logVars, vars
  <2>2. FileInv' /\ FoundInv'
    BY <2>1, SameText DEF FileInv
  <2>3. target' = target /\ OpenLine' = OpenLine
    BY <2>1 DEF target, OpenLine
  <2>. QED BY <2>1, <2>2, <2>3 DEF LoadRest, RunRest, IdleRest
<1>7. CASE Write /\ at \in {"run", "line"}
           /\ (WriteNeedleEnd \/ WriteResultEnd \/ WriteOther)
  <2>1. pending # << >> /\ target \in Known
    BY <1>7 DEF Write, RunRest, HInv, LineInv
  <2>2. target \in Target /\ Threads[th] \in Nat
    BY <1>7, RunReportOf DEF HInv, LoopInv
  <2>3. PICK t \in Target, n \in Nat : t = target /\ n = Threads[th]
    BY <2>2
  <2>4. /\ IsRest(pending, RunReport(t, n))
        /\ at = "run" => Len(pending) >= 3
        /\ at = "line" => Len(pending) \in {1, 2}
        /\ Len(pending) \in 1 .. 8 => LineBegins(OpenLine, t, n, Len(pending))
    BY <1>7, <2>1, <2>3 DEF RunRest
  <2>5. /\ FileInv'
        /\ Len(pending) \in 1 .. 10
        /\ Len(pending') = Len(pending) - 1
        /\ IsRest(pending', RunReport(t, n))
        /\ Len(pending) \in 2 .. 9 =>
             LineBegins(OpenLine', t, n, Len(pending'))
        /\ \A u \in Target, m \in Nat :
             Found(u, m)' <=> Found(u, m) \/ (Len(pending) = 3 /\ u = t /\ m = n)
    BY <1>7, <2>4, RunPieceWritten
  <2>6. Len(pending) > 1 => (pending[2] = <<Throughput>> <=> Len(pending) = 3)
    BY <2>4, SecondPiece DEF FileInv
  <2>7. pending' \in Seq(Seq(Token))
    BY <2>5 DEF FileInv
  <2>8. CASE WriteNeedleEnd
    <3>1. /\ at = "run" /\ Len(pending) = 3
          /\ at' = "line" /\ UNCHANGED <<pair, th>>
          /\ log' = Append(log, [target |-> t, threads |-> n, measured |-> FALSE])
      BY <2>3, <2>6, <2>8 DEF WriteNeedleEnd, EndsNeedle, WriteLine
    <3>2. target' = t /\ Threads[th'] = n
      BY <2>3, <3>1 DEF target
    <3>3. Len(pending') = 2
      BY <2>5, <3>1
    <3>4. RunRest'
      <4>1. /\ target' \in Known /\ at' # "run" /\ Len(pending') \in {1, 2}
            /\ IsRest(pending', RunReport(target', Threads[th']))
            /\ LineBegins(OpenLine', target', Threads[th'], Len(pending'))
        BY <2>1, <2>3, <2>5, <3>1, <3>2, <3>3
      <4>. QED BY <4>1 DEF RunRest
    <3>5. \A u \in Target, m \in Nat :
            HasResult(u, m)' <=> HasResult(u, m) \/ (u = t /\ m = n)
      <4>. DEFINE line == [target |-> t, threads |-> n, measured |-> FALSE]
      <4>1. /\ Len(log) \in Nat /\ Len(log') = Len(log) + 1
            /\ \A k \in 1 .. Len(log) : log'[k] = log[k]
            /\ log'[Len(log) + 1] = line
            /\ DOMAIN log = 1 .. Len(log) /\ DOMAIN log' = 1 .. Len(log')
        BY <3>1 DEF HInv, TypeOK
      <4>2. /\ \A k \in DOMAIN log' : k \in DOMAIN log \/ k = Len(log) + 1
            /\ \A k \in DOMAIN log : k \in DOMAIN log'
            /\ Len(log) + 1 \in DOMAIN log'
        BY <4>1
      <4>3. line.target = t /\ line.threads = n
        OBVIOUS
      <4>. HIDE DEF line
      <4>. QED BY <4>1, <4>2, <4>3 DEF HasResult
    <3>6. FoundInv'
      BY <2>5, <3>1, <3>5 DEF FoundInv
    <3>. QED BY <2>5, <3>1, <3>4, <3>6 DEF LoadRest, IdleRest
  <2>9. CASE WriteResultEnd
    <3>1. /\ at = "line" /\ Len(pending) = 1 /\ at' = "threads"
          /\ log' = [log EXCEPT ![Len(log)].measured = TRUE]
      BY <2>9 DEF WriteResultEnd, EndsResult, WriteThroughput
    <3>2. pending' = << >>
      BY <2>5, <2>7, <3>1
    <3>3. \A u, m : HasResult(u, m)' <=> HasResult(u, m)
      <4>1. /\ DOMAIN log' = DOMAIN log
            /\ \A k \in DOMAIN log :
                 log'[k].target = log[k].target /\ log'[k].threads = log[k].threads
        BY <3>1 DEF HInv, TypeOK
      <4>. QED BY <4>1 DEF HasResult
    <3>4. FoundInv'
      BY <2>5, <3>1, <3>3 DEF FoundInv
    <3>. QED BY <2>5, <3>1, <3>2, <3>4 DEF LoadRest, RunRest, IdleRest
  <2>10. CASE WriteOther
    <3>1. /\ UNCHANGED <<at, pair, th, log>> /\ ~ EndsNeedle /\ ~ EndsResult
      BY <2>10 DEF WriteOther, vars
    <3>2. target' = t /\ Threads[th'] = n
      BY <2>3, <3>1 DEF target
    <3>3. PICK c \in 1 .. 10 : c = Len(pending)
      BY <2>5
    <3>4. Len(pending') = c - 1
      BY <2>5, <3>3
    <3>5. at = "run" => c >= 4
      BY <2>4, <2>6, <3>1, <3>3 DEF EndsNeedle
    <3>6. at = "line" => c = 2
      BY <2>4, <3>1, <3>3 DEF EndsResult
    <3>7. c # 3
      BY <1>7, <3>5, <3>6
    <3>8. RunRest'
      <4>1. CASE at = "run"
        <5>1. Len(pending') >= 3 /\ (Len(pending') \in 1 .. 8 => c \in 2 .. 9)
          BY <3>4, <3>5, <4>1
        <5>2. Len(pending') \in 1 .. 8 => LineBegins(OpenLine', t, n, Len(pending'))
          BY <2>5, <3>3, <5>1
        <5>3. /\ at' = "run" /\ target' \in Known
              /\ IsRest(pending', RunReport(target', Threads[th']))
          BY <2>1, <2>3, <2>5, <3>1, <3>2, <4>1
        <5>. QED BY <3>2, <5>1, <5>2, <5>3 DEF RunRest
      <4>2. CASE at = "line"
        <5>1. Len(pending') = 1 /\ LineBegins(OpenLine', t, n, Len(pending'))
          <6>1. c = 2 /\ c \in 2 .. 9
            BY <3>6, <4>2
          <6>. QED BY <2>5, <3>3, <3>4, <6>1
        <5>2. /\ at' = "line" /\ target' \in Known
              /\ IsRest(pending', RunReport(target', Threads[th']))
          BY <2>1, <2>3, <2>5, <3>1, <3>2, <4>2
        <5>. QED BY <3>2, <5>1, <5>2 DEF RunRest
      <4>. QED BY <1>7, <4>1, <4>2
    <3>9. FoundInv'
      BY <2>5, <3>1, <3>3, <3>7, SameResults DEF FoundInv
    <3>. QED BY <1>7, <2>5, <3>1, <3>8, <3>9 DEF LoadRest, IdleRest
  <2>. QED BY <1>7, <2>8, <2>9, <2>10
<1>8. CASE WriteOther /\ at = "load"
  <2>1. Write /\ UNCHANGED vars
    BY <1>8 DEF WriteOther
  <2>2. /\ FileInv' /\ IsRest(pending', LoadReport)
        /\ \A u \in Target, m \in Nat : Found(u, m)' <=> Found(u, m)
    BY <1>8, <2>1, LoadPieceWritten DEF LoadRest
  <2>3. at' = "load" /\ UNCHANGED log
    BY <1>8, <2>1 DEF vars
  <2>. QED BY <2>2, <2>3, SameResults DEF LoadRest, RunRest, IdleRest, FoundInv
<1>9. CASE WriteOther /\ at \notin {"load", "run", "line"}
  BY <1>9 DEF WriteOther, Write, IdleRest
<1>. QED
  BY <1>1, <1>2, <1>3, <1>4, <1>5, <1>6, <1>7, <1>8, <1>9
  DEF LogNext, LogScript, WriteNeedleEnd, WriteResultEnd, WriteOther,
      WriteLine, WriteThroughput

(* grep finds the needle of a target and a thread count exactly when a run *)
(* of them has got as far as its throughput, however the text of the log   *)
(* was broken off and written on before.                                   *)
THEOREM GrepCorrect == LogSpec => []GrepFindsLog
<1>1. LogSpec => []TextInv
  <2>1. HInv /\ TextInv /\ [LogNext]_logVars => TextInv'
    BY TextInvNext
  <2>. QED BY <2>1, TextInvInit, LogInvariance, PTL DEF LogSpec
<1>2. TextInv => GrepFindsLog
  <2>. SUFFICES ASSUME TextInv, NEW t \in Target, NEW m \in DOMAIN Threads
                PROVE  Grep(t, Threads[m]) <=> HasResult(t, Threads[m])
    BY DEF GrepFindsLog
  <2>1. Threads[m] \in Nat
    BY HarnessAssumption
  <2>2. Grep(t, Threads[m]) <=> Found(t, Threads[m])
    BY <2>1, GrepMarks DEF TextInv, FileInv, Found
  <2>. QED BY <2>1, <2>2 DEF TextInv, FoundInv
<1>. QED BY <1>1, <1>2, PTL

-----------------------------------------------------------------------------
(* The concatenation of sequences, which the parser's two loops are. *)

(* Every set of natural numbers has a least element.                       *)
LEMMA LeastNatural ==
  ASSUME NEW S \in SUBSET Nat, S # {}
  PROVE  \E n \in S : \A m \in S : n <= m
<1>. DEFINE R == OpToRel(<, Nat)
<1>1. IsWellFoundedOn(R, Nat)
  BY NatLessThanWellFounded DEF OpToRel
<1>2. ASSUME NEW x \in S, NEW y \in S, ~ (<<y, x>> \in R) PROVE x <= y
  BY <1>2 DEF OpToRel
<1>. HIDE DEF R
<1>3. \E n \in S : \A m \in S : ~ (<<m, n>> \in R)
  BY <1>1, WFMin
<1>. QED BY <1>2, <1>3

(* Induction over the natural numbers, with a set for the property.        *)
LEMMA Induction ==
  ASSUME NEW S \in SUBSET Nat, 0 \in S, \A n \in S : n + 1 \in S
  PROVE  S = Nat
<1>1. SUFFICES ASSUME Nat \ S # {} PROVE FALSE
  OBVIOUS
<1>2. PICK n \in Nat \ S : \A m \in Nat \ S : n <= m
  BY <1>1, LeastNatural
<1>3. n # 0 /\ n - 1 \in Nat /\ ~ (n <= n - 1) /\ (n - 1) + 1 = n
  OBVIOUS
<1>4. n - 1 \in S
  BY <1>2, <1>3
<1>. QED BY <1>3, <1>4

(* f[i] is the concatenation of the first i sequences of ss.               *)
Table(ss, f) ==
  /\ DOMAIN f = 0 .. Len(ss)
  /\ f[0] = << >>
  /\ \A i \in 1 .. Len(ss) : f[i] = f[i - 1] \o ss[i]

(* Every sequence of sequences has such a table.                           *)
LEMMA TableExists ==
  ASSUME NEW S
  PROVE  \A n \in Nat : \A ss \in Seq(Seq(S)) :
           Len(ss) = n => \E f \in [0 .. n -> Seq(S)] : Table(ss, f)
<1>. DEFINE T == {n \in Nat : \A ss \in Seq(Seq(S)) :
                    Len(ss) = n => \E f \in [0 .. n -> Seq(S)] : Table(ss, f)}
<1>1. 0 \in T
  <2>. SUFFICES ASSUME NEW ss \in Seq(Seq(S)), Len(ss) = 0
                PROVE  \E f \in [0 .. 0 -> Seq(S)] : Table(ss, f)
    OBVIOUS
  <2>1. [i \in 0 .. 0 |-> << >>] \in [0 .. 0 -> Seq(S)]
    OBVIOUS
  <2>2. Table(ss, [i \in 0 .. 0 |-> << >>])
    BY DEF Table
  <2>. QED BY <2>1, <2>2
<1>2. ASSUME NEW n \in T PROVE n + 1 \in T
  <2>. SUFFICES ASSUME NEW ss \in Seq(Seq(S)), Len(ss) = n + 1
                PROVE  \E f \in [0 .. (n + 1) -> Seq(S)] : Table(ss, f)
    BY <1>2
  <2>. DEFINE rr == [i \in 1 .. n |-> ss[i]]
  <2>1. rr \in Seq(Seq(S)) /\ Len(rr) = n /\ \A i \in 1 .. n : rr[i] = ss[i]
    OBVIOUS
  <2>. HIDE DEF rr
  <2>2. PICK g \in [0 .. n -> Seq(S)] : Table(rr, g)
    BY <2>1
  <2>. DEFINE f == [i \in 0 .. (n + 1) |-> IF i = n + 1 THEN g[n] \o ss[n + 1] ELSE g[i]]
  <2>3. ss[n + 1] \in Seq(S) /\ g[n] \in Seq(S)
    OBVIOUS
  <2>4. f \in [0 .. (n + 1) -> Seq(S)]
    BY <2>3
  <2>5. Table(ss, f)
    <3>1. DOMAIN f = 0 .. (n + 1)
      OBVIOUS
    <3>2. f[n + 1] = g[n] \o ss[n + 1] /\ \A i \in 0 .. n : f[i] = g[i]
      OBVIOUS
    <3>3. g[0] = << >> /\ \A i \in 1 .. n : g[i] = g[i - 1] \o ss[i]
      BY <2>1, <2>2 DEF Table
    <3>. HIDE DEF f
    <3>4. ASSUME NEW i \in 1 .. (n + 1) PROVE f[i] = f[i - 1] \o ss[i]
      <4>1. CASE i = n + 1
        <5>1. i - 1 = n /\ n \in 0 .. n
          BY <4>1
        <5>2. f[i - 1] = g[n]
          BY <3>2, <5>1
        <5>. QED BY <3>2, <4>1, <5>2
      <4>2. CASE i # n + 1
        <5>1. i \in 1 .. n /\ i \in 0 .. n /\ i - 1 \in 0 .. n
          BY <4>2
        <5>2. f[i] = g[i] /\ f[i - 1] = g[i - 1]
          BY <3>2, <5>1
        <5>. QED BY <3>3, <5>1, <5>2
      <4>. QED BY <4>1, <4>2
    <3>5. f[0] = << >>
      BY <3>2, <3>3
    <3>. QED BY <3>1, <3>4, <3>5 DEF Table
  <2>. QED BY <2>4, <2>5
<1>. HIDE DEF T
<1>3. T = Nat
  BY <1>1, <1>2, Induction DEF T
<1>. QED BY <1>3 DEF T

(* Where the sequences are the same, so are their concatenations.          *)
Agree(ss, tt, n) ==
  /\ n <= Len(ss) /\ n <= Len(tt)
  /\ \A i \in 1 .. n : ss[i] = tt[i]

LEMMA TablesAgree ==
  ASSUME NEW ss, NEW tt, NEW f, NEW g, Table(ss, f), Table(tt, g),
         Len(ss) \in Nat, Len(tt) \in Nat, NEW n \in Nat, Agree(ss, tt, n)
  PROVE  f[n] = g[n]
<1>. DEFINE T == {k \in Nat : k <= n => f[k] = g[k]}
<1>1. 0 \in T
  BY DEF Table
<1>2. ASSUME NEW k \in T PROVE k + 1 \in T
  <2>. SUFFICES ASSUME k + 1 <= n PROVE f[k + 1] = g[k + 1]
    BY <1>2
  <2>1. /\ k <= n /\ k + 1 \in 1 .. n /\ (k + 1) - 1 = k
        /\ k + 1 \in 1 .. Len(ss) /\ k + 1 \in 1 .. Len(tt)
    BY DEF Agree
  <2>2. f[k] = g[k]
    BY <1>2, <2>1
  <2>3. f[k + 1] = f[k] \o ss[k + 1] /\ g[k + 1] = g[k] \o tt[k + 1]
    BY <2>1 DEF Table
  <2>. QED BY <2>1, <2>2, <2>3 DEF Agree
<1>. HIDE DEF T
<1>3. T = Nat
  BY <1>1, <1>2, Induction DEF T
<1>. QED BY <1>3 DEF T

(* FlattenSeq is the last entry of the table.                              *)
LEMMA Flattened ==
  ASSUME NEW S, NEW ss \in Seq(Seq(S))
  PROVE  \E f : /\ f \in [0 .. Len(ss) -> Seq(S)]
                /\ Table(ss, f) /\ FlattenSeq(ss) = f[Len(ss)]
<1>1. PICK f \in [0 .. Len(ss) -> Seq(S)] : Table(ss, f)
  BY TableExists
<1>2. CASE Len(ss) = 0
  <2>1. ss = << >>
    BY <1>2
  <2>2. FlattenSeq(ss) = ss
    BY <1>2 DEF FlattenSeq
  <2>. QED BY <1>1, <1>2, <2>1, <2>2 DEF Table
<1>3. CASE Len(ss) # 0
  <2>. DEFINE n == Len(ss)
              Step(h) == [i \in 1 .. n |-> IF i = 1 THEN ss[i] ELSE h[i - 1] \o ss[i]]
              g == CHOOSE h : h = Step(h)
              r == [i \in 1 .. n |-> f[i]]
  <2>1. FlattenSeq(ss) = g[n]
    BY <1>3 DEF FlattenSeq
  <2>2. n \in Nat \ {0}
    BY <1>3
  <2>3. f[0] = << >> /\ \A i \in 1 .. n : f[i] = f[i - 1] \o ss[i]
    BY <1>1 DEF Table
  <2>4. << >> \o ss[1] = ss[1]
    <3>1. ss[1] \in Seq(S)
      BY <1>3
    <3>. QED BY <3>1
  <2>. HIDE DEF n
  <2>5. \A i \in 1 .. n : i # 1 => i - 1 \in 1 .. n
    BY <2>2
  <2>6. f[1] = ss[1]
    <3>1. 1 \in 1 .. n /\ 1 - 1 = 0
      BY <2>2
    <3>2. f[1] = f[0] \o ss[1]
      BY <2>3, <3>1
    <3>. QED BY <2>3, <2>4, <3>2
  <2>7. r = Step(r)
    <3>1. ASSUME NEW i \in 1 .. n
          PROVE  r[i] = IF i = 1 THEN ss[i] ELSE r[i - 1] \o ss[i]
      BY <2>3, <2>5, <2>6
    <3>. QED BY <3>1
  <2>8. g = Step(g)
    BY <2>7
  <2>. HIDE DEF g
  <2>. DEFINE h == [i \in 0 .. n |-> IF i = 0 THEN << >> ELSE g[i]]
  <2>9. h[0] = << >> /\ \A i \in 1 .. n : h[i] = g[i]
    BY <2>2
  <2>10. DOMAIN h = 0 .. n
    OBVIOUS
  <2>. HIDE DEF h
  <2>11. Table(ss, h)
    <3>1. \A i \in 1 .. n : g[i] = IF i = 1 THEN ss[i] ELSE g[i - 1] \o ss[i]
      BY <2>8
    <3>2. ASSUME NEW i \in 1 .. n PROVE h[i] = h[i - 1] \o ss[i]
      <4>1. CASE i = 1
        <5>1. h[1] = ss[1] /\ 1 - 1 = 0
          BY <2>9, <3>1, <4>1
        <5>. QED BY <2>4, <2>9, <4>1, <5>1
      <4>2. CASE i # 1
        BY <2>5, <2>9, <3>1, <4>2
      <4>. QED BY <4>1, <4>2
    <3>. QED BY <2>9, <2>10, <3>2 DEF Table, n
  <2>12. h[n] = f[n]
    <3>1. Agree(ss, ss, n)
      BY <2>2 DEF Agree, n
    <3>. QED BY <1>1, <2>2, <2>11, <3>1, TablesAgree DEF n
  <2>13. h[n] = g[n]
    BY <2>2, <2>9
  <2>. QED BY <1>1, <2>1, <2>12, <2>13 DEF n
<1>. QED BY <1>2, <1>3

(* The concatenation of one sequence more.                                 *)
LEMMA FlattenLast ==
  ASSUME NEW S, NEW ss \in Seq(Seq(S)), NEW rr \in Seq(Seq(S)),
         Len(ss) = Len(rr) + 1, \A i \in 1 .. Len(rr) : rr[i] = ss[i]
  PROVE  /\ FlattenSeq(ss) = FlattenSeq(rr) \o ss[Len(ss)]
         /\ FlattenSeq(rr) \in Seq(S)
<1>1. PICK f : /\ f \in [0 .. Len(ss) -> Seq(S)]
               /\ Table(ss, f) /\ FlattenSeq(ss) = f[Len(ss)]
  BY Flattened
<1>2. PICK g : /\ g \in [0 .. Len(rr) -> Seq(S)]
               /\ Table(rr, g) /\ FlattenSeq(rr) = g[Len(rr)]
  BY Flattened
<1>3. PICK n \in Nat : n = Len(rr) /\ Len(ss) = n + 1
  <2>1. Len(rr) \in Nat
    OBVIOUS
  <2>. QED BY <2>1
<1>4. Agree(ss, rr, n)
  BY <1>3 DEF Agree
<1>5. Table(ss, f) /\ Table(rr, g) /\ Len(ss) \in Nat /\ Len(rr) \in Nat
  BY <1>1, <1>2
<1>6. f[n] = g[n]
  BY <1>4, <1>5, TablesAgree
<1>7. f[n + 1] = f[n] \o ss[n + 1]
  <2>1. n + 1 \in 1 .. Len(ss) /\ (n + 1) - 1 = n
    BY <1>3
  <2>2. f[n + 1] = f[(n + 1) - 1] \o ss[n + 1]
    BY <1>5, <2>1 DEF Table
  <2>. QED BY <2>1, <2>2
<1>8. g[n] \in Seq(S)
  <2>1. n \in 0 .. Len(rr)
    BY <1>3
  <2>. QED BY <1>2, <2>1
<1>. QED BY <1>1, <1>2, <1>3, <1>6, <1>7, <1>8

LEMMA ConcatParts ==
  ASSUME NEW S, NEW s \in Seq(S), NEW t \in Seq(S)
  PROVE  /\ s \o t \in Seq(S) /\ Len(s \o t) = Len(s) + Len(t)
         /\ \A i \in 1 .. Len(s) : (s \o t)[i] = s[i]
         /\ \A i \in 1 .. Len(t) : (s \o t)[Len(s) + i] = t[i]
OBVIOUS

(* What is concatenated first stays where it is.                           *)
Growing(f, n) ==
  \A m \in 0 .. n : \A k \in m .. n :
    /\ Len(f[m]) <= Len(f[k])
    /\ \A p \in 1 .. Len(f[m]) : f[k][p] = f[m][p]

LEMMA TableGrows ==
  ASSUME NEW S, NEW ss \in Seq(Seq(S)), NEW f,
         f \in [0 .. Len(ss) -> Seq(S)], Table(ss, f)
  PROVE  Growing(f, Len(ss))
<1>. SUFFICES ASSUME NEW m \in 0 .. Len(ss), NEW n \in m .. Len(ss)
              PROVE  /\ Len(f[m]) <= Len(f[n])
                     /\ \A p \in 1 .. Len(f[m]) : f[n][p] = f[m][p]
  BY DEF Growing
<1>. DEFINE Grown(k) == /\ Len(f[m]) <= Len(f[m + k])
                        /\ \A p \in 1 .. Len(f[m]) : f[m + k][p] = f[m][p]
            T == {k \in Nat : m + k <= Len(ss) => Grown(k)}
<1>0. Len(ss) \in Nat /\ m \in Nat /\ n \in Nat /\ m <= n /\ n <= Len(ss)
  <2>1. Len(ss) \in Nat
    OBVIOUS
  <2>. QED BY <2>1
<1>1. 0 \in T
  <2>1. m + 0 = m
    BY <1>0
  <2>2. f[m] \in Seq(S)
    OBVIOUS
  <2>. QED BY <2>1, <2>2
<1>2. ASSUME NEW k \in T PROVE k + 1 \in T
  <2>. SUFFICES ASSUME m + (k + 1) <= Len(ss) PROVE Grown(k + 1)
    BY <1>2
  <2>1. /\ m + k <= Len(ss) /\ m + k \in 0 .. Len(ss) /\ m \in Nat
        /\ m + (k + 1) \in 1 .. Len(ss) /\ (m + (k + 1)) - 1 = m + k
    BY <1>0
  <2>2. Grown(k)
    BY <1>2, <2>1
  <2>3. f[m + (k + 1)] = f[m + k] \o ss[m + (k + 1)]
    BY <2>1 DEF Table
  <2>4. f[m] \in Seq(S) /\ f[m + k] \in Seq(S) /\ ss[m + (k + 1)] \in Seq(S)
    <3>1. \A i \in 1 .. Len(ss) : ss[i] \in Seq(S)
      OBVIOUS
    <3>. QED BY <2>1, <3>1
  <2>5. PICK x \in Seq(S), y \in Seq(S), z \in Seq(S) :
          x = f[m] /\ y = f[m + k] /\ z = ss[m + (k + 1)]
    BY <2>4
  <2>6. Len(x) <= Len(y) /\ \A p \in 1 .. Len(x) : y[p] = x[p]
    BY <2>2, <2>5
  <2>7. Len(y \o z) = Len(y) + Len(z) /\ \A i \in 1 .. Len(y) : (y \o z)[i] = y[i]
    BY ConcatParts
  <2>8. Len(x) <= Len(y \o z) /\ \A p \in 1 .. Len(x) : (y \o z)[p] = x[p]
    BY <2>6, <2>7
  <2>. QED BY <2>3, <2>5, <2>8
<1>. HIDE DEF T
<1>3. T = Nat
  BY <1>1, <1>2, Induction DEF T
<1>4. PICK k \in Nat : n = m + k
  <2>1. n - m \in Nat /\ n = m + (n - m)
    BY <1>0
  <2>. QED BY <2>1
<1>5. Grown(k)
  <2>1. k \in T
    BY <1>3
  <2>2. m + k <= Len(ss)
    BY <1>0, <1>4
  <2>. HIDE DEF Grown
  <2>. QED BY <2>1, <2>2 DEF T
<1>. QED BY <1>4, <1>5

-----------------------------------------------------------------------------
(* Sequences of at most one element each: what is concatenated.            *)
Single(ss) ==
  \A i \in 1 .. Len(ss) : ss[i] = << >> \/ \E x : ss[i] = <<x>>

(* The p-th element of s is that of the b[p]-th sequence, and each of the  *)
(* first k sequences with an element is one of these.                      *)
Picks(ss, s, k, b) ==
  /\ b \in [1 .. Len(s) -> 1 .. k]
  /\ \A p \in 1 .. Len(s) : ss[b[p]] = << s[p] >>
  /\ \A p, q \in 1 .. Len(s) : b[p] = b[q] => p = q
  /\ \A i \in 1 .. k : ss[i] # << >> => \E p \in 1 .. Len(s) : b[p] = i

LEMMA PickEmpty ==
  ASSUME NEW ss, NEW s, NEW k \in Nat, NEW b, Picks(ss, s, k, b), ss[k + 1] = << >>
  PROVE  Picks(ss, s, k + 1, b)
BY DEF Picks

LEMMA PickOne ==
  ASSUME NEW S, NEW ss, NEW s \in Seq(S), NEW k \in Nat, NEW b, Picks(ss, s, k, b),
         NEW e, ss[k + 1] = <<e>>, NEW z \in Seq(S), Len(z) = Len(s) + 1,
         \A p \in 1 .. Len(s) : z[p] = s[p], z[Len(s) + 1] = e
  PROVE  \E c : Picks(ss, z, k + 1, c)
<1>1. PICK n \in Nat : n = Len(s) /\ Len(z) = n + 1
  <2>1. Len(s) \in Nat
    OBVIOUS
  <2>. QED BY <2>1
<1>. DEFINE c == [p \in 1 .. (n + 1) |-> IF p = n + 1 THEN k + 1 ELSE b[p]]
<1>2. /\ b \in [1 .. n -> 1 .. k]
      /\ \A p \in 1 .. n : ss[b[p]] = << s[p] >>
      /\ \A p, q \in 1 .. n : b[p] = b[q] => p = q
      /\ \A i \in 1 .. k : ss[i] # << >> => \E p \in 1 .. n : b[p] = i
  BY <1>1 DEF Picks
<1>3. /\ c[n + 1] = k + 1 /\ DOMAIN c = 1 .. (n + 1)
      /\ \A p \in 1 .. n : c[p] = b[p] /\ b[p] \in 1 .. k
  BY <1>2
<1>4. c \in [1 .. (n + 1) -> 1 .. (k + 1)]
  BY <1>2
<1>. HIDE DEF c
<1>5. \A p \in 1 .. (n + 1) : p \in 1 .. n \/ p = n + 1
  OBVIOUS
<1>6. \A p \in 1 .. (n + 1) : ss[c[p]] = << z[p] >>
  <2>1. \A p \in 1 .. n : ss[c[p]] = << z[p] >>
    BY <1>1, <1>2, <1>3
  <2>2. ss[c[n + 1]] = << z[n + 1] >>
    BY <1>1, <1>3
  <2>. QED BY <1>5, <2>1, <2>2
<1>7. ASSUME NEW p \in 1 .. (n + 1), NEW q \in 1 .. (n + 1), c[p] = c[q] PROVE p = q
  <2>1. \A r \in 1 .. n : c[r] # k + 1
    BY <1>3
  <2>2. CASE p \in 1 .. n /\ q \in 1 .. n
    BY <1>2, <1>3, <1>7, <2>2
  <2>3. CASE p = n + 1 \/ q = n + 1
    BY <1>3, <1>5, <1>7, <2>1, <2>3
  <2>. QED BY <1>5, <2>2, <2>3
<1>8. ASSUME NEW i \in 1 .. (k + 1), ss[i] # << >>
      PROVE  \E p \in 1 .. (n + 1) : c[p] = i
  <2>1. i \in 1 .. k \/ i = k + 1
    OBVIOUS
  <2>2. CASE i \in 1 .. k
    <3>1. PICK p \in 1 .. n : b[p] = i
      BY <1>2, <1>8, <2>2
    <3>2. p \in 1 .. (n + 1) /\ c[p] = i
      BY <1>3, <3>1
    <3>. QED BY <3>2
  <2>3. CASE i = k + 1
    <3>1. n + 1 \in 1 .. (n + 1)
      OBVIOUS
    <3>. QED BY <1>3, <2>3, <3>1
  <2>. QED BY <2>1, <2>2, <2>3
<1>. QED BY <1>1, <1>4, <1>6, <1>7, <1>8 DEF Picks

LEMMA FlattenElements ==
  ASSUME NEW S, NEW ss \in Seq(Seq(S)), Single(ss)
  PROVE  /\ FlattenSeq(ss) \in Seq(S)
         /\ \E b : Picks(ss, FlattenSeq(ss), Len(ss), b)
<1>1. PICK f : /\ f \in [0 .. Len(ss) -> Seq(S)]
               /\ Table(ss, f) /\ FlattenSeq(ss) = f[Len(ss)]
  BY Flattened
<1>2. PICK m \in Nat : m = Len(ss)
  <2>1. Len(ss) \in Nat
    OBVIOUS
  <2>. QED BY <2>1
<1>3. \A k \in 0 .. m : f[k] \in Seq(S)
  BY <1>1, <1>2
<1>. DEFINE Good(k) == \E b : Picks(ss, f[k], k, b)
            T == {k \in Nat : k <= m => Good(k)}
<1>4. 0 \in T
  <2>1. f[0] = << >> /\ Len(<< >>) = 0
    BY <1>1 DEF Table
  <2>2. Picks(ss, << >>, 0, << >>)
    BY <2>1 DEF Picks
  <2>. QED BY <2>1, <2>2
<1>5. ASSUME NEW k \in T, k + 1 <= m PROVE Good(k + 1)
  <2>1. k \in 0 .. m /\ k + 1 \in 1 .. m /\ (k + 1) - 1 = k /\ k <= m
    BY <1>2, <1>5
  <2>2. f[k] \in Seq(S) /\ \E b : Picks(ss, f[k], k, b)
    BY <1>3, <1>5, <2>1
  <2>3. f[k + 1] = f[k] \o ss[k + 1]
    <3>1. f[k + 1] = f[(k + 1) - 1] \o ss[k + 1]
      BY <1>1, <1>2, <2>1 DEF Table
    <3>. QED BY <2>1, <3>1
  <2>4. ss[k + 1] \in Seq(S) /\ (ss[k + 1] = << >> \/ \E e : ss[k + 1] = <<e>>)
    BY <1>2, <2>1 DEF Single
  <2>5. PICK x \in Seq(S), y \in Seq(S) : x = f[k] /\ y = ss[k + 1]
    BY <2>2, <2>4
  <2>6. PICK b : Picks(ss, x, k, b)
    BY <2>2, <2>5
  <2>7. CASE y = << >>
    <3>1. f[k + 1] = x
      <4>1. x \o << >> = x
        OBVIOUS
      <4>. QED BY <2>3, <2>5, <2>7, <4>1
    <3>. QED BY <2>5, <2>6, <2>7, <3>1, PickEmpty
  <2>8. CASE y # << >>
    <3>1. PICK e : y = <<e>>
      BY <2>4, <2>5, <2>8
    <3>2. Len(y) = 1 /\ y[1] = e
      BY <3>1
    <3>3. PICK z \in Seq(S) : z = x \o y
      BY ConcatParts
    <3>4. /\ Len(z) = Len(x) + 1
          /\ \A p \in 1 .. Len(x) : z[p] = x[p]
          /\ z[Len(x) + 1] = e
      <4>1. /\ Len(z) = Len(x) + Len(y)
            /\ \A p \in 1 .. Len(x) : z[p] = x[p]
            /\ \A p \in 1 .. Len(y) : z[Len(x) + p] = y[p]
        BY <3>3, ConcatParts
      <4>2. 1 \in 1 .. Len(y)
        BY <3>2
      <4>. QED BY <3>2, <4>1, <4>2
    <3>5. ss[k + 1] = <<e>>
      BY <2>5, <3>1
    <3>6. \E c : Picks(ss, z, k + 1, c)
      BY <2>6, <3>4, <3>5, PickOne
    <3>. QED BY <2>3, <2>5, <3>3, <3>6
  <2>. QED BY <2>7, <2>8
<1>6. ASSUME NEW k \in T PROVE k + 1 \in T
  <2>1. k + 1 <= m => Good(k + 1)
    BY <1>5
  <2>. HIDE DEF Good
  <2>. QED BY <2>1
<1>. HIDE DEF T, Good
<1>7. T = Nat
  BY <1>4, <1>6, Induction DEF T
<1>8. Good(m)
  BY <1>7 DEF T
<1>9. f[m] \in Seq(S)
  BY <1>2, <1>3
<1>. QED BY <1>1, <1>2, <1>8, <1>9 DEF Good

-----------------------------------------------------------------------------
(* What the parser takes for a row. *)

(* What a blank is, among the tokens.                                      *)
LEMMA BlankTokens ==
  ASSUME NEW x
  PROVE  /\ ~ Blank(Name(x)) /\ ~ Blank(Number(x)) /\ ~ Blank(Word(x))
         /\ ~ Blank(Hash) /\ ~ Blank(Throughput) /\ Blank(Tab) /\ Blank(Space)
BY DEF Blank, Name, Number, Word, Hash, Throughput, Tab, Space

(* A token between blanks is a word.                                       *)
LEMMA WordOfOne ==
  ASSUME NEW line \in Seq(Token), NEW k \in 1 .. Len(line), BeginsWord(line, k),
         k = Len(line) \/ Blank(line[k + 1])
  PROVE  WordAt(line, k) = << <<line[k]>> >>
<1>. DEFINE Ends(m) == /\ \A j \in k .. m : ~ Blank(line[j])
                       /\ m = Len(line) \/ Blank(line[m + 1])
<1>0. Len(line) \in Nat
  OBVIOUS
<1>1. k \in k .. Len(line) /\ \A j \in k .. k : j = k
  BY <1>0
<1>2. Ends(k)
  BY <1>1 DEF BeginsWord
<1>3. ASSUME NEW m \in k .. Len(line), Ends(m) PROVE m = k
  <2>1. m # k => k + 1 \in k .. m /\ k # Len(line)
    BY <1>0
  <2>. QED BY <1>3, <2>1
<1>4. WordEnd(line, k) = CHOOSE m \in k .. Len(line) : Ends(m)
  BY DEF WordEnd
<1>. HIDE DEF Ends
<1>5. WordEnd(line, k) = k
  BY <1>1, <1>2, <1>3, <1>4
<1>6. SubSeq(line, k, k) = <<line[k]>>
  <2>1. /\ SubSeq(line, k, k) \in Seq(Token)
        /\ Len(SubSeq(line, k, k)) = k - k + 1
        /\ \A j \in 1 .. (k - k + 1) : SubSeq(line, k, k)[j] = line[k + j - 1]
    BY SubSeqProperties
  <2>2. k - k + 1 = 1 /\ k + 1 - 1 = k /\ 1 \in 1 .. 1
    BY <1>0
  <2>3. PICK s \in Seq(Token) : s = SubSeq(line, k, k)
    BY <2>1
  <2>4. Len(s) = 1 /\ s[1] = line[k]
    BY <2>1, <2>2, <2>3
  <2>5. s = <<line[k]>>
    BY <2>4
  <2>. QED BY <2>3, <2>5
<1>. QED BY <1>5, <1>6 DEF WordAt

(* No word begins at a blank.                                              *)
LEMMA NoWordAtBlank ==
  ASSUME NEW line, NEW k, Blank(line[k])
  PROVE  WordAt(line, k) = << >>
BY DEF WordAt, BeginsWord

(* f[i] are the words that begin up to the i-th token.                     *)
WordTable(line, S, f) ==
  /\ f \in [0 .. Len(line) -> Seq(S)] /\ f[0] = << >>
  /\ \A i \in 1 .. Len(line) :
       WordAt(line, i) \in Seq(S) /\ f[i] = f[i - 1] \o WordAt(line, i)
  /\ Words(line) = f[Len(line)]
  /\ Growing(f, Len(line))

(* There is such a table for every line.                                   *)
LEMMA WordTableExists ==
  ASSUME NEW line \in Seq(Token)
  PROVE  \E S, f : WordTable(line, S, f)
<1>. DEFINE W(k) == SubSeq(line, k, WordEnd(line, k))
            S == {W(k) : k \in DOMAIN line}
            ss == [k \in DOMAIN line |-> WordAt(line, k)]
<1>1. ASSUME NEW k \in DOMAIN line PROVE WordAt(line, k) \in Seq(S)
  <2>1. WordAt(line, k) = << W(k) >> \/ WordAt(line, k) = << >>
    BY DEF WordAt
  <2>2. PICK w \in S : w = W(k)
    OBVIOUS
  <2>. HIDE DEF S, W
  <2>3. << w >> \in Seq(S) /\ << >> \in Seq(S)
    OBVIOUS
  <2>. QED BY <2>1, <2>2, <2>3
<1>. HIDE DEF S
<1>2. /\ DOMAIN line = 1 .. Len(line) /\ Len(line) \in Nat
  OBVIOUS
<1>3. /\ ss \in Seq(Seq(S)) /\ Len(ss) = Len(line)
      /\ \A k \in 1 .. Len(line) : ss[k] = WordAt(line, k)
  BY <1>1, <1>2
<1>4. Words(line) = FlattenSeq(ss)
  BY DEF Words
<1>. HIDE DEF ss
<1>5. PICK f : /\ f \in [0 .. Len(ss) -> Seq(S)]
               /\ Table(ss, f) /\ FlattenSeq(ss) = f[Len(ss)]
  BY <1>3, Flattened
<1>6. Growing(f, Len(ss))
  BY <1>3, <1>5, TableGrows
<1>7. /\ f \in [0 .. Len(line) -> Seq(S)] /\ f[0] = << >>
      /\ \A i \in 1 .. Len(line) :
           WordAt(line, i) \in Seq(S) /\ f[i] = f[i - 1] \o WordAt(line, i)
      /\ Words(line) = f[Len(line)]
  BY <1>1, <1>2, <1>3, <1>4, <1>5 DEF Table
<1>8. WordTable(line, S, f)
  BY <1>3, <1>6, <1>7 DEF WordTable
<1>. QED BY <1>8

(* What one more token does to the words.                                  *)
LEMMA WordTableStep ==
  ASSUME NEW line \in Seq(Token), NEW S, NEW f, WordTable(line, S, f),
         NEW i \in 1 .. Len(line)
  PROVE  /\ f[i - 1] \in Seq(S) /\ f[i] \in Seq(S)
         /\ Blank(line[i]) => f[i] = f[i - 1]
         /\ Len(f[i]) <= Len(f[i - 1]) + 1
         /\ BeginsWord(line, i) => Len(f[i]) = Len(f[i - 1]) + 1
         /\ BeginsWord(line, i) /\ (i = Len(line) \/ Blank(line[i + 1])) =>
              f[i] = Append(f[i - 1], <<line[i]>>)
<1>1. i \in 0 .. Len(line) /\ i - 1 \in 0 .. Len(line)
  <2>1. Len(line) \in Nat
    OBVIOUS
  <2>. QED BY <2>1
<1>2. f[i - 1] \in Seq(S) /\ f[i] \in Seq(S)
  BY <1>1 DEF WordTable
<1>3. WordAt(line, i) \in Seq(S) /\ f[i] = f[i - 1] \o WordAt(line, i)
  BY DEF WordTable
<1>4. PICK x \in Seq(S), w \in Seq(S) : x = f[i - 1] /\ w = WordAt(line, i)
  BY <1>2, <1>3
<1>5. /\ Len(x \o w) = Len(x) + Len(w) /\ Len(x) \in Nat /\ Len(w) \in Nat
  BY ConcatParts
<1>6. /\ Len(w) <= 1
      /\ BeginsWord(line, i) => Len(w) = 1
  BY <1>4 DEF WordAt
<1>7. Blank(line[i]) => f[i] = f[i - 1]
  <2>1. x \o << >> = x
    OBVIOUS
  <2>. QED BY <1>3, <1>4, <2>1, NoWordAtBlank
<1>8. BeginsWord(line, i) /\ (i = Len(line) \/ Blank(line[i + 1])) =>
        f[i] = Append(f[i - 1], <<line[i]>>)
  <2>. SUFFICES ASSUME BeginsWord(line, i), i = Len(line) \/ Blank(line[i + 1])
                PROVE  f[i] = Append(f[i - 1], <<line[i]>>)
    OBVIOUS
  <2>1. w = << <<line[i]>> >>
    BY <1>4, WordOfOne
  <2>2. \A e : e \in S /\ w = <<e>> => x \o w = Append(x, e)
    OBVIOUS
  <2>3. <<line[i]>> \in S
    <3>1. w[1] \in S
      BY <2>1
    <3>. QED BY <2>1, <3>1
  <2>. QED BY <1>3, <1>4, <2>1, <2>2, <2>3
<1>9. Len(f[i]) = Len(f[i - 1]) + Len(w)
  BY <1>3, <1>4, <1>5
<1>10. /\ Len(f[i]) <= Len(f[i - 1]) + 1
       /\ BeginsWord(line, i) => Len(f[i]) = Len(f[i - 1]) + 1
  <2>1. PICK a \in Nat : a = Len(f[i - 1])
    BY <1>4, <1>5
  <2>2. PICK b \in Nat : b = Len(w)
    BY <1>5
  <2>3. Len(f[i]) = a + b
    BY <1>9, <2>1, <2>2
  <2>4. b <= 1 /\ (BeginsWord(line, i) => b = 1)
    BY <1>6, <2>2
  <2>5. a + b <= a + 1 /\ (BeginsWord(line, i) => a + b = a + 1)
    BY <2>4
  <2>. QED BY <2>1, <2>3, <2>5
<1>. QED BY <1>2, <1>7, <1>8, <1>10

(* The words of a line, one token after the other.                         *)
Splits(line, f, m) ==
  \A i \in 1 .. m :
    /\ Blank(line[i]) => f[i] = f[i - 1]
    /\ Len(f[i]) <= Len(f[i - 1]) + 1
    /\ BeginsWord(line, i) => Len(f[i]) = Len(f[i - 1]) + 1
    /\ BeginsWord(line, i) /\ (i = Len(line) \/ Blank(line[i + 1])) =>
         f[i] = Append(f[i - 1], <<line[i]>>)

(* The same, for a line whose length is at hand.                           *)
LEMMA WordsOf ==
  ASSUME NEW line \in Seq(Token), NEW m \in Nat, m = Len(line)
  PROVE  \E S, f :
           /\ \A i \in 0 .. m : f[i] \in Seq(S) /\ Len(f[i]) \in Nat
           /\ f[0] = << >> /\ Words(line) = f[m]
           /\ Growing(f, m) /\ Splits(line, f, m)
<1>1. PICK S, f : WordTable(line, S, f)
  BY WordTableExists
<1>2. /\ f \in [0 .. m -> Seq(S)]
      /\ f[0] = << >> /\ Words(line) = f[m] /\ Growing(f, m)
  BY <1>1 DEF WordTable
<1>3. ASSUME NEW i \in 1 .. Len(line)
      PROVE  /\ Blank(line[i]) => f[i] = f[i - 1]
             /\ Len(f[i]) <= Len(f[i - 1]) + 1
             /\ BeginsWord(line, i) => Len(f[i]) = Len(f[i - 1]) + 1
             /\ BeginsWord(line, i) /\ (i = Len(line) \/ Blank(line[i + 1])) =>
                  f[i] = Append(f[i - 1], <<line[i]>>)
  BY <1>1, WordTableStep
<1>4. Splits(line, f, m)
  BY <1>3 DEF Splits
<1>5. \A i \in 0 .. m : f[i] \in Seq(S) /\ Len(f[i]) \in Nat
  BY <1>2
<1>. QED BY <1>2, <1>4, <1>5

(* A line is a row when it is a result line as a whole, and not before.    *)
LEMMA CompleteIsRow ==
  ASSUME NEW line \in Seq(Token), NEW t \in Target, NEW n \in Nat,
         LineBegins(line, t, n, 1)
  PROVE  /\ IsRow(line)
         /\ Row(line) = [engine |-> <<Name(t[1])>>, path |-> <<Name(t[2])>>,
                         threads |-> <<Number(n)>>]
<1>1. /\ Len(line) = 7
      /\ line[1] = Name(t[1]) /\ line[2] = Tab /\ line[3] = Name(t[2])
      /\ line[4] = Tab /\ line[5] = Number(n) /\ line[6] = Tab
      /\ line[7] = Throughput
  BY DEF LineBegins
<1>2. /\ BeginsWord(line, 1) /\ Blank(line[2]) /\ BeginsWord(line, 3)
      /\ Blank(line[4]) /\ BeginsWord(line, 5) /\ Blank(line[6]) /\ BeginsWord(line, 7)
  BY <1>1, BlankTokens DEF BeginsWord
<1>3. PICK S, f :
        /\ \A i \in 0 .. 7 : f[i] \in Seq(S) /\ Len(f[i]) \in Nat
        /\ f[0] = << >> /\ Words(line) = f[7] /\ Splits(line, f, 7)
  BY <1>1, WordsOf
<1>4. /\ f[1] = Append(f[0], <<Name(t[1])>>)
      /\ f[3] = Append(f[2], <<Name(t[2])>>)
      /\ f[5] = Append(f[4], <<Number(n)>>)
      /\ f[7] = Append(f[6], <<Throughput>>)
  <2>1. \A i \in 1 .. 7 :
          BeginsWord(line, i) /\ (i = 7 \/ Blank(line[i + 1])) =>
            f[i] = Append(f[i - 1], <<line[i]>>)
    BY <1>1, <1>3 DEF Splits
  <2>2. f[1] = Append(f[0], <<line[1]>>)
    <3>1. 1 \in 1 .. 7 /\ 1 - 1 = 0 /\ 1 + 1 = 2
      OBVIOUS
    <3>. QED BY <1>2, <2>1, <3>1
  <2>3. f[3] = Append(f[2], <<line[3]>>)
    <3>1. 3 \in 1 .. 7 /\ 3 - 1 = 2 /\ 3 + 1 = 4
      OBVIOUS
    <3>. QED BY <1>2, <2>1, <3>1
  <2>4. f[5] = Append(f[4], <<line[5]>>)
    <3>1. 5 \in 1 .. 7 /\ 5 - 1 = 4 /\ 5 + 1 = 6
      OBVIOUS
    <3>. QED BY <1>2, <2>1, <3>1
  <2>5. f[7] = Append(f[6], <<line[7]>>)
    <3>1. 7 \in 1 .. 7 /\ 7 - 1 = 6
      OBVIOUS
    <3>. QED BY <1>2, <2>1, <3>1
  <2>. QED BY <1>1, <2>2, <2>3, <2>4, <2>5
<1>5. f[2] = f[1] /\ f[4] = f[3] /\ f[6] = f[5]
  <2>1. \A i \in 1 .. 7 : Blank(line[i]) => f[i] = f[i - 1]
    BY <1>3 DEF Splits
  <2>2. /\ 2 \in 1 .. 7 /\ 4 \in 1 .. 7 /\ 6 \in 1 .. 7
        /\ 2 - 1 = 1 /\ 4 - 1 = 3 /\ 6 - 1 = 5
    OBVIOUS
  <2>. QED BY <1>2, <2>1, <2>2
<1>7. PICK words : words = Words(line)
  OBVIOUS
<1>8. f[1] \in Seq(S) /\ f[3] \in Seq(S) /\ f[5] \in Seq(S)
  <2>1. 1 \in 0 .. 7 /\ 3 \in 0 .. 7 /\ 5 \in 0 .. 7
    OBVIOUS
  <2>. QED BY <1>3, <2>1
<1>9. /\ Len(words) = 4 /\ words[1] = <<Name(t[1])>> /\ words[2] = <<Name(t[2])>>
      /\ words[3] = <<Number(n)>> /\ words[4] = <<Throughput>>
  <2>1. PICK a, b, c, d : /\ a = <<Name(t[1])>> /\ b = <<Name(t[2])>>
                          /\ c = <<Number(n)>> /\ d = <<Throughput>>
    OBVIOUS
  <2>2. PICK x \in Seq(S) : x = f[1]
    BY <1>8
  <2>3. PICK y \in Seq(S) : y = f[3]
    BY <1>8
  <2>4. PICK z \in Seq(S) : z = f[5]
    BY <1>8
  <2>5. \A u : Append(<< >>, u) = <<u>>
    OBVIOUS
  <2>6. x = Append(<< >>, a) /\ y = Append(x, b) /\ z = Append(y, c) /\ words = Append(z, d)
    BY <1>3, <1>4, <1>5, <1>7, <2>1, <2>2, <2>3, <2>4, <2>5
  <2>7. Len(x) = 1 /\ x[1] = a
    BY <2>5, <2>6
  <2>8. Len(y) = 2 /\ y[1] = a /\ y[2] = b
    BY <2>6, <2>7
  <2>9. Len(z) = 3 /\ z[1] = a /\ z[2] = b /\ z[3] = c
    BY <2>6, <2>8
  <2>10. Len(words) = 4 /\ words[1] = a /\ words[2] = b /\ words[3] = c /\ words[4] = d
    BY <2>6, <2>9
  <2>. QED BY <2>1, <2>10
<1>10. IsInt(<<Number(n)>>) /\ IsFloat(<<Throughput>>)
  BY DEF IsInt, IsFloat, Number, Throughput
<1>11. line # << >> /\ line[1] # Hash
  <2>1. Name(t[1]) # Hash
    BY DEF Name, Hash
  <2>2. Len(<< >>) = 0
    OBVIOUS
  <2>3. line # << >>
    BY <1>1, <2>2
  <2>. QED BY <1>1, <2>1, <2>3
<1>. QED BY <1>7, <1>9, <1>10, <1>11 DEF IsRow, Row

(* A part of a result line has too few words.                              *)
LEMMA PartIsNoRow ==
  ASSUME NEW line \in Seq(Token), NEW t \in Target, NEW n \in Nat,
         NEW c \in 2 .. 8, LineBegins(line, t, n, c)
  PROVE  ~ IsRow(line)
<1>1. PICK m \in 0 .. 6 : m = Len(line) /\ m = 8 - c
  <2>1. 8 - c \in 0 .. 6
    OBVIOUS
  <2>. QED BY <2>1 DEF LineBegins
<1>2. PICK S, f :
        /\ \A i \in 0 .. m : f[i] \in Seq(S) /\ Len(f[i]) \in Nat
        /\ f[0] = << >> /\ Words(line) = f[m] /\ Splits(line, f, m)
  <2>1. m \in Nat
    OBVIOUS
  <2>. QED BY <1>1, <2>1, WordsOf
<1>3. \A i \in 1 .. m : i \in {2, 4, 6} => Blank(line[i])
  BY <1>1, BlankTokens DEF LineBegins
<1>. DEFINE g == [i \in 0 .. m |-> Len(f[i])]
<1>4. g \in [0 .. m -> Nat] /\ g[0] = 0
  BY <1>2
<1>5. \A i \in 1 .. m :
        g[i] <= g[i - 1] + 1 /\ (i \in {2, 4, 6} => g[i] = g[i - 1])
  <2>1. \A i \in 1 .. m : i \in 0 .. m /\ i - 1 \in 0 .. m
    OBVIOUS
  <2>2. \A i \in 1 .. m : g[i] = Len(f[i]) /\ g[i - 1] = Len(f[i - 1])
    BY <2>1
  <2>. QED BY <1>2, <1>3, <2>2 DEF Splits
<1>6. Len(Words(line)) = g[m]
  BY <1>2
<1>. HIDE DEF g
<1>7. 1 <= m => g[1] <= 1
  BY <1>4, <1>5
<1>8. 2 <= m => g[2] <= 1
  BY <1>4, <1>5, <1>7
<1>9. 3 <= m => g[3] <= 2
  BY <1>4, <1>5, <1>8
<1>10. 4 <= m => g[4] <= 2
  BY <1>4, <1>5, <1>9
<1>11. 5 <= m => g[5] <= 3
  BY <1>4, <1>5, <1>10
<1>12. 6 <= m => g[6] <= 3
  BY <1>4, <1>5, <1>11
<1>13. g[m] # 4
  <2>1. m = 0 \/ m = 1 \/ m = 2 \/ m = 3 \/ m = 4 \/ m = 5 \/ m = 6
    OBVIOUS
  <2>2. m = 0 => g[m] = 0
    BY <1>4
  <2>3. PICK x \in Nat : x = g[m]
    BY <1>4
  <2>4. (m = 1 => x <= 1) /\ (m = 2 => x <= 1) /\ (m = 3 => x <= 2)
    BY <1>7, <1>8, <1>9, <2>3
  <2>5. (m = 4 => x <= 2) /\ (m = 5 => x <= 3) /\ (m = 6 => x <= 3)
    BY <1>10, <1>11, <1>12, <2>3
  <2>6. x <= 3
    BY <2>1, <2>2, <2>3, <2>4, <2>5
  <2>7. x # 4
    BY <2>6
  <2>. QED BY <2>3, <2>7
<1>. QED BY <1>6, <1>13 DEF IsRow

(* A line that some report's heading has been glued to, or is, is none.    *)
Spoiled(line) ==
  /\ line # << >> /\ ~ Blank(line[1])
  /\ \E h \in 1 .. Len(line) : \E v, w :
       /\ h + 5 <= Len(line)
       /\ line[h] = Hash /\ line[h + 1] = Space
       /\ line[h + 2] = Word(v) /\ Blank(line[h + 3])
       /\ line[h + 4] = Word(w) /\ Blank(line[h + 5])

(* Its third word is no number, if it has four words at all.               *)
LEMMA SpoiledIsNoRow ==
  ASSUME NEW line \in Seq(Token), Spoiled(line)
  PROVE  ~ IsRow(line)
<1>0. PICK h \in 1 .. Len(line) : \E v, w :
        /\ h + 5 <= Len(line)
        /\ line[h] = Hash /\ line[h + 1] = Space
        /\ line[h + 2] = Word(v) /\ Blank(line[h + 3])
        /\ line[h + 4] = Word(w) /\ Blank(line[h + 5])
  BY DEF Spoiled
<1>1. PICK v, w :
        /\ h + 5 <= Len(line)
        /\ line[h] = Hash /\ line[h + 1] = Space
        /\ line[h + 2] = Word(v) /\ Blank(line[h + 3])
        /\ line[h + 4] = Word(w) /\ Blank(line[h + 5])
  BY <1>0
<1>2. PICK m \in Nat : m = Len(line)
  <2>1. Len(line) \in Nat
    OBVIOUS
  <2>. QED BY <2>1
<1>3. /\ h \in Nat /\ 1 <= h /\ h + 5 <= m
      /\ 1 \in 1 .. m /\ h + 1 \in 1 .. m /\ h + 2 \in 1 .. m /\ h + 3 \in 1 .. m
      /\ h + 4 \in 1 .. m
      /\ 1 \in 0 .. m /\ h + 1 \in 1 .. m /\ h + 4 \in 0 .. m /\ m \in (h + 4) .. m
      /\ h + 1 \in 0 .. m /\ h + 2 \in 0 .. m /\ h + 3 \in 0 .. m /\ m \in 0 .. m
  BY <1>1, <1>2
<1>4. PICK S, f :
        /\ \A i \in 0 .. m : f[i] \in Seq(S) /\ Len(f[i]) \in Nat
        /\ f[0] = << >> /\ Words(line) = f[m]
        /\ Growing(f, m) /\ Splits(line, f, m)
  BY <1>2, WordsOf
<1>5. f[0] = << >> /\ Words(line) = f[m] /\ Growing(f, m)
  BY <1>4
<1>6. /\ \A i \in 0 .. m : f[i] \in Seq(S)
      /\ \A i \in 1 .. m :
           /\ Blank(line[i]) => f[i] = f[i - 1]
           /\ BeginsWord(line, i) => Len(f[i]) = Len(f[i - 1]) + 1
           /\ BeginsWord(line, i) /\ (i = Len(line) \/ Blank(line[i + 1])) =>
                f[i] = Append(f[i - 1], <<line[i]>>)
  BY <1>4 DEF Splits
<1>7. /\ BeginsWord(line, 1) /\ BeginsWord(line, h + 2) /\ BeginsWord(line, h + 4)
  <2>1. BeginsWord(line, 1)
    BY DEF BeginsWord, Spoiled
  <2>2. (h + 2) - 1 = h + 1 /\ (h + 4) - 1 = h + 3
    BY <1>3
  <2>3. Blank(line[h + 1]) /\ ~ Blank(line[h + 2]) /\ ~ Blank(line[h + 4])
    BY <1>1, BlankTokens
  <2>. QED BY <1>1, <2>1, <2>2, <2>3 DEF BeginsWord
<1>8. Len(f[1]) = 1
  <2>1. 1 - 1 = 0 /\ Len(f[0]) = 0
    BY <1>5
  <2>2. Len(f[1]) = Len(f[1 - 1]) + 1
    BY <1>3, <1>6, <1>7
  <2>. QED BY <2>1, <2>2
<1>9. PICK x \in Seq(S) : x = f[h + 1]
  BY <1>3, <1>6
<1>10. PICK d \in Nat : d = Len(x) /\ d >= 1
  <2>1. Len(x) \in Nat
    OBVIOUS
  <2>2. 1 \in 0 .. m /\ h + 1 \in 1 .. m
    BY <1>3
  <2>3. Len(f[1]) <= Len(f[h + 1])
    BY <1>5, <2>2 DEF Growing
  <2>. QED BY <1>8, <1>9, <2>1, <2>3
<1>11. f[h + 2] = Append(x, <<Word(v)>>)
  <2>1. (h + 2) - 1 = h + 1 /\ (h + 2) + 1 = h + 3
    BY <1>3
  <2>. QED BY <1>1, <1>3, <1>6, <1>7, <1>9, <2>1
<1>12. f[h + 3] = f[h + 2]
  <2>1. (h + 3) - 1 = h + 2
    BY <1>3
  <2>. QED BY <1>1, <1>3, <1>6, <2>1
<1>13. f[h + 4] = Append(f[h + 3], <<Word(w)>>)
  <2>1. (h + 4) - 1 = h + 3 /\ (h + 4) + 1 = h + 5
    BY <1>3
  <2>. QED BY <1>1, <1>3, <1>6, <1>7, <2>1
<1>14. PICK y \in Seq(S) : y = f[h + 3]
  BY <1>3, <1>6
<1>15. PICK z \in Seq(S) : z = f[h + 4]
  BY <1>3, <1>6
<1>16. Len(y) = d + 1 /\ y[d + 1] = <<Word(v)>>
  BY <1>9, <1>10, <1>11, <1>12, <1>14
<1>17. Len(z) = d + 2 /\ z[d + 1] = <<Word(v)>> /\ z[d + 2] = <<Word(w)>>
  BY <1>10, <1>13, <1>14, <1>15, <1>16
<1>18. PICK u \in Seq(S) : u = f[m]
  BY <1>3, <1>6
<1>19. Len(z) <= Len(u) /\ \A p \in 1 .. Len(z) : u[p] = z[p]
  BY <1>3, <1>5, <1>15, <1>18 DEF Growing
<1>20. Len(u) = 4 => d \in {1, 2}
  <2>1. PICK q \in Nat : q = Len(u)
    OBVIOUS
  <2>2. d + 2 <= q
    BY <1>17, <1>19, <2>1
  <2>3. q = 4 => d <= 2
    BY <2>2
  <2>4. d \in Nat /\ d >= 1
    BY <1>10
  <2>. QED BY <2>1, <2>3, <2>4
<1>21. Len(u) = 4 => u[3] = <<Word(v)>> \/ u[3] = <<Word(w)>>
  BY <1>17, <1>19, <1>20
<1>22. \A a : ~ IsInt(<<Word(a)>>)
  BY DEF IsInt, Word
<1>. QED BY <1>5, <1>18, <1>21, <1>22 DEF IsRow

(* Whatever is written behind it, it stays one.                            *)
LEMMA SpoiledStays ==
  ASSUME NEW line \in Seq(Token), NEW piece \in Seq(Token), Spoiled(line)
  PROVE  Spoiled(line \o piece)
<1>0. PICK h \in 1 .. Len(line) : \E v, w :
        /\ h + 5 <= Len(line)
        /\ line[h] = Hash /\ line[h + 1] = Space
        /\ line[h + 2] = Word(v) /\ Blank(line[h + 3])
        /\ line[h + 4] = Word(w) /\ Blank(line[h + 5])
  BY DEF Spoiled
<1>1. PICK v, w :
        /\ h + 5 <= Len(line)
        /\ line[h] = Hash /\ line[h + 1] = Space
        /\ line[h + 2] = Word(v) /\ Blank(line[h + 3])
        /\ line[h + 4] = Word(w) /\ Blank(line[h + 5])
  BY <1>0
<1>2. PICK m \in Nat : m = Len(line)
  <2>1. Len(line) \in Nat
    OBVIOUS
  <2>. QED BY <2>1
<1>3. PICK both \in Seq(Token) : both = line \o piece
  BY ConcatParts
<1>4. Len(both) >= m /\ Len(both) \in Nat /\ \A i \in 1 .. m : both[i] = line[i]
  BY <1>2, <1>3, ConcatParts
<1>5. /\ h \in 1 .. m /\ h + 1 \in 1 .. m /\ h + 2 \in 1 .. m /\ h + 3 \in 1 .. m
      /\ h + 4 \in 1 .. m /\ h + 5 \in 1 .. m /\ 1 \in 1 .. m
  BY <1>1, <1>2
<1>6. both # << >> /\ ~ Blank(both[1])
  BY <1>4, <1>5 DEF Spoiled
<1>7. h \in 1 .. Len(both) /\ h + 5 <= Len(both)
  BY <1>4, <1>5
<1>8. /\ both[h] = Hash /\ both[h + 1] = Space
      /\ both[h + 2] = Word(v) /\ Blank(both[h + 3])
      /\ both[h + 4] = Word(w) /\ Blank(both[h + 5])
  BY <1>1, <1>4, <1>5
<1>. QED BY <1>3, <1>6, <1>7, <1>8 DEF Spoiled

(* A heading behind any open line makes one.                               *)
LEMMA HeadingSpoils ==
  ASSUME NEW line \in Seq(Token), line = << >> \/ ~ Blank(line[1]),
         NEW piece \in {Heading, LoadReport[1]}
  PROVE  Spoiled(line \o piece)
<1>1. /\ piece \in Seq(Token) /\ Len(piece) \in {6, 7}
      /\ piece[1] = Hash /\ piece[2] = Space /\ Blank(piece[4]) /\ Blank(piece[6])
      /\ \E v : piece[3] = Word(v)
      /\ \E w : piece[5] = Word(w)
  <2>1. CASE piece = Heading
    <3>1. /\ piece[1] = Hash /\ piece[2] = Space /\ piece[3] = Word("Transaction")
          /\ piece[4] = Space /\ piece[5] = Word("throughput") /\ piece[6] = Space
      BY <2>1 DEF Heading
    <3>. QED BY <2>1, <3>1, HeadingTokens, BlankTokens
  <2>2. CASE piece = LoadReport[1]
    <3>1. /\ Len(piece) = 6
          /\ piece[1] = Hash /\ piece[2] = Space /\ piece[3] = Word("Loading")
          /\ piece[4] = Space /\ piece[5] = Word("records:") /\ piece[6] = Tab
      BY <2>2, LoadReportPieces
    <3>2. piece \in Seq(Token)
      <4>1. PICK report \in Seq(Seq(Token)) : report = LoadReport /\ Len(report) = 3
        BY LoadReportPieces
      <4>2. report[1] \in Seq(Token)
        <5>1. \A i \in 1 .. Len(report) : report[i] \in Seq(Token)
          OBVIOUS
        <5>2. 1 \in 1 .. Len(report)
          BY <4>1
        <5>. QED BY <5>1, <5>2
      <4>. QED BY <2>2, <4>1, <4>2
    <3>. QED BY <3>1, <3>2, BlankTokens
  <2>. QED BY <2>1, <2>2
<1>2. PICK v, w : piece[3] = Word(v) /\ piece[5] = Word(w)
  BY <1>1
<1>3. PICK m \in Nat : m = Len(line)
  <2>1. Len(line) \in Nat
    OBVIOUS
  <2>. QED BY <2>1
<1>4. PICK both \in Seq(Token) : both = line \o piece
  BY <1>1, ConcatParts
<1>5. /\ Len(both) = m + Len(piece)
      /\ \A i \in 1 .. m : both[i] = line[i]
      /\ \A i \in 1 .. Len(piece) : both[m + i] = piece[i]
  BY <1>1, <1>3, <1>4, ConcatParts
<1>6. /\ both[m + 1] = Hash /\ both[(m + 1) + 1] = Space
      /\ both[(m + 1) + 2] = Word(v) /\ Blank(both[(m + 1) + 3])
      /\ both[(m + 1) + 4] = Word(w) /\ Blank(both[(m + 1) + 5])
  <2>1. /\ both[m + 1] = piece[1] /\ both[m + 2] = piece[2] /\ both[m + 3] = piece[3]
        /\ both[m + 4] = piece[4] /\ both[m + 5] = piece[5] /\ both[m + 6] = piece[6]
    <3>1. /\ 1 \in 1 .. Len(piece) /\ 2 \in 1 .. Len(piece) /\ 3 \in 1 .. Len(piece)
          /\ 4 \in 1 .. Len(piece) /\ 5 \in 1 .. Len(piece) /\ 6 \in 1 .. Len(piece)
      BY <1>1
    <3>. QED BY <1>5, <3>1
  <2>2. /\ (m + 1) + 1 = m + 2 /\ (m + 1) + 2 = m + 3 /\ (m + 1) + 3 = m + 4
        /\ (m + 1) + 4 = m + 5 /\ (m + 1) + 5 = m + 6
    OBVIOUS
  <2>. QED BY <1>1, <1>2, <2>1, <2>2
<1>7. m + 1 \in 1 .. Len(both) /\ (m + 1) + 5 <= Len(both)
  BY <1>1, <1>5
<1>8. both # << >> /\ ~ Blank(both[1])
  <2>1. both # << >>
    BY <1>7
  <2>2. CASE m = 0
    <3>1. both[1] = Hash
      BY <1>6, <2>2
    <3>. QED BY <2>1, <3>1, BlankTokens
  <2>3. CASE m # 0
    <3>1. 1 \in 1 .. m /\ line # << >>
      BY <1>3, <2>3
    <3>. QED BY <1>5, <2>1, <3>1
  <2>. QED BY <2>1, <2>2, <2>3
<1>. QED BY <1>4, <1>6, <1>7, <1>8 DEF Spoiled

-----------------------------------------------------------------------------
(* The invariant of what parse_result.py would read. *)

Entry == [target : Target, threads : Nat, measured : BOOLEAN]

Rows == {Row(line) : line \in Seq(Token)} \cup {RowOf(entry) : entry \in Entry}

(* The rows of the lines that are closed.                                  *)
ClosedRows == FlattenSeq([l \in 1 .. (Len(text) - 1) |-> RowIn(text[l])])

ClosedInv == ClosedRows = Results

(* The open line is a part of a result line, or will never be a row.       *)
OpenInv ==
  \/ OpenLine = << >>
  \/ Spoiled(OpenLine)
  \/ \E t \in Target, n \in Nat, c \in 1 .. 8 : LineBegins(OpenLine, t, n, c)

SpoiledInv ==
  (at = "load" /\ Len(pending) \in {1, 2}) \/ (at = "run" /\ Len(pending) = 9) =>
    Spoiled(OpenLine)

(* If it is all of one, then of the run that the log has last.             *)
CompleteInv ==
  \A t \in Target, n \in Nat :
    LineBegins(OpenLine, t, n, 1) =>
      /\ log # << >> /\ ~ log[Len(log)].measured
      /\ Row(OpenLine) = RowOf(log[Len(log)])

RowsInv == ClosedInv /\ OpenInv /\ SpoiledInv /\ CompleteInv

LEMMA RowInType ==
  ASSUME NEW line \in Seq(Token)
  PROVE  RowIn(line) \in Seq(Rows)
<1>1. PICK row \in Rows : row = Row(line)
  BY DEF Rows
<1>2. << row >> \in Seq(Rows) /\ << >> \in Seq(Rows)
  OBVIOUS
<1>. QED BY <1>1, <1>2 DEF RowIn

LEMMA RowsUpTo ==
  ASSUME NEW lines \in Seq(Seq(Token)), NEW m \in Nat, m <= Len(lines),
         NEW ss, ss = [l \in 1 .. m |-> RowIn(lines[l])]
  PROVE  /\ ss \in Seq(Seq(Rows)) /\ Len(ss) = m
         /\ \A l \in 1 .. m : ss[l] = RowIn(lines[l])
<1>1. ASSUME NEW l \in 1 .. m PROVE RowIn(lines[l]) \in Seq(Rows)
  <2>1. l \in 1 .. Len(lines)
    OBVIOUS
  <2>2. lines[l] \in Seq(Token)
    BY <2>1
  <2>. QED BY <2>2, RowInType
<1>. QED BY <1>1

(* Parsing a file is parsing its closed lines, and then its open one.      *)
LEMMA ParseParts ==
  ASSUME FileInv
  PROVE  /\ ClosedRows \in Seq(Rows)
         /\ ParseYcsbLog = ClosedRows \o RowIn(OpenLine)
<1>1. PICK m \in Nat : Len(text) = m + 1
  <2>1. Len(text) \in Nat /\ Len(text) # 0
    BY DEF FileInv
  <2>2. Len(text) - 1 \in Nat /\ Len(text) = (Len(text) - 1) + 1
    BY <2>1
  <2>. QED BY <2>2
<1>2. text \in Seq(Seq(Token))
  BY DEF FileInv
<1>3. PICK rr : rr = [l \in 1 .. m |-> RowIn(text[l])]
  OBVIOUS
<1>4. PICK ss : ss = [l \in 1 .. (m + 1) |-> RowIn(text[l])]
  OBVIOUS
<1>5. /\ rr \in Seq(Seq(Rows)) /\ Len(rr) = m
      /\ \A l \in 1 .. m : rr[l] = RowIn(text[l])
  <2>1. m <= Len(text)
    BY <1>1
  <2>. QED BY <1>2, <1>3, <2>1, RowsUpTo
<1>6. /\ ss \in Seq(Seq(Rows)) /\ Len(ss) = m + 1
      /\ \A l \in 1 .. (m + 1) : ss[l] = RowIn(text[l])
  <2>1. m + 1 \in Nat /\ m + 1 <= Len(text)
    BY <1>1
  <2>. QED BY <1>2, <1>4, <2>1, RowsUpTo
<1>7. /\ FlattenSeq(ss) = FlattenSeq(rr) \o ss[Len(ss)]
      /\ FlattenSeq(rr) \in Seq(Rows)
  <2>1. \A l \in 1 .. Len(rr) : rr[l] = ss[l]
    <3>1. \A l \in 1 .. m : l \in 1 .. (m + 1)
      OBVIOUS
    <3>. QED BY <1>5, <1>6, <3>1
  <2>2. Len(ss) = Len(rr) + 1
    BY <1>5, <1>6
  <2>. QED BY <1>5, <1>6, <2>1, <2>2, FlattenLast
<1>8. ClosedRows = FlattenSeq(rr)
  <2>1. Len(text) - 1 = m
    BY <1>1
  <2>. QED BY <1>3, <2>1 DEF ClosedRows
<1>9. ParseYcsbLog = FlattenSeq(ss)
  <2>1. DOMAIN text = 1 .. (m + 1)
    BY <1>1, <1>2
  <2>. QED BY <1>4, <2>1 DEF ParseYcsbLog
<1>10. ss[Len(ss)] = RowIn(OpenLine)
  BY <1>1, <1>6 DEF OpenLine
<1>. QED BY <1>7, <1>8, <1>9, <1>10

(* A newline closes the open line and opens the next one.                  *)
LEMMA NewlineCloses ==
  ASSUME FileInv, text' = Written(Newline)
  PROVE  /\ ClosedRows' = ClosedRows \o RowIn(OpenLine)
         /\ OpenLine' = << >>
<1>1. /\ Len(text) \in Nat /\ Len(text') = Len(text) + 1
      /\ \A l \in 1 .. Len(text) : text'[l] = text[l]
      /\ text'[Len(text) + 1] = << >>
      /\ DOMAIN text = 1 .. Len(text)
  BY AppendNewline DEF FileInv
<1>2. Len(text') - 1 = Len(text)
  BY <1>1
<1>3. [l \in 1 .. (Len(text') - 1) |-> RowIn(text'[l])]
        = [l \in DOMAIN text |-> RowIn(text[l])]
  BY <1>1, <1>2
<1>4. ClosedRows' = ParseYcsbLog
  BY <1>3 DEF ClosedRows, ParseYcsbLog, RowIn
<1>5. OpenLine' = << >>
  BY <1>1 DEF OpenLine
<1>. QED BY <1>4, <1>5, ParseParts

(* Any other piece is written to the open line.                            *)
LEMMA PieceKeeps ==
  ASSUME FileInv, NEW piece \in Seq(Token), piece # Newline,
         text' = Written(piece)
  PROVE  /\ ClosedRows' = ClosedRows
         /\ OpenLine' = OpenLine \o piece /\ OpenLine \in Seq(Token)
<1>1. /\ Len(text') = Len(text)
      /\ \A l \in 1 .. (Len(text) - 1) : text'[l] = text[l]
      /\ text'[Len(text)] = OpenLine \o piece
      /\ OpenLine \in Seq(Token)
  BY AppendPiece
<1>2. [l \in 1 .. (Len(text') - 1) |-> RowIn(text'[l])]
        = [l \in 1 .. (Len(text) - 1) |-> RowIn(text[l])]
  BY <1>1
<1>3. ClosedRows' = ClosedRows
  BY <1>2 DEF ClosedRows, RowIn
<1>4. OpenLine' = OpenLine \o piece
  BY <1>1 DEF OpenLine
<1>. QED BY <1>1, <1>3, <1>4

LEMMA ResultsUpTo ==
  ASSUME NEW entries \in Seq(Entry), NEW m \in Nat, m <= Len(entries),
         NEW ss, ss = [k \in 1 .. m |-> ResultIn(entries[k])]
  PROVE  /\ ss \in Seq(Seq(Rows)) /\ Len(ss) = m
         /\ \A k \in 1 .. m : ss[k] = ResultIn(entries[k])
<1>1. ASSUME NEW k \in 1 .. m PROVE ResultIn(entries[k]) \in Seq(Rows)
  <2>1. k \in 1 .. Len(entries)
    OBVIOUS
  <2>2. entries[k] \in Entry
    BY <2>1
  <2>3. PICK row \in Rows : row = RowOf(entries[k])
    BY <2>2 DEF Rows
  <2>4. << row >> \in Seq(Rows) /\ << >> \in Seq(Rows)
    OBVIOUS
  <2>. QED BY <2>3, <2>4 DEF ResultIn
<1>. QED BY <1>1

(* The results in any log.                                                 *)
ResultsIn(entries) == FlattenSeq([k \in DOMAIN entries |-> ResultIn(entries[k])])

LEMMA ResultsParts ==
  ASSUME NEW entries \in Seq(Entry), NEW m \in Nat, Len(entries) = m + 1,
         NEW first, first = [k \in 1 .. m |-> ResultIn(entries[k])]
  PROVE  /\ FlattenSeq(first) \in Seq(Rows)
         /\ ResultsIn(entries) = FlattenSeq(first) \o ResultIn(entries[m + 1])
<1>1. PICK ss : ss = [k \in 1 .. (m + 1) |-> ResultIn(entries[k])]
  OBVIOUS
<1>2. /\ first \in Seq(Seq(Rows)) /\ Len(first) = m
      /\ \A k \in 1 .. m : first[k] = ResultIn(entries[k])
  <2>1. m <= Len(entries)
    OBVIOUS
  <2>. QED BY <2>1, ResultsUpTo
<1>3. /\ ss \in Seq(Seq(Rows)) /\ Len(ss) = m + 1
      /\ \A k \in 1 .. (m + 1) : ss[k] = ResultIn(entries[k])
  <2>1. m + 1 \in Nat /\ m + 1 <= Len(entries)
    OBVIOUS
  <2>. QED BY <1>1, <2>1, ResultsUpTo
<1>4. /\ FlattenSeq(ss) = FlattenSeq(first) \o ss[Len(ss)]
      /\ FlattenSeq(first) \in Seq(Rows)
  <2>1. \A k \in 1 .. Len(first) : first[k] = ss[k]
    <3>1. \A k \in 1 .. m : k \in 1 .. (m + 1)
      OBVIOUS
    <3>. QED BY <1>2, <1>3, <3>1
  <2>2. Len(ss) = Len(first) + 1
    BY <1>2, <1>3
  <2>. QED BY <1>2, <1>3, <2>1, <2>2, FlattenLast
<1>5. ResultsIn(entries) = FlattenSeq(ss)
  <2>1. DOMAIN entries = 1 .. (m + 1)
    OBVIOUS
  <2>. QED BY <1>1, <2>1 DEF ResultsIn
<1>6. m + 1 \in 1 .. (m + 1)
  OBVIOUS
<1>. QED BY <1>3, <1>4, <1>5, <1>6

LEMMA ConcatEmpty ==
  ASSUME NEW S, NEW s \in Seq(S)
  PROVE  s \o << >> = s
OBVIOUS

(* A line without a throughput is no result.                               *)
LEMMA ResultsAppended ==
  ASSUME log \in Seq(Entry), NEW e \in Entry, ~ e.measured, log' = Append(log, e)
  PROVE  Results' = Results
<1>1. PICK m \in Nat : m = Len(log)
  <2>1. Len(log) \in Nat
    OBVIOUS
  <2>. QED BY <2>1
<1>2. /\ log' \in Seq(Entry) /\ Len(log') = m + 1 /\ log'[m + 1] = e
      /\ \A k \in 1 .. m : log'[k] = log[k]
      /\ DOMAIN log = 1 .. m
  BY <1>1
<1>3. PICK first : first = [k \in 1 .. m |-> ResultIn(log'[k])]
  OBVIOUS
<1>4. /\ FlattenSeq(first) \in Seq(Rows)
      /\ ResultsIn(log') = FlattenSeq(first) \o ResultIn(e)
  BY <1>2, <1>3, ResultsParts
<1>5. ResultIn(e) = << >>
  BY DEF ResultIn
<1>6. FlattenSeq(first) \o << >> = FlattenSeq(first)
  BY <1>4, ConcatEmpty
<1>7. first = [k \in DOMAIN log |-> ResultIn(log[k])]
  BY <1>2, <1>3
<1>8. Results = FlattenSeq(first)
  BY <1>7 DEF Results
<1>9. Results' = ResultsIn(log')
  BY DEF Results, ResultsIn, ResultIn, RowOf
<1>. QED BY <1>4, <1>5, <1>6, <1>8, <1>9

(* A line that gets its throughput is one result more.                     *)
LEMMA ResultsMeasured ==
  ASSUME log \in Seq(Entry), log # << >>, ~ log[Len(log)].measured,
         log' = [log EXCEPT ![Len(log)].measured = TRUE]
  PROVE  Results' = Results \o << RowOf(log[Len(log)]) >>
<1>1. PICK m \in Nat : Len(log) = m + 1
  <2>1. Len(log) \in Nat /\ Len(log) # 0
    OBVIOUS
  <2>2. Len(log) - 1 \in Nat /\ Len(log) = (Len(log) - 1) + 1
    BY <2>1
  <2>. QED BY <2>2
<1>2. log[m + 1] \in Entry
  BY <1>1
<1>3. /\ log' \in Seq(Entry) /\ Len(log') = m + 1
      /\ \A k \in 1 .. m : log'[k] = log[k]
      /\ log'[m + 1] = [log[m + 1] EXCEPT !.measured = TRUE]
  <2>1. PICK e \in Entry : e = [log[m + 1] EXCEPT !.measured = TRUE]
    BY <1>2 DEF Entry
  <2>2. log' = [log EXCEPT ![m + 1] = e]
    BY <1>1, <2>1
  <2>3. DOMAIN log = 1 .. (m + 1) /\ m + 1 \in 1 .. (m + 1)
    BY <1>1
  <2>. QED BY <1>1, <2>1, <2>2, <2>3
<1>4. PICK first : first = [k \in 1 .. m |-> ResultIn(log[k])]
  OBVIOUS
<1>5. first = [k \in 1 .. m |-> ResultIn(log'[k])]
  BY <1>3, <1>4
<1>6. /\ FlattenSeq(first) \in Seq(Rows)
      /\ ResultsIn(log) = FlattenSeq(first) \o ResultIn(log[m + 1])
  BY <1>1, <1>4, ResultsParts
<1>7. ResultsIn(log') = FlattenSeq(first) \o ResultIn(log'[m + 1])
  BY <1>3, <1>5, ResultsParts
<1>8. ResultIn(log[m + 1]) = << >>
  BY <1>1 DEF ResultIn
<1>9. ResultIn(log'[m + 1]) = << RowOf(log[m + 1]) >>
  BY <1>2, <1>3 DEF ResultIn, RowOf, Entry
<1>10. FlattenSeq(first) \o << >> = FlattenSeq(first)
  BY <1>6, ConcatEmpty
<1>11. Results' = ResultsIn(log') /\ Results = ResultsIn(log)
  BY DEF Results, ResultsIn, ResultIn, RowOf
<1>. QED BY <1>1, <1>6, <1>7, <1>8, <1>9, <1>10, <1>11

LEMMA LogOfEntries == HInv => log \in Seq(Entry)
BY DEF HInv, TypeOK, Entry

LEMMA OpenLineType == FileInv => OpenLine \in Seq(Token)
<1>. SUFFICES ASSUME FileInv PROVE OpenLine \in Seq(Token)
  OBVIOUS
<1>1. text \in Seq(Seq(Token)) /\ Len(text) \in 1 .. Len(text)
  BY DEF FileInv
<1>. QED BY <1>1 DEF OpenLine

LEMMA SpoiledIsNotComplete ==
  ASSUME NEW line \in Seq(Token), Spoiled(line), NEW t \in Target, NEW n \in Nat
  PROVE  ~ LineBegins(line, t, n, 1)
BY CompleteIsRow, SpoiledIsNoRow

(* The open line begins with no blank.                                     *)
LEMMA OpenBegins ==
  ASSUME FileInv, OpenInv
  PROVE  OpenLine = << >> \/ ~ Blank(OpenLine[1])
<1>1. PICK line \in Seq(Token) : line = OpenLine
  BY OpenLineType
<1>2. ASSUME NEW t \in Target, NEW n \in Nat, NEW c \in 1 .. 8,
             LineBegins(line, t, n, c), line # << >>
      PROVE  ~ Blank(line[1])
  <2>1. 1 <= Len(line)
    BY <1>2
  <2>. QED BY <1>2, <2>1, BlankTokens DEF LineBegins
<1>. QED BY <1>1, <1>2 DEF OpenInv, Spoiled

(* When it is a row, it is that of the log's last line.                    *)
LEMMA OpenRow ==
  ASSUME FileInv, RowsInv, IsRow(OpenLine)
  PROVE  /\ OpenLine # << >> /\ log # << >> /\ ~ log[Len(log)].measured
         /\ Row(OpenLine) = RowOf(log[Len(log)])
<1>1. PICK line \in Seq(Token) : line = OpenLine
  BY OpenLineType
<1>2. ~ Spoiled(line) /\ line # << >>
  BY <1>1, SpoiledIsNoRow DEF IsRow
<1>3. PICK t \in Target, n \in Nat, c \in 1 .. 8 : LineBegins(line, t, n, c)
  BY <1>1, <1>2 DEF RowsInv, OpenInv
<1>4. c \notin 2 .. 8
  BY <1>1, <1>3, PartIsNoRow
<1>5. c = 1
  BY <1>4
<1>6. LineBegins(OpenLine, t, n, 1)
  BY <1>1, <1>3, <1>5
<1>7. OpenLine # << >>
  BY DEF IsRow
<1>. QED BY <1>6, <1>7 DEF RowsInv, CompleteInv

(* The invariant holds of the empty file.                                  *)
LEMMA RowsInvInit == LogInit => RowsInv
<1>. SUFFICES ASSUME LogInit PROVE RowsInv
  OBVIOUS
<1>1. text = << << >> >> /\ at = "down" /\ log = << >>
  BY DEF LogInit, Init
<1>2. OpenLine = << >> /\ Len(text) = 1 /\ Len(<< >>) = 0
  BY <1>1 DEF OpenLine
<1>3. ClosedInv
  <2>1. [l \in 1 .. (Len(text) - 1) |-> RowIn(text[l])] = << >>
    BY <1>2
  <2>2. [k \in DOMAIN log |-> ResultIn(log[k])] = << >>
    BY <1>1
  <2>. QED BY <2>1, <2>2 DEF ClosedInv, ClosedRows, Results
<1>4. CompleteInv
  BY <1>2 DEF CompleteInv, LineBegins
<1>. QED BY <1>1, <1>2, <1>3, <1>4 DEF RowsInv, OpenInv, SpoiledInv

(* Where the text and the log do not change.                               *)
LEMMA RowsSame ==
  ASSUME RowsInv, UNCHANGED <<text, log>>
  PROVE  ClosedInv' /\ OpenInv' /\ CompleteInv'
<1>1. OpenLine' = OpenLine /\ ClosedRows' = ClosedRows /\ Results' = Results
  BY DEF OpenLine, ClosedRows, RowIn, Results, ResultIn, RowOf
<1>2. ClosedInv'
  BY <1>1 DEF RowsInv, ClosedInv
<1>3. OpenInv'
  BY <1>1 DEF RowsInv, OpenInv
<1>4. CompleteInv'
  BY <1>1 DEF RowsInv, CompleteInv, Row, RowOf
<1>. QED BY <1>2, <1>3, <1>4

(* A heading, or what follows on one, leaves a line that is no row.        *)
LEMMA SpoiledPiece ==
  ASSUME FileInv, RowsInv, NEW piece \in Seq(Token), piece # Newline,
         text' = Written(piece), UNCHANGED log,
         piece \in {Heading, LoadReport[1]} \/ Spoiled(OpenLine)
  PROVE  Spoiled(OpenLine') /\ ClosedInv' /\ OpenInv' /\ CompleteInv'
<1>1. /\ ClosedRows' = ClosedRows
      /\ OpenLine' = OpenLine \o piece /\ OpenLine \in Seq(Token)
  BY PieceKeeps
<1>2. OpenLine = << >> \/ ~ Blank(OpenLine[1])
  BY OpenBegins DEF RowsInv
<1>3. Spoiled(OpenLine \o piece)
  BY <1>1, <1>2, HeadingSpoils, SpoiledStays
<1>4. Spoiled(OpenLine')
  BY <1>1, <1>3
<1>5. Results' = Results
  BY DEF Results, ResultIn, RowOf
<1>6. ClosedInv'
  BY <1>1, <1>5 DEF RowsInv, ClosedInv
<1>7. CompleteInv'
  <2>1. OpenLine' \in Seq(Token)
    BY <1>1, ConcatParts
  <2>. QED BY <1>4, <2>1, SpoiledIsNotComplete DEF CompleteInv
<1>. QED BY <1>4, <1>6, <1>7 DEF OpenInv

(* A newline behind such a line.                                           *)
LEMMA SpoiledCloses ==
  ASSUME FileInv, RowsInv, text' = Written(Newline), UNCHANGED log, Spoiled(OpenLine)
  PROVE  ClosedInv' /\ OpenInv' /\ CompleteInv'
<1>1. ClosedRows' = ClosedRows \o RowIn(OpenLine) /\ OpenLine' = << >>
  BY NewlineCloses
<1>2. RowIn(OpenLine) = << >>
  BY OpenLineType, SpoiledIsNoRow DEF RowIn
<1>3. ClosedRows' = ClosedRows
  BY <1>1, <1>2, ParseParts, ConcatEmpty
<1>4. Results' = Results
  BY DEF Results, ResultIn, RowOf
<1>5. Len(<< >>) = 0
  OBVIOUS
<1>6. CompleteInv'
  BY <1>1, <1>5 DEF CompleteInv, LineBegins
<1>. QED BY <1>1, <1>3, <1>4, <1>6 DEF RowsInv, ClosedInv, OpenInv

(* The newline behind a result line, with which its run is completed.      *)
LEMMA ResultCloses ==
  ASSUME FileInv, RowsInv, text' = Written(Newline), log \in Seq(Entry),
         log' = [log EXCEPT ![Len(log)].measured = TRUE],
         NEW t \in Target, NEW n \in Nat, LineBegins(OpenLine, t, n, 1)
  PROVE  ClosedInv' /\ OpenInv' /\ CompleteInv'
<1>1. ClosedRows' = ClosedRows \o RowIn(OpenLine) /\ OpenLine' = << >>
  BY NewlineCloses
<1>2. /\ log # << >> /\ ~ log[Len(log)].measured
      /\ Row(OpenLine) = RowOf(log[Len(log)])
  BY DEF RowsInv, CompleteInv
<1>3. RowIn(OpenLine) = << RowOf(log[Len(log)]) >>
  BY <1>2, OpenLineType, CompleteIsRow DEF RowIn
<1>4. Results' = Results \o << RowOf(log[Len(log)]) >>
  BY <1>2, ResultsMeasured
<1>5. Len(<< >>) = 0
  OBVIOUS
<1>6. CompleteInv'
  BY <1>1, <1>5 DEF CompleteInv, LineBegins
<1>. QED BY <1>1, <1>3, <1>4, <1>6 DEF RowsInv, ClosedInv, OpenInv

(* A piece of a result line.                                               *)
LEMMA LinePiece ==
  ASSUME FileInv, RowsInv, FileInv', NEW piece \in Seq(Token), piece # Newline,
         text' = Written(piece), log \in Seq(Entry),
         NEW t \in Target, NEW n \in Nat, NEW c \in 1 .. 7, LineBegins(OpenLine', t, n, c),
         \/ UNCHANGED log
         \/ log' = Append(log, [target |-> t, threads |-> n, measured |-> FALSE]),
         c = 1 => /\ log' # << >>
                  /\ log'[Len(log')] = [target |-> t, threads |-> n, measured |-> FALSE]
  PROVE  ClosedInv' /\ OpenInv' /\ CompleteInv'
<1>1. ClosedRows' = ClosedRows
  BY PieceKeeps
<1>2. Results' = Results
  <2>1. CASE UNCHANGED log
    BY <2>1 DEF Results, ResultIn, RowOf
  <2>2. CASE log' = Append(log, [target |-> t, threads |-> n, measured |-> FALSE])
    <3>1. PICK e \in Entry : e = [target |-> t, threads |-> n, measured |-> FALSE]
      BY DEF Entry
    <3>2. ~ e.measured
      BY <3>1
    <3>. QED BY <2>2, <3>1, <3>2, ResultsAppended
  <2>. QED BY <2>1, <2>2
<1>3. ClosedInv'
  BY <1>1, <1>2 DEF RowsInv, ClosedInv
<1>4. OpenInv'
  <2>1. c \in 1 .. 8
    OBVIOUS
  <2>. QED BY <2>1 DEF OpenInv
<1>5. CompleteInv'
  <2>. SUFFICES ASSUME NEW u \in Target, NEW m \in Nat, LineBegins(OpenLine', u, m, 1)
                PROVE  /\ log' # << >> /\ ~ log'[Len(log')].measured
                       /\ Row(OpenLine') = RowOf(log'[Len(log')])
    BY DEF CompleteInv, Row, RowOf
  <2>1. c = 1
    <3>1. Len(OpenLine') = 8 - c /\ Len(OpenLine') = 8 - 1
      BY DEF LineBegins
    <3>2. \A x \in 1 .. 7 : 8 - x = 8 - 1 => x = 1
      OBVIOUS
    <3>. QED BY <3>1, <3>2
  <2>2. PICK line \in Seq(Token) : line = OpenLine'
    <3>1. text' \in Seq(Seq(Token)) /\ Len(text') \in 1 .. Len(text')
      BY DEF FileInv
    <3>. QED BY <3>1 DEF OpenLine
  <2>3. LineBegins(line, t, n, 1)
    BY <2>1, <2>2
  <2>4. Row(line) = [engine |-> <<Name(t[1])>>, path |-> <<Name(t[2])>>,
                     threads |-> <<Number(n)>>]
    BY <2>3, CompleteIsRow
  <2>5. PICK e : e = log'[Len(log')]
    OBVIOUS
  <2>6. e.target = t /\ e.threads = n /\ ~ e.measured /\ log' # << >>
    BY <2>1, <2>5
  <2>7. RowOf(e) = Row(line)
    BY <2>4, <2>6 DEF RowOf
  <2>. QED BY <2>2, <2>5, <2>6, <2>7
<1>. QED BY <1>3, <1>4, <1>5

(* One write of a run.                                                     *)
LEMMA RunRowsKept ==
  ASSUME HInv, TextInv, TextInv', RowsInv, Write, at \in {"run", "line"},
         \/ WriteNeedleEnd \/ WriteResultEnd \/ WriteOther
  PROVE  RowsInv'
<1>1. pending # << >> /\ target \in Known /\ FileInv /\ FileInv'
  BY DEF Write, TextInv, RunRest, HInv, LineInv
<1>2. target \in Target /\ Threads[th] \in Nat
  BY RunReportOf DEF HInv, LoopInv
<1>3. PICK t \in Target, n \in Nat : t = target /\ n = Threads[th]
  BY <1>2
<1>4. /\ IsRest(pending, RunReport(t, n))
      /\ at = "run" => Len(pending) >= 3
      /\ at = "line" => Len(pending) \in {1, 2}
      /\ Len(pending) \in 1 .. 8 => LineBegins(OpenLine, t, n, Len(pending))
  BY <1>1, <1>3 DEF TextInv, RunRest
<1>5. PICK c \in 1 .. 10, piece \in Seq(Token) :
        /\ c = Len(pending) /\ text' = Written(piece)
        /\ Len(pending') = c - 1
        /\ c \in {9, 1} => piece = Newline
        /\ c \notin {9, 1} => piece # Newline
        /\ c = 10 => piece = Heading
  BY <1>1, <1>4, RunPiece
<1>6. c \in 2 .. 9 => LineBegins(OpenLine', t, n, c - 1)
  <2>1. Len(pending) \in 2 .. 9 => LineBegins(OpenLine', t, n, Len(pending'))
    BY <1>1, <1>4, RunPieceWritten
  <2>. QED BY <1>5, <2>1
<1>7. c > 1 => (pending[2] = <<Throughput>> <=> c = 3)
  BY <1>1, <1>4, <1>5, SecondPiece DEF FileInv
<1>8. log \in Seq(Entry)
  BY LogOfEntries
<1>9. CASE WriteNeedleEnd
  <2>1. /\ at = "run" /\ c > 1 /\ pending[2] = <<Throughput>> /\ at' = "line"
        /\ log' = Append(log, [target |-> t, threads |-> n, measured |-> FALSE])
    BY <1>3, <1>5, <1>9 DEF WriteNeedleEnd, EndsNeedle, WriteLine
  <2>2. c = 3 /\ 3 \in 2 .. 9 /\ 3 - 1 = 2 /\ 2 \in 1 .. 7
    BY <1>7, <2>1
  <2>3. LineBegins(OpenLine', t, n, 2) /\ piece # Newline
    BY <1>5, <1>6, <2>2
  <2>4. ClosedInv' /\ OpenInv' /\ CompleteInv'
    BY <1>1, <1>5, <1>8, <2>1, <2>2, <2>3, LinePiece
  <2>. QED BY <2>1, <2>4 DEF RowsInv, SpoiledInv
<1>10. CASE WriteResultEnd
  <2>1. /\ at = "line" /\ c = 1 /\ at' = "threads"
        /\ log' = [log EXCEPT ![Len(log)].measured = TRUE]
    BY <1>5, <1>10 DEF WriteResultEnd, EndsResult, WriteThroughput
  <2>2. text' = Written(Newline)
    BY <1>5, <2>1
  <2>3. LineBegins(OpenLine, t, n, 1)
    BY <1>4, <1>5, <2>1
  <2>4. ClosedInv' /\ OpenInv' /\ CompleteInv'
    BY <1>1, <1>8, <2>1, <2>2, <2>3, ResultCloses
  <2>. QED BY <2>1, <2>4 DEF RowsInv, SpoiledInv
<1>11. CASE WriteOther
  <2>1. /\ UNCHANGED <<at, pair, th, log>> /\ ~ EndsNeedle /\ ~ EndsResult
    BY <1>11 DEF WriteOther, vars
  <2>2. at = "run" => c \in {4, 5, 6, 7, 8, 9, 10}
    <3>1. at = "run" => c >= 3 /\ c # 3
      BY <1>4, <1>5, <1>7, <2>1 DEF EndsNeedle
    <3>. QED BY <3>1
  <2>3. at = "line" => c = 2
    BY <1>4, <1>5, <2>1 DEF EndsResult
  <2>4. at' # "load" /\ (at' = "run" => at = "run")
    BY <2>1
  <2>5. CASE c = 10
    <3>1. piece = Heading /\ piece # Newline
      BY <1>5, <2>5
    <3>2. Spoiled(OpenLine') /\ ClosedInv' /\ OpenInv' /\ CompleteInv'
      BY <1>1, <1>5, <2>1, <3>1, SpoiledPiece
    <3>. QED BY <3>2 DEF RowsInv, SpoiledInv
  <2>6. CASE c = 9
    <3>1. at = "run"
      BY <2>3, <2>6
    <3>2. Spoiled(OpenLine) /\ text' = Written(Newline) /\ Len(pending') # 9
      BY <1>5, <2>6, <3>1 DEF RowsInv, SpoiledInv
    <3>3. ClosedInv' /\ OpenInv' /\ CompleteInv'
      BY <1>1, <2>1, <3>2, SpoiledCloses
    <3>. QED BY <2>4, <3>2, <3>3 DEF RowsInv, SpoiledInv
  <2>7. CASE c \in {8, 7, 6, 5, 4, 2}
    <3>1. /\ c \in 2 .. 9 /\ c - 1 \in 1 .. 7 /\ c - 1 # 9
          /\ c \notin {9, 1} /\ (c - 1 = 1 => c = 2)
      BY <2>7
    <3>2. LineBegins(OpenLine', t, n, c - 1) /\ piece # Newline
      BY <1>5, <1>6, <3>1
    <3>3. c - 1 = 1 =>
            /\ log' # << >>
            /\ log'[Len(log')] = [target |-> t, threads |-> n, measured |-> FALSE]
      <4>1. c = 2 => at = "line"
        BY <2>2
      <4>. QED BY <1>3, <2>1, <3>1, <4>1 DEF HInv, LineInv
    <3>4. PICK d \in 1 .. 7 : d = c - 1
      BY <3>1
    <3>5. ClosedInv' /\ OpenInv' /\ CompleteInv'
      BY <1>1, <1>5, <1>8, <2>1, <3>2, <3>3, <3>4, LinePiece
    <3>6. Len(pending') # 9
      BY <1>5, <3>1
    <3>. QED BY <2>4, <3>5, <3>6 DEF RowsInv, SpoiledInv
  <2>. QED BY <2>2, <2>3, <2>5, <2>6, <2>7
<1>. QED BY <1>9, <1>10, <1>11

(* One write of a load.                                                    *)
LEMMA LoadRowsKept ==
  ASSUME TextInv, RowsInv, Write, UNCHANGED vars, at = "load"
  PROVE  RowsInv'
<1>1. FileInv /\ IsRest(pending, LoadReport)
  BY DEF TextInv, LoadRest
<1>2. at' = "load" /\ UNCHANGED log
  BY DEF vars
<1>3. PICK c \in 1 .. 3, piece \in Seq(Token) :
        /\ c = Len(pending) /\ text' = Written(piece)
        /\ Len(pending') = c - 1
        /\ c = 1 => piece = Newline
        /\ c # 1 => piece # Newline
        /\ c = 3 => piece = LoadReport[1]
  BY <1>1, LoadPiece
<1>4. c \in {1, 2} => Spoiled(OpenLine)
  BY <1>3 DEF RowsInv, SpoiledInv
<1>5. CASE c = 1
  <2>1. text' = Written(Newline) /\ Len(pending') = 0
    BY <1>3, <1>5
  <2>2. ClosedInv' /\ OpenInv' /\ CompleteInv'
    BY <1>1, <1>2, <1>4, <1>5, <2>1, SpoiledCloses
  <2>. QED BY <1>2, <2>1, <2>2 DEF RowsInv, SpoiledInv
<1>6. CASE c # 1
  <2>1. c = 2 \/ c = 3
    BY <1>6
  <2>2. piece = LoadReport[1] \/ Spoiled(OpenLine)
    BY <1>3, <1>4, <2>1
  <2>3. Spoiled(OpenLine') /\ ClosedInv' /\ OpenInv' /\ CompleteInv'
    BY <1>1, <1>2, <1>3, <1>6, <2>2, SpoiledPiece
  <2>. QED BY <2>3 DEF RowsInv, SpoiledInv
<1>. QED BY <1>5, <1>6

(* Every step keeps it.                                                    *)
LEMMA RowsInvNext ==
  HInv /\ TextInv /\ TextInv' /\ RowsInv /\ [LogNext]_logVars => RowsInv'
<1>. SUFFICES ASSUME HInv, TextInv, TextInv', RowsInv, [LogNext]_logVars
              PROVE  RowsInv'
  OBVIOUS
<1>1. CASE ScriptStep
  <2>1. UNCHANGED <<text, log>> /\ at' \notin {"load", "run"}
    BY <1>1 DEF ScriptStep, Start, SkipTarget, SkipThreads, NextTarget, Done
  <2>. QED BY <2>1, RowsSame DEF RowsInv, SpoiledInv
<1>2. CASE StartLoad
  <2>1. UNCHANGED <<text, log>> /\ at' = "load" /\ pending' \in {LoadReport, << >>}
    BY <1>2 DEF StartLoad, Prepare
  <2>2. Len(LoadReport) = 3 /\ Len(<< >>) = 0
    BY LoadReportPieces
  <2>3. Len(pending') \notin {1, 2}
    <3>1. Len(pending') = 3 \/ Len(pending') = 0
      BY <2>1, <2>2
    <3>2. \A m : m = 3 \/ m = 0 => m \notin {1, 2}
      OBVIOUS
    <3>. QED BY <3>1, <3>2
  <2>. QED BY <2>1, <2>3, RowsSame DEF RowsInv, SpoiledInv
<1>3. CASE StartRun
  <2>1. /\ at = "threads" /\ th <= Len(Threads)
        /\ UNCHANGED <<text, log>> /\ at' = "run"
        /\ pending' \in {RunReport(target, Threads[th]), << >>}
    BY <1>3 DEF StartRun, Run
  <2>2. Len(RunReport(target, Threads[th])) = 10 /\ Len(<< >>) = 0
    BY <2>1, RunReportOf, RunReportPieces
  <2>3. Len(pending') # 9
    <3>1. Len(pending') = 10 \/ Len(pending') = 0
      BY <2>1, <2>2
    <3>2. \A m : m = 10 \/ m = 0 => m # 9
      OBVIOUS
    <3>. QED BY <3>1, <3>2
  <2>. QED BY <2>1, <2>3, RowsSame DEF RowsInv, SpoiledInv
<1>4. CASE Return
  <2>1. UNCHANGED <<text, log>> /\ at' = "threads"
    BY <1>4 DEF Return, LoadReturns, RunUnknown
  <2>. QED BY <2>1, RowsSame DEF RowsInv, SpoiledInv
<1>5. CASE LogStop
  <2>1. UNCHANGED <<text, log>> /\ at' = "down"
    BY <1>5 DEF LogStop, Stop
  <2>. QED BY <2>1, RowsSame DEF RowsInv, SpoiledInv
<1>6. CASE UNCHANGED logVars
  <2>1. UNCHANGED <<text, log, at, pending>> /\ OpenLine' = OpenLine
    BY <1>6 DEF logVars, vars, OpenLine
  <2>. QED BY <2>1, RowsSame DEF RowsInv, SpoiledInv
<1>7. CASE WriteNeedleEnd \/ WriteResultEnd \/ (WriteOther /\ at \in {"run", "line"})
  <2>1. Write /\ at \in {"run", "line"}
    BY <1>7 DEF WriteNeedleEnd, WriteResultEnd, WriteOther, EndsNeedle, EndsResult
  <2>. QED BY <1>7, <2>1, RunRowsKept
<1>8. CASE WriteOther /\ at = "load"
  BY <1>8, LoadRowsKept DEF WriteOther
<1>9. CASE WriteOther /\ at \notin {"load", "run", "line"}
  BY <1>9 DEF WriteOther, Write, TextInv, IdleRest
<1>. QED
  BY <1>1, <1>2, <1>3, <1>4, <1>5, <1>6, <1>7, <1>8, <1>9 DEF LogNext, LogScript

(* What the closed lines and the open one have for rows, together.         *)
LEMMA ParseResults ==
  ASSUME FileInv, RowsInv
  PROVE  /\ Results \in Seq(Rows)
         /\ \/ ParseYcsbLog = Results
            \/ /\ OpenLine # << >> /\ log # << >> /\ ~ log[Len(log)].measured
               /\ RowOf(log[Len(log)]) \in Rows
               /\ ParseYcsbLog = Append(Results, RowOf(log[Len(log)]))
<1>1. PICK res \in Seq(Rows) : res = Results
  BY ParseParts DEF RowsInv, ClosedInv
<1>2. ParseYcsbLog = res \o RowIn(OpenLine)
  BY <1>1, ParseParts DEF RowsInv, ClosedInv
<1>3. CASE ~ IsRow(OpenLine)
  <2>1. RowIn(OpenLine) = << >>
    BY <1>3 DEF RowIn
  <2>. QED BY <1>1, <1>2, <2>1, ConcatEmpty
<1>4. CASE IsRow(OpenLine)
  <2>1. /\ OpenLine # << >> /\ log # << >> /\ ~ log[Len(log)].measured
        /\ Row(OpenLine) = RowOf(log[Len(log)])
    BY <1>4, OpenRow
  <2>2. PICK row \in Rows : row = Row(OpenLine)
    BY OpenLineType DEF Rows
  <2>3. RowIn(OpenLine) = << row >>
    BY <1>4, <2>2 DEF RowIn
  <2>4. res \o << row >> = Append(res, row)
    OBVIOUS
  <2>. QED BY <1>1, <1>2, <2>1, <2>2, <2>3, <2>4
<1>. QED BY <1>3, <1>4

(* Wherever the campaign was stopped: the closed lines of the file have    *)
(* the rows of the completed runs, and the open one is a part of a result  *)
(* line or will never be a row.                                            *)
THEOREM RowsInvariance == LogSpec => [](HInv /\ TextInv /\ RowsInv)
<1>1. HInv /\ TextInv /\ [LogNext]_logVars => TextInv'
  BY TextInvNext
<1>2. HInv /\ TextInv /\ TextInv' /\ RowsInv /\ [LogNext]_logVars => RowsInv'
  BY RowsInvNext
<1>. QED BY <1>1, <1>2, TextInvInit, RowsInvInit, LogInvariance, PTL DEF LogSpec

(* What parse_ycsb_log reads are the rows of the completed runs, in their  *)
(* order, and at most the one that is being completed: never a line that   *)
(* was broken off, or one that another report was glued to.                *)
THEOREM ParserCorrect == LogSpec => []ParserReadsResults
<1>1. TextInv /\ RowsInv => ParserReadsResults
  BY ParseResults DEF TextInv, ParserReadsResults, OpenLine
<1>. QED BY <1>1, RowsInvariance, PTL

-----------------------------------------------------------------------------
(* The plots have each point of the campaign once. *)

(* A row tells what run it is of.                                          *)
LEMMA RowTellsRun ==
  ASSUME NEW d \in Entry, NEW e \in Entry, RowOf(d) = RowOf(e)
  PROVE  d.target = e.target /\ d.threads = e.threads
<1>1. /\ <<Name(d.target[1])>> = <<Name(e.target[1])>>
      /\ <<Name(d.target[2])>> = <<Name(e.target[2])>>
      /\ <<Number(d.threads)>> = <<Number(e.threads)>>
  <2>1. /\ RowOf(d).engine = <<Name(d.target[1])>>
        /\ RowOf(d).path = <<Name(d.target[2])>>
        /\ RowOf(d).threads = <<Number(d.threads)>>
        /\ RowOf(e).engine = <<Name(e.target[1])>>
        /\ RowOf(e).path = <<Name(e.target[2])>>
        /\ RowOf(e).threads = <<Number(e.threads)>>
    BY DEF RowOf
  <2>. QED BY <2>1
<1>2. \A x, y : <<x>> = <<y>> => x = y
  OBVIOUS
<1>3. /\ d.target[1] = e.target[1] /\ d.target[2] = e.target[2]
      /\ d.threads = e.threads
  BY <1>1, <1>2, TokensDiffer
<1>4. d.target \in Db \X File /\ e.target \in Db \X File
  BY TargetAssumption DEF Entry
<1>. QED BY <1>3, <1>4

(* The p-th row is that of the c[p]-th line of the log.                    *)
AreRowsOf(rows, n, c) ==
  /\ \A p \in 1 .. n : c[p] \in 1 .. Len(log) /\ rows[p] = RowOf(log[c[p]])
  /\ \A p, q \in 1 .. n : c[p] = c[q] => p = q

(* Rows of different lines of the log are different.                       *)
LEMMA RowsDiffer ==
  ASSUME HInv, NEW rows, NEW n \in Nat, NEW c, AreRowsOf(rows, n, c)
  PROVE  \A p, q \in 1 .. n : rows[p] = rows[q] => p = q
<1>. SUFFICES ASSUME NEW p \in 1 .. n, NEW q \in 1 .. n, rows[p] = rows[q]
              PROVE  p = q
  OBVIOUS
<1>. USE DEF AreRowsOf
<1>1. PICK d \in Entry, e \in Entry : d = log[c[p]] /\ e = log[c[q]]
  <2>1. \A k \in 1 .. Len(log) : log[k] \in Entry
    BY LogOfEntries
  <2>. QED BY <2>1
<1>2. d.target = e.target /\ d.threads = e.threads
  BY <1>1, RowTellsRun
<1>3. c[p] \in DOMAIN log /\ c[q] \in DOMAIN log
  BY LogOfEntries
<1>4. c[p] = c[q]
  BY <1>1, <1>2, <1>3 DEF HInv, LoggedOnce
<1>. QED BY <1>4

(* The results, and the lines of the log that they are of.                 *)
LEMMA ResultsOf ==
  ASSUME HInv, NEW m \in Nat, m = Len(log)
  PROVE  /\ Results \in Seq(Rows)
         /\ \E b :
              /\ b \in [1 .. Len(Results) -> (1 .. m) \ Unmeasured]
              /\ \A p \in 1 .. Len(Results) : Results[p] = RowOf(log[b[p]])
              /\ \A p, q \in 1 .. Len(Results) : b[p] = b[q] => p = q
              /\ \A k \in (1 .. m) \ Unmeasured :
                   \E p \in 1 .. Len(Results) : b[p] = k
<1>1. log \in Seq(Entry) /\ DOMAIN log = 1 .. m
  BY LogOfEntries
<1>2. PICK ss : ss = [k \in 1 .. m |-> ResultIn(log[k])]
  OBVIOUS
<1>3. /\ ss \in Seq(Seq(Rows)) /\ Len(ss) = m
      /\ \A k \in 1 .. m : ss[k] = ResultIn(log[k])
  <2>1. m <= Len(log)
    OBVIOUS
  <2>. QED BY <1>1, <1>2, <2>1, ResultsUpTo
<1>4. Results = FlattenSeq(ss)
  BY <1>1, <1>2 DEF Results
<1>5. Single(ss)
  BY <1>3 DEF Single, ResultIn
<1>6. /\ Results \in Seq(Rows)
      /\ \E b : Picks(ss, Results, m, b)
  BY <1>3, <1>4, <1>5, FlattenElements
<1>7. PICK b : Picks(ss, Results, m, b)
  BY <1>6
<1>8. /\ b \in [1 .. Len(Results) -> 1 .. m]
      /\ \A p \in 1 .. Len(Results) : ss[b[p]] = << Results[p] >>
      /\ \A p, q \in 1 .. Len(Results) : b[p] = b[q] => p = q
      /\ \A k \in 1 .. m : ss[k] # << >> => \E p \in 1 .. Len(Results) : b[p] = k
  BY <1>7 DEF Picks
<1>9. ASSUME NEW p \in 1 .. Len(Results)
      PROVE  b[p] \in (1 .. m) \ Unmeasured /\ Results[p] = RowOf(log[b[p]])
  <2>1. b[p] \in 1 .. m
    BY <1>8
  <2>2. ResultIn(log[b[p]]) = << Results[p] >>
    BY <1>3, <1>8, <2>1
  <2>3. << >> # << Results[p] >>
    OBVIOUS
  <2>4. log[b[p]].measured /\ << RowOf(log[b[p]]) >> = << Results[p] >>
    BY <2>2, <2>3 DEF ResultIn
  <2>5. \A x, y : <<x>> = <<y>> => x = y
    OBVIOUS
  <2>. QED BY <2>1, <2>4, <2>5 DEF Unmeasured
<1>10. ASSUME NEW k \in (1 .. m) \ Unmeasured
       PROVE  \E p \in 1 .. Len(Results) : b[p] = k
  <2>1. k \in 1 .. m /\ log[k].measured
    BY <1>1 DEF Unmeasured
  <2>2. ss[k] # << >>
    <3>1. ss[k] = << RowOf(log[k]) >>
      BY <1>3, <2>1 DEF ResultIn
    <3>2. \A x : <<x>> # << >>
      OBVIOUS
    <3>. QED BY <3>1, <3>2
  <2>. QED BY <1>8, <2>1, <2>2
<1>11. b \in [1 .. Len(Results) -> (1 .. m) \ Unmeasured]
  BY <1>8, <1>9
<1>. QED BY <1>6, <1>8, <1>9, <1>10, <1>11

(* How many there are from 1 to n.                                         *)
LEMMA CountTo ==
  ASSUME NEW n \in Nat
  PROVE  IsFiniteSet(1 .. n) /\ Cardinality(1 .. n) = n
<1>1. 1 \in Int /\ n \in Int
  OBVIOUS
<1>2. /\ IsFiniteSet(1 .. n)
      /\ Cardinality(1 .. n) = IF 1 > n THEN 0 ELSE n - 1 + 1
  BY <1>1, FS_Interval
<1>. QED BY <1>2

(* As many as there are lines with a throughput.                           *)
LEMMA ResultsCounted ==
  ASSUME HInv, NEW m \in Nat, m = Len(log)
  PROVE  /\ Cardinality(Unmeasured) \in Nat /\ Len(Results) \in Nat
         /\ Len(Results) + Cardinality(Unmeasured) >= m
<1>1. PICK res \in Seq(Rows) : res = Results
  BY ResultsOf
<1>2. PICK n \in Nat : n = Len(res)
  <2>1. Len(res) \in Nat
    OBVIOUS
  <2>. QED BY <2>1
<1>. DEFINE M == (1 .. m) \ Unmeasured
<1>3. PICK b : b \in [1 .. n -> M] /\ \A k \in M : \E p \in 1 .. n : b[p] = k
  BY <1>1, <1>2, ResultsOf
<1>4. b \in Surjection(1 .. n, M)
  BY <1>3 DEF Surjection
<1>5. /\ IsFiniteSet(1 .. n) /\ Cardinality(1 .. n) = n
      /\ IsFiniteSet(1 .. m) /\ Cardinality(1 .. m) = m
  BY CountTo
<1>6. Cardinality(M) <= n
  <2>. HIDE DEF M
  <2>. QED BY <1>4, <1>5, FS_Surjection
<1>7. Unmeasured \subseteq 1 .. m
  BY LogOfEntries DEF Unmeasured
<1>8. Cardinality(M) = m - Cardinality(Unmeasured)
  <2>1. (1 .. m) \cap Unmeasured = Unmeasured
    BY <1>7
  <2>2. Cardinality(M) = Cardinality(1 .. m) - Cardinality((1 .. m) \cap Unmeasured)
    BY <1>5, FS_Difference
  <2>. QED BY <1>5, <2>1, <2>2
<1>9. Cardinality(Unmeasured) \in Nat
  BY UnmeasuredFinite DEF HInv
<1>10. PICK u \in Nat : u = Cardinality(Unmeasured)
  BY <1>9
<1>11. m - u <= n
  BY <1>6, <1>8, <1>10
<1>12. n + u >= m
  BY <1>11
<1>. QED BY <1>1, <1>2, <1>9, <1>10, <1>12

(* When the campaign is done, each of its points has a line of its own.    *)
LEMMA CampaignLogged ==
  ASSUME HInv, DoneMeansLogged, at = "done", NEW m \in Nat, m = Len(log)
  PROVE  Cardinality(Campaign) \in Nat /\ Cardinality(Campaign) <= m
<1>. DEFINE Of(x, k) == log[k].target = x[1] /\ log[k].threads = x[2]
            f == [x \in Campaign |-> CHOOSE k \in 1 .. m : Of(x, k)]
<1>1. DOMAIN log = 1 .. m
  BY LogOfEntries
<1>2. ASSUME NEW x \in Campaign PROVE \E k \in 1 .. m : Of(x, k)
  <2>1. PICK p \in DOMAIN Targets, l \in DOMAIN Threads :
          Targets[p] \in Known /\ x = <<Targets[p], Threads[l]>>
    BY DEF Campaign
  <2>2. PICK k \in 1 .. m :
          log[k].target = Targets[p] /\ log[k].threads = Threads[l]
    BY <1>1, <2>1 DEF DoneMeansLogged
  <2>3. x[1] = Targets[p] /\ x[2] = Threads[l]
    BY <2>1
  <2>. QED BY <2>2, <2>3
<1>3. ASSUME NEW x \in Campaign PROVE f[x] \in 1 .. m /\ Of(x, f[x])
  <2>1. f[x] = CHOOSE k \in 1 .. m : Of(x, k)
    OBVIOUS
  <2>. HIDE DEF f, Of
  <2>. QED BY <1>2, <2>1
<1>4. \A x, y \in Campaign : x[1] = y[1] /\ x[2] = y[2] => x = y
  BY DEF Campaign
<1>5. f \in [Campaign -> 1 .. m]
  <2>1. \A x \in Campaign : f[x] \in 1 .. m
    BY <1>3
  <2>2. f = [x \in Campaign |-> f[x]]
    OBVIOUS
  <2>. HIDE DEF f
  <2>. QED BY <2>1, <2>2
<1>6. ASSUME NEW x \in Campaign, NEW y \in Campaign, f[x] = f[y] PROVE x = y
  <2>1. Of(x, f[x]) /\ Of(y, f[y])
    BY <1>3
  <2>. HIDE DEF f
  <2>2. x[1] = y[1] /\ x[2] = y[2]
    BY <1>6, <2>1
  <2>. QED BY <1>4, <2>2
<1>. HIDE DEF f
<1>7. f \in Injection(Campaign, 1 .. m)
  BY <1>5, <1>6 DEF Injection, IsInjective
<1>8. IsFiniteSet(1 .. m) /\ Cardinality(1 .. m) = m
  BY CountTo
<1>9. IsFiniteSet(Campaign) /\ Cardinality(Campaign) <= Cardinality(1 .. m)
  BY <1>7, <1>8, FS_Injection
<1>. QED BY <1>8, <1>9, FS_CardinalityType

(* Whatever is read, each row of it is that of a line of its own.          *)
LEMMA ReadOnce ==
  ASSUME HInv, FileInv, RowsInv
  PROVE  /\ \A j, k \in DOMAIN ParseYcsbLog :
              ParseYcsbLog[j] = ParseYcsbLog[k] => j = k
         /\ Len(ParseYcsbLog) >= Len(Results)
<1>1. PICK m \in Nat : m = Len(log)
  <2>1. Len(log) \in Nat
    BY LogOfEntries
  <2>. QED BY <2>1
<1>2. PICK res \in Seq(Rows) : res = Results
  BY ParseResults
<1>3. PICK n \in Nat : n = Len(res) /\ DOMAIN res = 1 .. n
  <2>1. Len(res) \in Nat /\ DOMAIN res = 1 .. Len(res)
    OBVIOUS
  <2>. QED BY <2>1
<1>4. PICK b : /\ b \in [1 .. n -> (1 .. m) \ Unmeasured]
               /\ \A p \in 1 .. n : res[p] = RowOf(log[b[p]])
               /\ \A p, q \in 1 .. n : b[p] = b[q] => p = q
  BY <1>1, <1>2, <1>3, ResultsOf
<1>5. \A p \in 1 .. n : b[p] \in 1 .. Len(log) /\ b[p] \notin Unmeasured
  BY <1>1, <1>4
<1>6. CASE ParseYcsbLog = res
  <2>1. \A p, q \in 1 .. n : res[p] = res[q] => p = q
    <3>1. AreRowsOf(res, n, b)
      BY <1>4, <1>5 DEF AreRowsOf
    <3>. QED BY <3>1, RowsDiffer
  <2>. QED BY <1>2, <1>3, <1>6, <2>1
<1>7. CASE /\ log # << >> /\ ~ log[Len(log)].measured
           /\ RowOf(log[Len(log)]) \in Rows
           /\ ParseYcsbLog = Append(res, RowOf(log[Len(log)]))
  <2>1. PICK row \in Rows : row = RowOf(log[m])
    BY <1>1, <1>7
  <2>2. PICK rows \in Seq(Rows) : rows = Append(res, row)
    <3>1. \A e \in Rows : Append(res, e) \in Seq(Rows)
      OBVIOUS
    <3>. QED BY <3>1
  <2>3. /\ ParseYcsbLog = rows /\ Len(rows) = n + 1 /\ DOMAIN rows = 1 .. (n + 1)
        /\ rows[n + 1] = row /\ \A p \in 1 .. n : rows[p] = res[p]
    BY <1>1, <1>3, <1>7, <2>1, <2>2
  <2>4. m \in 1 .. Len(log) /\ m \in Unmeasured
    <3>1. m # 0
      BY <1>1, <1>7, LogOfEntries
    <3>2. DOMAIN log = 1 .. m
      BY <1>1, LogOfEntries
    <3>. QED BY <1>1, <1>7, <3>1, <3>2 DEF Unmeasured
  <2>5. PICK c : c = [p \in 1 .. (n + 1) |-> IF p = n + 1 THEN m ELSE b[p]]
    OBVIOUS
  <2>6. /\ c[n + 1] = m /\ \A p \in 1 .. n : c[p] = b[p]
        /\ \A p \in 1 .. (n + 1) : p \in 1 .. n \/ p = n + 1
    BY <2>5
  <2>7. \A p \in 1 .. (n + 1) : c[p] \in 1 .. Len(log) /\ rows[p] = RowOf(log[c[p]])
    BY <1>4, <1>5, <2>1, <2>3, <2>4, <2>6
  <2>8. \A p, q \in 1 .. (n + 1) : c[p] = c[q] => p = q
    BY <1>4, <1>5, <2>4, <2>6
  <2>9. n + 1 \in Nat
    OBVIOUS
  <2>10. \A p, q \in 1 .. (n + 1) : rows[p] = rows[q] => p = q
    <3>1. AreRowsOf(rows, n + 1, c)
      BY <2>7, <2>8 DEF AreRowsOf
    <3>. QED BY <2>9, <3>1, RowsDiffer
  <2>11. Len(rows) >= n
    BY <2>3
  <2>. QED BY <1>2, <1>3, <2>3, <2>10, <2>11
<1>. QED BY <1>2, <1>6, <1>7, ParseResults

(* When the campaign is done the plots have each of its points once, but   *)
(* for one that may be missing for each interruption.                      *)
THEOREM PlotsCorrect == LogSpec => []PlotsComplete
<1>1. HInv /\ DoneMeansLogged /\ TextInv /\ RowsInv => PlotsComplete
  <2>. SUFFICES ASSUME HInv, DoneMeansLogged, TextInv, RowsInv, at = "done"
                PROVE  /\ \A j, k \in DOMAIN ParseYcsbLog :
                            ParseYcsbLog[j] = ParseYcsbLog[k] => j = k
                       /\ Len(ParseYcsbLog) + stops >= Cardinality(Campaign)
    BY DEF PlotsComplete
  <2>1. /\ \A j, k \in DOMAIN ParseYcsbLog :
             ParseYcsbLog[j] = ParseYcsbLog[k] => j = k
        /\ Len(ParseYcsbLog) >= Len(Results)
    BY ReadOnce DEF TextInv
  <2>2. PICK m \in Nat : m = Len(log)
    <3>1. Len(log) \in Nat
      BY LogOfEntries
    <3>. QED BY <3>1
  <2>3. PICK u \in Nat, n \in Nat :
          u = Cardinality(Unmeasured) /\ n = Len(Results) /\ n + u >= m
    BY <2>2, ResultsCounted
  <2>4. PICK x \in Nat : x = Cardinality(Campaign) /\ x <= m
    BY <2>2, CampaignLogged
  <2>5. PICK s \in Nat : s = stops /\ u <= s
    <3>1. at # "line" /\ stops \in Nat
      BY HarnessAssumption DEF HInv, TypeOK
    <3>2. Cardinality(Unmeasured) <= stops + 0
      BY <3>1 DEF HInv, LostResultsBounded
    <3>. QED BY <2>3, <3>1, <3>2
  <2>6. PICK r \in Nat : r = Len(ParseYcsbLog) /\ r >= n
    <3>1. Len(ParseYcsbLog) \in Nat
      <4>1. \A res \in Seq(Rows), row \in Rows :
              Len(res) \in Nat /\ Len(Append(res, row)) \in Nat
        OBVIOUS
      <4>. QED BY <4>1, ParseResults DEF TextInv
    <3>. QED BY <2>1, <2>3, <3>1
  <2>7. r + s >= x
    BY <2>3, <2>4, <2>5, <2>6
  <2>. QED BY <2>1, <2>4, <2>5, <2>6, <2>7
<1>2. LogSpec => []DoneMeansLogged
  BY LogImplementsHarness, DoneCorrect, PTL
<1>. QED BY <1>1, <1>2, RowsInvariance, PTL
=============================================================================
