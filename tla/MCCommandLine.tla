---------------------------- MODULE MCCommandLine ----------------------------
(* Values of the constants of CommandLine for model checking: all command  *)
(* lines of up to four words, and ones like those that the scripts write.  *)
EXTENDS CommandLine, TLC

MCString == STRING

MCDashed == {"-threads", "-db", "-P", "-load", "-run", "-p", "-x"}

MCAssignment ==
  "threadcount=04" :> [key |-> "threadcount", value |-> "04"] @@
  "splitlsm.dbpath=d" :> [key |-> "splitlsm.dbpath", value |-> "d"] @@
  "dbname=splitlsm" :> [key |-> "dbname", value |-> "splitlsm"]

MCFile ==
  "a.spec" :> << <<[key |-> "recordcount", value |-> "3"]>>,
                 << >>,
                 <<[key |-> "recordcount", value |-> "5"]>> >> @@
  "b.spec" :> << <<[key |-> "recordcount", value |-> "7"]>>,
                 <<[key |-> "threadcount", value |-> "8"]>> >>

MCBindings ==
  "splitlsm" :> "splitlsm.dbpath" @@ "unifiedlsm" :> "unifiedlsm.dbpath"

(* "2" is also a database name that is not known, and an unreadable file.  *)
MCStoi == "1" :> 1 @@ "2" :> 2 @@ "4" :> 4 @@ "04" :> 4 @@ "8" :> 8
MCDecimal == 1 :> "1" @@ 2 :> "2" @@ 4 :> "4" @@ 8 :> "8"

Word ==
  MCDashed \cup DOMAIN MCFile \cup {"threadcount=04", "splitlsm.dbpath=d", "splitlsm", "2"}

(* The command lines of run_abcd_workloads.sh, and ones with two files.    *)
Scripted ==
  {<<"-db", db, "-threads", n, phase, "-P", f, "-p", "splitlsm.dbpath=d">> \o more :
     db \in {"splitlsm", "2"}, n \in {"2", "4", "04", "x"}, phase \in {"-load", "-run"},
     f \in DOMAIN MCFile \cup {"2"},
     more \in {<< >>, <<"-p", "threadcount=04">>, <<"-p", "dbname=splitlsm">>,
               <<"-P", "a.spec">>, <<"-P", "b.spec">>, <<"-db", "splitlsm">>,
               <<"-load">>, <<"2">>}}

MCCommandLines == UNION {[1 .. n -> Word] : n \in 0 .. 4} \cup Scripted
=============================================================================
