--------------------------- MODULE DnsSimpleProofs ---------------------------
(***************************************************************************)
(* The sequential resolver logs the lines in the order of the input, and   *)
(* answers as HostLookup promises: for every input, whichever files cannot *)
(* be opened, and whenever a signal comes.                                 *)
(*                                                                         *)
(* What main has passed is in the log, file by file up to the next line,   *)
(* but for the files it had to skip; and the log holds nothing else.       *)
(***************************************************************************)
EXTENDS DnsSimple, DataLemmas

BeforeFiles == {"args", "count", "open"}

(* Main is past position x.                                                 *)
Past(x) == x[1] < argi \/ (x[1] = argi /\ x[2] < line)

TypeInv ==
  /\ argi \in Nat \ {0}
  /\ line \in Nat
  /\ log \in Seq(Positions)
  /\ line > 0 => argi \in Files /\ line <= Lines[argi] + 1
  /\ pc \in BeforeFiles => argi = 1 /\ line = 0 /\ log = <<>>

(* The last line logged is the one before the next, of this file or of the  *)
(* last one that was read.                                                  *)
LastLogged ==
  log # <<>> =>
    LET x == log[Len(log)] IN
    IF line > 1 THEN x = <<argi, line - 1>>
                ELSE x[1] < argi /\ x[2] = Lines[x[1]]

LoggedPast == \A x \in Range(log) : Past(x)
PastLogged == \A x \in Due : Past(x) => x \in Range(log)

Inv == TypeInv /\ LastLogged /\ InInputOrder /\ LoggedPast /\ PastLogged

LEMMA PositionIs ==
  /\ Files = 1 .. Len(Lines) /\ Len(Lines) \in Nat
  /\ \A f \in Files : Lines[f] \in Nat
  /\ \A x \in Positions : /\ x = <<x[1], x[2]>> /\ x[1] \in Files /\ x[1] \in Nat
                          /\ x[2] \in Nat \ {0} /\ x[2] <= Lines[x[1]]
  /\ \A f \in Files : \A k \in 1 .. Lines[f] : <<f, k>> \in Positions
<1>1. Files = 1 .. Len(Lines) /\ Len(Lines) \in Nat /\ \A f \in Files : Lines[f] \in Nat
  BY InputAssumption DEF Files
<1>2. ASSUME NEW x \in Positions
      PROVE  \E f \in Files : \E k \in 1 .. Lines[f] : x = <<f, k>>
  BY DEF Positions
<1>3. \A f \in Files : \A k \in 1 .. Lines[f] : <<f, k>> \in Positions
  BY DEF Positions
<1> QED
  BY <1>1, <1>2, <1>3

(* The next line is logged.                                                 *)
LEMMA LineLogged ==
  ASSUME Inv, ProcessLine
  PROVE  Inv'
<1> DEFINE e == <<argi, line>>
           G == log
<1>1. /\ argi \in Files /\ argi \in Nat \ {0} /\ line \in Nat \ {0} /\ line <= Lines[argi]
      /\ G \in Seq(Positions) /\ Lines[argi] \in Nat
      /\ G' = Append(G, e) /\ line' = line + 1 /\ argi' = argi /\ pc' = pc
      /\ pc = "files" /\ Len(G) \in Nat
  BY PositionIs DEF Inv, TypeInv, ProcessLine, InFile
<1>2. e \in Positions /\ e[1] = argi /\ e[2] = line
  BY <1>1, PositionIs
<1>3. LastLogged /\ LoggedPast /\ PastLogged
      /\ \A i \in 1 .. Len(G) - 1 :
           \/ G[i + 1] = <<G[i][1], G[i][2] + 1>>
           \/ G[i + 1][1] > G[i][1] /\ G[i + 1][2] = 1 /\ G[i][2] = Lines[G[i][1]]
  BY DEF Inv, InInputOrder
<1>4. G # <<>> => IF line > 1 THEN G[Len(G)] = <<argi, line - 1>>
                  ELSE G[Len(G)][1] < argi /\ G[Len(G)][2] = Lines[G[Len(G)][1]]
  BY <1>3 DEF LastLogged
<1>5. /\ \A x \in Range(G) : Past(x)
      /\ \A x \in Due : Past(x) => x \in Range(G)
  BY <1>3 DEF LoggedPast, PastLogged
<1> HIDE DEF e, G
<1>6. /\ G' \in Seq(Positions) /\ Len(G') = Len(G) + 1
      /\ Range(G') = Range(G) \cup {e}
      /\ \A i \in 1 .. Len(G) : G'[i] = G[i]
      /\ G'[Len(G) + 1] = e /\ G' # <<>>
  BY <1>1, <1>2, AppendElements
<1>7. TypeInv'
  BY <1>1, <1>6 DEF TypeInv, BeforeFiles, G
<1>8. LastLogged'
  <2>1. log' = G' /\ line' > 1 /\ line' - 1 = line /\ e = <<argi', line>>
    BY <1>1 DEF G, e
  <2> QED
    BY <1>6, <2>1 DEF LastLogged
<1>9. InInputOrder'
  <2>0. Len(G') - 1 = Len(G)
    BY <1>1, <1>6
  <2> SUFFICES ASSUME NEW i \in 1 .. Len(G)
               PROVE  \/ G'[i + 1] = <<G'[i][1], G'[i][2] + 1>>
                      \/ G'[i + 1][1] > G'[i][1] /\ G'[i + 1][2] = 1
                         /\ G'[i][2] = Lines[G'[i][1]]
    BY <2>0 DEF InInputOrder, G
  <2>1. CASE i = Len(G)
    <3>1. G # <<>> /\ G'[i] = G[Len(G)] /\ G'[i + 1] = e
      BY <1>1, <1>6, <2>1
    <3>2. CASE line > 1
      <4>1. G'[i][1] = argi /\ G'[i][2] = line - 1
        BY <1>4, <3>1, <3>2
      <4>2. G'[i][2] + 1 = line
        BY <1>1, <4>1
      <4> QED
        BY <3>1, <4>1, <4>2 DEF e
    <3>3. CASE ~(line > 1)
      <4>1. line = 1 /\ G'[i][1] < argi /\ G'[i][2] = Lines[G'[i][1]]
        BY <1>1, <1>4, <3>1, <3>3
      <4>2. G'[i][1] \in Nat
        <5>1. G[Len(G)] \in Positions
          BY <1>1, <2>1
        <5> QED
          BY <3>1, <5>1, PositionIs
      <4> QED
        BY <1>1, <1>2, <3>1, <4>1, <4>2
    <3> QED
      BY <3>2, <3>3
  <2>2. CASE i \in 1 .. Len(G) - 1
    <3>1. i + 1 \in 1 .. Len(G) /\ G'[i] = G[i] /\ G'[i + 1] = G[i + 1]
      BY <1>1, <1>6, <2>2
    <3> QED
      BY <1>3, <2>2, <3>1
  <2> QED
    BY <1>1, <2>1, <2>2
<1>10. \A x \in Positions : Past(x)' <=> Past(x) \/ x = e
  <2> SUFFICES ASSUME NEW x \in Positions PROVE Past(x)' <=> Past(x) \/ x = e
    OBVIOUS
  <2>1. x = <<x[1], x[2]>> /\ x[1] \in Nat /\ x[2] \in Nat
    BY PositionIs
  <2>2. x = e <=> x[1] = argi /\ x[2] = line
    BY <1>2, <2>1 DEF e
  <2>3. x[2] < line + 1 <=> x[2] < line \/ x[2] = line
    BY <1>1, <2>1
  <2> QED
    BY <1>1, <2>2, <2>3 DEF Past
<1>11. LoggedPast'
  <2>1. Range(G) \subseteq Positions
    BY <1>1, RangeIs
  <2>2. \A x \in Range(G') : Past(x)'
    BY <1>2, <1>5, <1>6, <1>10, <2>1
  <2> QED
    BY <2>2 DEF LoggedPast, G
<1>12. PastLogged'
  <2>1. \A x \in Due : Past(x)' => x \in Range(G')
    BY <1>5, <1>6, <1>10 DEF Due
  <2> QED
    BY <2>1 DEF PastLogged, G
<1> QED
  BY <1>7, <1>8, <1>9, <1>11, <1>12 DEF Inv

(* The other steps leave the log as it is.                                  *)
LEMMA Moves ==
  ASSUME Inv, ~ProcessLine, [Next]_vars
  PROVE  Inv'
<1>1. /\ TypeInv /\ LastLogged /\ InInputOrder /\ LoggedPast /\ PastLogged
      /\ argi \in Nat \ {0} /\ line \in Nat /\ log \in Seq(Positions)
      /\ line > 0 => argi \in Files /\ line <= Lines[argi] + 1
  BY DEF Inv, TypeInv
<1>2. CASE CheckArguments \/ CountValid \/ OpenLog \/ Finish \/ HandleSignal \/ UNCHANGED vars
  <2>1. UNCHANGED <<argi, line, log>> /\ (pc' \in BeforeFiles => pc \in BeforeFiles)
    BY <1>2 DEF CheckArguments, CountValid, OpenLog, Finish, HandleSignal, vars, BeforeFiles
  <2> QED
    BY <1>1, <2>1 DEF Inv, TypeInv, LastLogged, InInputOrder, LoggedPast, PastLogged, Past
<1>3. CASE OpenFile
  <2>1. /\ pc = "files" /\ argi \in Files /\ line = 0 /\ line' = 1
        /\ UNCHANGED <<pc, argi, log>>
    BY <1>3 DEF OpenFile, AtFile
  <2>2. Lines[argi] \in Nat
    BY <2>1, PositionIs
  <2>3. \A x \in Positions : Past(x)' <=> Past(x)
    BY <1>1, <2>1, PositionIs DEF Past
  <2>4. Range(log) \subseteq Positions
    BY <1>1, RangeIs
  <2>5. TypeInv'
    BY <1>1, <2>1, <2>2 DEF TypeInv, BeforeFiles
  <2>6. LastLogged' /\ InInputOrder'
    BY <1>1, <2>1 DEF LastLogged, InInputOrder
  <2>7. LoggedPast' /\ PastLogged'
    BY <1>1, <2>1, <2>3, <2>4 DEF LoggedPast, PastLogged, Due
  <2> QED
    BY <2>5, <2>6, <2>7 DEF Inv
<1>4. CASE SkipFile \/ CloseFile
  <2>1. /\ pc = "files" /\ argi \in Files /\ argi' = argi + 1 /\ line' = 0
        /\ UNCHANGED <<pc, log>>
        /\ (line = 0 /\ MayFail(argi)) \/ (line > 0 /\ line > Lines[argi])
    BY <1>1, <1>4 DEF SkipFile, CloseFile, AtFile, InFile
  <2>2. Lines[argi] \in Nat
    BY <2>1, PositionIs
  <2>3. Range(log) \subseteq Positions
    BY <1>1, RangeIs
  <2>4. TypeInv'
    BY <1>1, <2>1 DEF TypeInv, BeforeFiles
  <2>5. LastLogged'
    <3> SUFFICES ASSUME log # <<>>
                 PROVE  log[Len(log)][1] < argi + 1 /\ log[Len(log)][2] = Lines[log[Len(log)][1]]
      BY <2>1 DEF LastLogged
    <3>1. CASE line > 1
      <4>1. log[Len(log)] = <<argi, line - 1>> /\ line = Lines[argi] + 1
        BY <1>1, <2>1, <2>2, <3>1 DEF LastLogged
      <4> QED
        BY <1>1, <2>2, <4>1
    <3>2. CASE ~(line > 1)
      <4>1. log[Len(log)] \in Positions
        BY <1>1
      <4> DEFINE x == log[Len(log)]
      <4>2. x[1] < argi /\ x[2] = Lines[x[1]] /\ x[1] \in Nat
        BY <1>1, <3>2, <4>1, PositionIs DEF LastLogged
      <4> HIDE DEF x
      <4>3. x[1] < argi + 1
        BY <1>1, <4>2
      <4> QED
        BY <4>2, <4>3 DEF x
    <3> QED
      BY <3>1, <3>2
  <2>6. InInputOrder'
    BY <1>1, <2>1 DEF InInputOrder
  <2>7. \A x \in Positions : Past(x) => Past(x)'
    BY <1>1, <2>1, PositionIs DEF Past
  <2>8. \A x \in Due : Past(x)' => Past(x)
    <3> SUFFICES ASSUME NEW x \in Due, Past(x)' PROVE Past(x)
      OBVIOUS
    <3>1. x \in Positions /\ ~MayFail(x[1])
      BY DEF Due, MayFail
    <3>2. /\ x[1] \in Nat /\ x[2] \in Nat \ {0} /\ x[2] <= Lines[x[1]]
          /\ x[1] < argi + 1 \/ (x[1] = argi + 1 /\ x[2] < 0)
      BY <2>1, <3>1, PositionIs DEF Past
    <3>3. x[1] < argi \/ x[1] = argi
      BY <1>1, <3>2
    <3> QED
      BY <1>1, <2>1, <2>2, <3>1, <3>2, <3>3 DEF Past
  <2>9. LoggedPast' /\ PastLogged'
    BY <1>1, <2>1, <2>3, <2>7, <2>8 DEF LoggedPast, PastLogged
  <2> QED
    BY <2>4, <2>5, <2>6, <2>9 DEF Inv
<1> QED
  BY <1>2, <1>3, <1>4 DEF Next, Run

LEMMA InvInit == Init => Inv
<1> SUFFICES ASSUME Init PROVE Inv
  OBVIOUS
<1>1. log = <<>> /\ argi = 1 /\ line = 0
  BY DEF Init
<1>2. TypeInv /\ LastLogged
  BY <1>1 DEF TypeInv, LastLogged
<1>3. InInputOrder /\ LoggedPast
  BY <1>1 DEF InInputOrder, LoggedPast, Range
<1>4. \A x \in Due : ~Past(x)
  <2> SUFFICES ASSUME NEW x \in Due, Past(x) PROVE FALSE
    OBVIOUS
  <2>1. x[1] \in Nat \ {0} /\ x[2] \in Nat
    BY PositionIs DEF Due
  <2> QED
    BY <1>1, <2>1 DEF Past
<1> QED
  BY <1>2, <1>3, <1>4 DEF Inv, PastLogged

LEMMA InvAlways == Spec => []Inv
<1>1. Inv /\ [Next]_vars => Inv'
  BY LineLogged, Moves
<1> QED
  BY <1>1, InvInit, PTL DEF Spec

(* The log is in the order of the input, and has no gap within a file.      *)
THEOREM InputOrderCorrect == Spec => []InInputOrder
<1>1. Inv => InInputOrder
  BY DEF Inv
<1> QED
  BY <1>1, InvAlways, PTL

Outcome == CASE pc = "exit"         -> "success"
             [] pc = "exit_failure" -> "failure"
             [] pc = "exit_signal"  -> "down"
             [] OTHER               -> "running"

LEMMA Promised ==
  ASSUME Inv, [Next]_vars
  PROVE  [HL!Next]_(HL!vars)
<1>0. /\ TypeInv /\ log \in Seq(Positions) /\ argi \in Nat \ {0}
      /\ LoggedPast /\ PastLogged
      /\ pc \in BeforeFiles => log = <<>>
  BY DEF Inv, TypeInv
<1>a. \A x : HL!Answered(x) <=> x \in Range(log)
  BY DEF HL!Answered, Range
<1>1. CASE ProcessLine
  <2> DEFINE x == <<argi, line>>
  <2>1. /\ argi \in Files /\ line \in 1 .. Lines[argi] /\ log' = Append(log, x)
        /\ pc = "files" /\ pc' = pc
    BY <1>0, <1>1, PositionIs DEF TypeInv, ProcessLine, InFile
  <2>2. x \in Positions
    BY <2>1, PositionIs
  <2>3. ~Past(x)
    BY <1>0, <2>1, PositionIs DEF Past
  <2>4. Outcome = "running" /\ Outcome' = "running"
    BY <2>1 DEF Outcome
  <2> HIDE DEF x
  <2>5. HL!Answer(x)
    BY <1>0, <1>a, <2>1, <2>3, <2>4 DEF HL!Answer, Outcome, LoggedPast
  <2> QED
    BY <2>2, <2>5 DEF HL!Next
<1>2. CASE Finish
  <2>1. pc = "files" /\ argi \notin Files /\ pc' = "exit" /\ log' = log
    BY <1>2 DEF Finish
  <2>2. Outcome = "running" /\ Outcome' = "success"
    BY <2>1 DEF Outcome
  <2>3. ASSUME NEW x \in Due PROVE Past(x)
    <3>1. x[1] \in Files /\ x[1] \in Nat
      BY PositionIs DEF Due
    <3> QED
      BY <1>0, <2>1, <3>1, PositionIs DEF Past
  <2>4. \A x \in Due : HL!Answered(x)
    BY <1>0, <1>a, <2>3 DEF PastLogged
  <2> QED
    BY <2>1, <2>2, <2>4 DEF HL!Next, HL!Succeed, Outcome
<1>3. CASE CheckArguments \/ CountValid \/ OpenLog
  <2>1. pc \in BeforeFiles /\ log' = log /\ pc' \in BeforeFiles \cup {"files", "exit_failure"}
    BY <1>3 DEF CheckArguments, CountValid, OpenLog, BeforeFiles
  <2>2. Outcome = "running"
    BY <2>1 DEF Outcome, BeforeFiles
  <2>3. CASE pc' = "exit_failure"
    <3>1. Outcome' = "failure"
      BY <2>3 DEF Outcome
    <3> QED
      BY <1>0, <2>1, <2>2, <3>1 DEF HL!Next, HL!Fail, Outcome
  <2>4. CASE pc' # "exit_failure"
    <3>1. Outcome' = "running"
      BY <2>1, <2>4 DEF Outcome, BeforeFiles
    <3> QED
      BY <2>1, <2>2, <3>1 DEF HL!vars, Outcome
  <2> QED
    BY <2>3, <2>4
<1>4. CASE HandleSignal
  <2>1. log' = log /\ pc' = "exit_signal" /\ pc \notin {"exit", "exit_failure", "exit_signal"}
    BY <1>4 DEF HandleSignal, Ended
  <2>2. Outcome = "running" /\ Outcome' = "down"
    BY <2>1 DEF Outcome
  <2> QED
    BY <2>1, <2>2 DEF HL!Next, HL!BroughtDown, Outcome
<1>5. CASE OpenFile \/ SkipFile \/ CloseFile \/ UNCHANGED vars
  <2>1. UNCHANGED <<pc, log>>
    BY <1>5 DEF OpenFile, SkipFile, CloseFile, vars
  <2> QED
    BY <2>1 DEF HL!vars
<1> QED
  BY <1>1, <1>2, <1>3, <1>4, <1>5 DEF Next, Run

(* The program does what HostLookup promises, for every line: answered once,*)
(* all that are due when it succeeds, none when it fails.                   *)
THEOREM SimpleLookupCorrect == Spec => ImplementsHostLookup
<1>1. Init => HL!Init
  BY DEF Init, HL!Init
<1>2. Inv /\ [Next]_vars => [HL!Next]_(HL!vars)
  BY Promised
<1> QED
  BY <1>1, <1>2, InvAlways, PTL DEF Spec, ImplementsHostLookup, HL!Spec

=============================================================================
