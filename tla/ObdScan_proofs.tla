--------------------------- MODULE ObdScan_proofs ---------------------------
(***************************************************************************)
(* For every set of scans, every list of commands and every adapter that   *)
(* answers in order: a scan records its own answers, each for its command, *)
(* from its start or from the moment it has recovered.                     *)
(***************************************************************************)
EXTENDS ObdScan, TLAPS

\* Whatever an adapter sends for command k is a fragment of that command.
LEMMA ResponsesAreFragments ==
    ASSUME NEW s \in Scan, NEW k \in 1..Len(Commands), NEW r \in Responses(s, k)
    PROVE  /\ r \in Seq(Fragment)
           /\ \A n \in DOMAIN r :
                 /\ r[n].by = s /\ r[n].index = k
                 /\ r[n].kind = "prompt" => n = Len(r)
<1>1. CASE r = <<>>
  BY <1>1
<1>2. Prompt(s, k) \in Fragment /\ Prompt(s, k).by = s /\ Prompt(s, k).index = k
  BY DEF Prompt, Fragment
<1>3. CASE r = <<Prompt(s, k)>>
  BY <1>2, <1>3
<1>4. ASSUME r # <<>>, r # <<Prompt(s, k)>>
      PROVE  /\ r \in Seq(Fragment)
             /\ \A n \in DOMAIN r :
                   /\ r[n].by = s /\ r[n].index = k
                   /\ r[n].kind = "prompt" => n = Len(r)
  <2>1. r = <<[kind |-> "data", by |-> s, index |-> k], Prompt(s, k)>>
    BY <1>4 DEF Responses
  <2> DEFINE first == [kind |-> "data", by |-> s, index |-> k]
             last == Prompt(s, k)
  <2>2. first \in Fragment /\ last \in Fragment
    BY <1>2 DEF Fragment
  <2>3. first.kind # "prompt" /\ first.by = s /\ first.index = k
    OBVIOUS
  <2>4. last.by = s /\ last.index = k
    BY <1>2
  <2> HIDE DEF first, last
  <2>5. r = <<first, last>>
    BY <2>1 DEF first, last
  <2>6. r \in Seq(Fragment) /\ DOMAIN r = 1..2 /\ Len(r) = 2 /\ r[1] = first /\ r[2] = last
    BY <2>2, <2>5
  <2> QED
    BY <2>3, <2>4, <2>6
<1> QED
  BY <1>1, <1>3, <1>4

\* query clears the buffer.
LEMMA ClearedIsEmpty == ASSUME NEW b \in Seq(Fragment) PROVE Cleared(b) = <<>>
BY DEF Cleared

LEMMA CommandsExist == Len(Commands) \in Nat /\ Len(Commands) >= 1
BY ObdScanAssumption

\* Commands are counted.
LEMMA IndexIsNatural ==
    ASSUME NEW a \in Seq(Fragment), NEW n \in DOMAIN a
    PROVE  a[n] \in Fragment /\ a[n].index \in Nat
<1>1. a[n] \in Fragment
  OBVIOUS
<1>2. a[n].index \in 1..Len(Commands)
  BY <1>1 DEF Fragment
<1> QED
  BY <1>1, <1>2, CommandsExist

\* A fragment that moves from the air to the buffer keeps their concatenation.
LEMMA Delivery ==
    ASSUME NEW b \in Seq(Fragment), NEW a \in Seq(Fragment), a # <<>>
    PROVE  Append(b, Head(a)) \o Tail(a) = b \o a
OBVIOUS

\* What is owned as a whole is owned in its first part.
LEMMA OwnPrefix ==
    ASSUME NEW b \in Seq(Fragment), NEW a \in Seq(Fragment), NEW s,
           Own(b \o a, s), NEW n \in DOMAIN b
    PROVE  /\ b[n].by = s /\ b[n].index = current[s]
           /\ b[n].kind = "prompt" => a = <<>>
<1>1. n \in DOMAIN (b \o a) /\ (b \o a)[n] = b[n]
  OBVIOUS
<1>2. n = Len(b \o a) => Len(a) = 0
  OBVIOUS
<1>3. Len(a) = 0 => a = <<>>
  OBVIOUS
<1> QED
  BY <1>1, <1>2, <1>3 DEF Own

\* When the prompt of its command has reached a scan, nothing more is due.
LEMMA OwnEndReached ==
    ASSUME NEW b \in Seq(Fragment), NEW a \in Seq(Fragment), NEW s,
           OwnEnd(b \o a, s), NEW n \in DOMAIN b, b[n] = Prompt(s, current[s])
    PROVE  a = <<>>
<1>1. n \in DOMAIN (b \o a) /\ (b \o a)[n] = b[n]
  OBVIOUS
<1>2. n = Len(b \o a)
  BY <1>1 DEF OwnEnd
<1>3. Len(a) = 0
  BY <1>2
<1> QED
  BY <1>3

-----------------------------------------------------------------------------
(* Types.                                                                  *)

\* A query keeps the types of what it writes.
LEMMA QueryType ==
    ASSUME ObdTypeOK, NEW s \in Scan, NEW k \in 1..Len(Commands), Query(s, k)
    PROVE  /\ buffer' \in [Scan -> Seq(Fragment)]
           /\ current' \in [Scan -> 0..Len(Commands)]
           /\ waited' \in [Scan -> 0..QueryTicks]
           /\ air' \in Seq(Fragment)
<1>1. k \in 0..Len(Commands) /\ 0 \in 0..QueryTicks
  BY CommandsExist, ObdScanAssumption
<1>2. buffer[s] \in Seq(Fragment) /\ Cleared(buffer[s]) = <<>>
  BY ClearedIsEmpty DEF ObdTypeOK
<1>3. PICK r \in Responses(s, k) : air' = air \o r
  BY DEF Query
<1>4. r \in Seq(Fragment)
  BY ResponsesAreFragments
<1>5. air' \in Seq(Fragment)
  BY <1>3, <1>4 DEF ObdTypeOK
<1> QED
  BY <1>1, <1>2, <1>5 DEF Query, ObdTypeOK

\* So does recording an answer.
LEMMA RecordedType ==
    ASSUME ObdTypeOK, NEW s \in Scan, Recorded1(s)
    PROVE  raw' \in [Scan -> Seq(Seq(Fragment))]
<1>1. Append(raw[s], buffer[s]) \in Seq(Seq(Fragment))
  BY DEF ObdTypeOK
<1> QED
  BY <1>1 DEF Recorded1, ObdTypeOK

\* And so does closing the link.
LEMMA CloseType ==
    ASSUME ObdTypeOK, NEW s \in Scan,
           NEW code \in {"report", "timeout", "failed"}, Close(s, code)
    PROVE  /\ scanAt' \in [Scan -> {"new", "linked", "open", "waiting", "over"}]
           /\ outcome' \in [Scan -> {"none", "report", "timeout", "failed"}]
           /\ link' \in Scan \cup {NoScan}
           /\ air' \in Seq(Fragment)
<1>1. <<>> \in Seq(Fragment)
  OBVIOUS
<1>2. air' \in Seq(Fragment)
  BY <1>1 DEF Close, ObdTypeOK
<1> QED
  BY <1>2 DEF Close, ObdTypeOK

LEMMA ObdTypeStep ==
    ASSUME ObdTypeOK, [ObdNext]_obdVars
    PROVE  ObdTypeOK'
<1>1. ASSUME NEW s \in Scan, Connect(s) \/ Subscribe(s) PROVE ObdTypeOK'
  BY <1>1 DEF ObdTypeOK, Connect, Subscribe
<1>2. ASSUME NEW s \in Scan, ConnectFails(s) PROVE ObdTypeOK'
  BY <1>2 DEF ObdTypeOK, ConnectFails
<1>3. ASSUME NEW s \in Scan, FirstQuery(s) PROVE ObdTypeOK'
  <2>1. 1 \in 1..Len(Commands)
    BY CommandsExist
  <2> QED
    BY <1>3, <2>1, QueryType DEF FirstQuery, ObdTypeOK
<1>4. ASSUME NEW s \in Scan, NextQuery(s) PROVE ObdTypeOK'
  <2>1. current[s] + 1 \in 1..Len(Commands)
    BY <1>4, CommandsExist DEF NextQuery, ObdTypeOK
  <2> QED
    BY <1>4, <2>1, QueryType, RecordedType DEF NextQuery, ObdTypeOK
<1>5. ASSUME NEW s \in Scan, Report(s) PROVE ObdTypeOK'
  BY <1>5, RecordedType, CloseType DEF Report, ObdTypeOK
<1>6. ASSUME NEW s \in Scan, TimedOut(s) \/ LinkLost(s) PROVE ObdTypeOK'
  BY <1>6, CloseType DEF TimedOut, LinkLost, ObdTypeOK
<1>7. CASE Notify \/ AdapterDrops
  <2>0. CASE AdapterDrops
    BY <2>0 DEF AdapterDrops, ObdTypeOK
  <2> SUFFICES ASSUME Notify PROVE ObdTypeOK'
    BY <1>7, <2>0
  <2>1. link \in Scan /\ air # <<>>
    BY DEF Notify, ObdTypeOK
  <2>2. Append(buffer[link], Head(air)) \in Seq(Fragment) /\ Tail(air) \in Seq(Fragment)
    BY <2>1 DEF ObdTypeOK
  <2> QED
    BY <2>1, <2>2 DEF Notify, ObdTypeOK
<1>8. CASE ObdTick
  <2>1. \A s \in Scan : waited[s] \in 0..QueryTicks
    BY DEF ObdTypeOK
  <2>2. \A s \in Scan : scanAt[s] = "waiting" => waited[s] < QueryTicks
    BY <1>8 DEF ObdTick
  <2>3. QueryTicks \in Nat
    BY ObdScanAssumption
  <2>4. ASSUME NEW s \in Scan, scanAt[s] = "waiting"
        PROVE  waited[s] + 1 \in 0..QueryTicks
    BY <2>1, <2>2, <2>3, <2>4
  <2> QED
    BY <1>8, <2>1, <2>4 DEF ObdTick, ObdTypeOK
<1>9. CASE UNCHANGED obdVars
  BY <1>9 DEF ObdTypeOK, obdVars
<1> QED
  BY <1>1, <1>2, <1>3, <1>4, <1>5, <1>6, <1>7, <1>8, <1>9 DEF ObdNext, ScanStep

-----------------------------------------------------------------------------
(* Answers in step.                                                        *)

\* The scan that waits has the adapter, so that no other one does.
LEMMA OneAtATime ==
    ASSUME ObdIInv, NEW s \in Scan, scanAt[s] \in {"linked", "open", "waiting"},
           NEW t \in Scan, t # s
    PROVE  scanAt[t] \notin {"linked", "open", "waiting"}
BY DEF ObdIInv, InStep

\* A query on an empty air leaves only fragments of its own command.
LEMMA QueryOwns ==
    ASSUME ObdTypeOK, NEW s \in Scan, NEW k \in 1..Len(Commands), Query(s, k),
           air = <<>>
    PROVE  Own(buffer[s] \o air, s)'
<1>1. PICK r \in Responses(s, k) : air' = air \o r
  BY DEF Query
<1>2. r \in Seq(Fragment)
  BY ResponsesAreFragments
<1>3. buffer'[s] = <<>> /\ current'[s] = k
  BY ClearedIsEmpty DEF Query, ObdTypeOK
<1>4. air' = r
  BY <1>1, <1>2
<1>5. buffer'[s] \o air' = r
  BY <1>2, <1>3, <1>4
<1> QED
  BY <1>3, <1>5, ResponsesAreFragments DEF Own

\* No query was sent before for the command of a query, so that the prompt of
\* its answer is new and comes last.
LEMMA QueryEnds ==
    ASSUME ObdTypeOK, NEW s \in Scan, NEW k \in 1..Len(Commands), Query(s, k),
           \A n \in DOMAIN air : air[n].by = s => air[n].index < k
    PROVE  /\ OwnEnd(buffer[s] \o air, s)'
           /\ \A n \in DOMAIN air' : air'[n].by = s => air'[n].index <= k
<1>1. PICK r \in Responses(s, k) : air' = air \o r
  BY DEF Query
<1>2. /\ r \in Seq(Fragment) /\ air \in Seq(Fragment)
      /\ \A n \in DOMAIN r : r[n].index = k /\ (r[n].kind = "prompt" => n = Len(r))
  <2>1. air \in Seq(Fragment)
    BY DEF ObdTypeOK
  <2> QED
    BY <2>1, ResponsesAreFragments
<1>3. buffer'[s] \o air' = air \o r /\ current'[s] = k
  <2>1. buffer[s] \in Seq(Fragment)
    BY DEF ObdTypeOK
  <2>2. buffer'[s] = <<>> /\ current'[s] = k
    BY <2>1, ClearedIsEmpty DEF Query, ObdTypeOK
  <2>3. <<>> \o (air \o r) = air \o r
    BY <1>2
  <2> QED
    BY <1>1, <2>2, <2>3
<1>4. k \in Nat /\ \A n \in DOMAIN air : air[n].index \in Nat
  BY <1>2, IndexIsNatural, CommandsExist
<1>5. ASSUME NEW n \in DOMAIN (air \o r)
      PROVE  \/ n \in DOMAIN air /\ (air \o r)[n] = air[n]
             \/ /\ n - Len(air) \in DOMAIN r
                /\ (air \o r)[n] = r[n - Len(air)]
  BY <1>2
<1>6. ASSUME NEW n \in DOMAIN (air \o r), (air \o r)[n] = Prompt(s, k)
      PROVE  n = Len(air \o r)
  <2>1. Prompt(s, k).by = s /\ Prompt(s, k).index = k /\ Prompt(s, k).kind = "prompt"
    BY DEF Prompt
  <2>2. ~(n \in DOMAIN air /\ (air \o r)[n] = air[n])
    BY <1>4, <1>6, <2>1
  <2>3. n - Len(air) = Len(r)
    BY <1>2, <1>5, <1>6, <2>1, <2>2
  <2> QED
    BY <1>2, <2>3
<1>7. OwnEnd(buffer[s] \o air, s)'
  BY <1>3, <1>6 DEF OwnEnd
<1>8. ASSUME NEW n \in DOMAIN (air \o r), (air \o r)[n].by = s
      PROVE  (air \o r)[n].index <= k
  BY <1>2, <1>4, <1>5, <1>8
<1> QED
  BY <1>1, <1>7, <1>8

\* A query adds nothing to what is in the air for another scan.
LEMMA QueryOfAnother ==
    ASSUME ObdIInv, NEW s \in Scan, NEW k \in 1..Len(Commands), Query(s, k),
           NEW t \in Scan, t # s
    PROVE  \A n \in DOMAIN air' : air'[n].by = t => air'[n].index <= current'[t]
<1>1. PICK r \in Responses(s, k) : air' = air \o r
  BY DEF Query
<1>2. /\ r \in Seq(Fragment) /\ air \in Seq(Fragment)
      /\ \A n \in DOMAIN r : r[n].by = s
  BY ResponsesAreFragments DEF ObdIInv, ObdTypeOK
<1>3. current'[t] = current[t]
  BY DEF Query, ObdIInv, ObdTypeOK
<1>4. \A n \in DOMAIN air : air[n].by = t => air[n].index <= current[t]
  BY DEF ObdIInv, InStep
<1>5. ASSUME NEW n \in DOMAIN (air \o r), (air \o r)[n].by = t
      PROVE  (air \o r)[n].index <= current[t]
  <2>1. \/ n \in DOMAIN air /\ (air \o r)[n] = air[n]
        \/ n - Len(air) \in DOMAIN r /\ (air \o r)[n] = r[n - Len(air)]
    BY <1>2
  <2> QED
    BY <1>2, <1>4, <1>5, <2>1
<1> QED
  BY <1>1, <1>3, <1>5

LEMMA FirstQueryStep ==
    ASSUME ObdIInv, NEW s \in Scan, FirstQuery(s)
    PROVE  (\A t \in Scan : InStep(t))' /\ (AnswersInStep /\ StaysInStep)'
<1>1. 1 \in 1..Len(Commands)
  BY CommandsExist
<1>2. /\ scanAt'[s] = "waiting" /\ link' = link /\ link = s /\ raw' = raw
      /\ raw[s] = <<>> /\ current[s] = 0 /\ current'[s] = 1
      /\ cleanLink' = cleanLink
  BY DEF FirstQuery, ObdIInv, ObdTypeOK, InStep, Query
<1>3. ASSUME Synced(s)' PROVE Own(buffer[s] \o air, s)'
  <2>1. cleanLink[s]
    BY <1>2, <1>3 DEF Synced
  <2> QED
    BY <1>1, <2>1, QueryOwns DEF ObdIInv, InStep, FirstQuery
<1>4. InStep(s)'
  <2>1. \A n \in DOMAIN air : air[n].by = s => air[n].index < 1
    <3>1. \A n \in DOMAIN air : air[n].by = s => air[n].index <= 0
      BY <1>2 DEF ObdIInv, InStep
    <3>2. \A n \in DOMAIN air : air[n].index \in Nat
      BY IndexIsNatural DEF ObdIInv, ObdTypeOK
    <3> QED
      BY <3>1, <3>2
  <2>2. /\ OwnEnd(buffer[s] \o air, s)'
        /\ \A n \in DOMAIN air' : air'[n].by = s => air'[n].index <= 1
    BY <1>1, <2>1, QueryEnds DEF FirstQuery, ObdIInv
  <2> QED
    BY <1>2, <1>3, <2>2 DEF InStep
<1>5. ASSUME NEW t \in Scan, t # s PROVE InStep(t)'
  <2>1. /\ scanAt'[t] = scanAt[t] /\ link' = link /\ raw' = raw
        /\ current'[t] = current[t] /\ scanAt[t] \notin {"linked", "open", "waiting"}
    BY <1>5, <1>2, OneAtATime DEF FirstQuery, Query, ObdIInv, ObdTypeOK
  <2>2. \A n \in DOMAIN air' : air'[n].by = t => air'[n].index <= current'[t]
    BY <1>1, <1>5, QueryOfAnother DEF FirstQuery
  <2> QED
    BY <1>5, <2>1, <2>2 DEF InStep, ObdIInv
<1>6. (AnswersInStep /\ StaysInStep)'
  BY <1>2 DEF ObdIInv, AnswersInStep, StaysInStep, Ended
<1> QED
  BY <1>4, <1>5, <1>6

\* An answer that is recorded when a prompt is there is complete, and the
\* answer of a scan that is in step is that of the command it is recorded for.
LEMMA RecordedInStep ==
    ASSUME ObdIInv, NEW s \in Scan, Answered(s), Recorded1(s),
           cleanLink' = cleanLink
    PROVE  /\ AnswersInStep' /\ StaysInStep'
           /\ Len(raw'[s]) = Len(raw[s]) + 1
           /\ Synced(s)' => air = <<>>
<1>1. /\ raw[s] \in Seq(Seq(Fragment)) /\ buffer[s] \in Seq(Fragment)
      /\ air \in Seq(Fragment)
      /\ raw'[s] = Append(raw[s], buffer[s])
      /\ \A t \in Scan : t # s => raw'[t] = raw[t]
  BY DEF ObdIInv, ObdTypeOK, Recorded1
<1>2. current[s] = Len(raw[s]) + 1 /\ OwnEnd(buffer[s] \o air, s)
  BY DEF ObdIInv, InStep, Answered
<1>3. ASSUME Synced(s)
      PROVE  \A n \in DOMAIN buffer[s] :
                /\ buffer[s][n].by = s /\ buffer[s][n].index = current[s]
                /\ buffer[s][n].kind = "prompt" => air = <<>>
  <2>1. Own(buffer[s] \o air, s)
    BY <1>3 DEF ObdIInv, InStep, Answered
  <2> QED
    BY <1>1, <2>1, OwnPrefix
<1>4. /\ Len(raw'[s]) = Len(raw[s]) + 1
      /\ DOMAIN raw'[s] = 1 .. Len(raw[s]) + 1
      /\ \A k \in DOMAIN raw[s] : raw'[s][k] = raw[s][k]
      /\ raw'[s][Len(raw[s]) + 1] = buffer[s]
      /\ DOMAIN raw[s] = 1 .. Len(raw[s])
  BY <1>1
<1>5. ASSUME Synced(s)' PROVE air = <<>>
  <2>1. CASE Synced(s)
    BY <1>3, <2>1 DEF Answered, Ready
  <2>2. CASE ~Synced(s)
    <3>1. PICK j \in DOMAIN raw'[s] : Ended(s, j)'
      BY <1>5, <2>2 DEF Synced
    <3>2. j \notin DOMAIN raw[s]
      BY <1>4, <2>2, <3>1 DEF Synced, Ended
    <3>3. j = current[s] /\ raw'[s][j] = buffer[s]
      BY <1>1, <1>2, <1>4, <3>2
    <3>4. \E n \in DOMAIN buffer[s] : buffer[s][n] = Prompt(s, current[s])
      BY <3>1, <3>3 DEF Ended
    <3> QED
      BY <1>1, <1>2, <3>4, OwnEndReached
  <2> QED
    BY <2>1, <2>2
<1>6. ASSUME NEW t \in Scan, cleanLink'[t], NEW k \in DOMAIN raw'[t],
             NEW n \in DOMAIN raw'[t][k]
      PROVE  raw'[t][k][n].by = t /\ raw'[t][k][n].index = k
  <2>1. CASE t # s
    <3>1. raw'[t] = raw[t] /\ cleanLink[t]
      BY <1>1, <1>6, <2>1
    <3>2. k \in DOMAIN raw[t] /\ n \in DOMAIN raw[t][k]
      BY <1>6, <3>1
    <3>3. raw[t][k][n].by = t /\ raw[t][k][n].index = k
      BY <3>1, <3>2 DEF ObdIInv, AnswersInStep
    <3> QED
      BY <3>1, <3>3
  <2>2. CASE t = s /\ k = Len(raw[s]) + 1
    <3>1. Synced(s)
      BY <1>6, <2>2 DEF Synced
    <3> QED
      BY <1>2, <1>3, <1>4, <1>6, <2>2, <3>1
  <2>3. CASE t = s /\ k # Len(raw[s]) + 1
    <3>1. k \in DOMAIN raw[s]
      BY <1>1, <1>4, <1>6, <2>3
    <3> QED
      BY <1>4, <1>6, <2>3, <3>1 DEF ObdIInv, AnswersInStep
  <2> QED
    BY <2>1, <2>2, <2>3
<1>7. AnswersInStep'
  BY <1>6 DEF AnswersInStep
<1>8. ASSUME NEW t \in Scan, NEW j \in DOMAIN raw'[t], NEW k \in DOMAIN raw'[t],
             j < k, Ended(t, j)', NEW n \in DOMAIN raw'[t][k]
      PROVE  raw'[t][k][n].by = t /\ raw'[t][k][n].index = k
  <2>1. CASE t # s
    <3>1. raw'[t] = raw[t]
      BY <1>1, <2>1
    <3>2. Ended(t, j)
      BY <1>8, <3>1 DEF Ended
    <3> QED
      BY <1>8, <3>1, <3>2 DEF ObdIInv, StaysInStep
  <2>2. CASE t = s
    <3>1. j \in DOMAIN raw[s] /\ Ended(s, j)
      <4>1. j \in DOMAIN raw[s]
        BY <1>1, <1>4, <1>8, <2>2
      <4> QED
        BY <1>4, <1>8, <2>2, <4>1 DEF Ended
    <3>2. CASE k = Len(raw[s]) + 1
      <4>1. Synced(s)
        BY <3>1 DEF Synced
      <4> QED
        BY <1>2, <1>3, <1>4, <1>8, <2>2, <3>2, <4>1
    <3>3. CASE k # Len(raw[s]) + 1
      <4>1. k \in DOMAIN raw[s]
        BY <1>1, <1>4, <1>8, <2>2, <3>3
      <4>2. raw'[s][k] = raw[s][k] /\ n \in DOMAIN raw[s][k]
        BY <1>4, <1>8, <2>2, <4>1
      <4>3. raw[s][k][n].by = s /\ raw[s][k][n].index = k
        BY <1>8, <3>1, <4>1, <4>2 DEF ObdIInv, StaysInStep
      <4> QED
        BY <2>2, <4>2, <4>3
    <3> QED
      BY <3>2, <3>3
  <2> QED
    BY <2>1, <2>2
<1>9. StaysInStep'
  BY <1>8 DEF StaysInStep
<1> QED
  BY <1>4, <1>5, <1>7, <1>9

LEMMA NextQueryStep ==
    ASSUME ObdIInv, NEW s \in Scan, NextQuery(s)
    PROVE  (\A t \in Scan : InStep(t))' /\ (AnswersInStep /\ StaysInStep)'
<1>1. current[s] + 1 \in 1..Len(Commands)
  BY CommandsExist DEF NextQuery, ObdIInv, ObdTypeOK
<1>2. /\ AnswersInStep' /\ StaysInStep'
      /\ Len(raw'[s]) = Len(raw[s]) + 1
      /\ Synced(s)' => air = <<>>
  BY RecordedInStep DEF NextQuery
<1>3. /\ scanAt' = scanAt /\ scanAt[s] = "waiting"
      /\ link' = link /\ link = s
      /\ current[s] = Len(raw[s]) + 1
      /\ current'[s] = current[s] + 1
      /\ cleanLink' = cleanLink
  BY DEF NextQuery, Answered, ObdIInv, ObdTypeOK, InStep, Query
<1>4. InStep(s)'
  <2>1. Synced(s)' => Own(buffer[s] \o air, s)'
    BY <1>1, <1>2, QueryOwns DEF NextQuery, ObdIInv
  <2>2. \A n \in DOMAIN air : air[n].by = s => air[n].index < current[s] + 1
    <3>1. \A n \in DOMAIN air : air[n].by = s => air[n].index <= current[s]
      BY DEF ObdIInv, InStep
    <3>2. current[s] \in Nat /\ \A n \in DOMAIN air : air[n].index \in Nat
      BY IndexIsNatural DEF ObdIInv, ObdTypeOK
    <3> QED
      BY <3>1, <3>2
  <2>3. /\ OwnEnd(buffer[s] \o air, s)'
        /\ \A n \in DOMAIN air' : air'[n].by = s => air'[n].index <= current[s] + 1
    BY <1>1, <2>2, QueryEnds DEF NextQuery, ObdIInv
  <2> QED
    BY <1>2, <1>3, <2>1, <2>3 DEF InStep
<1>5. ASSUME NEW t \in Scan, t # s PROVE InStep(t)'
  <2>1. /\ scanAt' = scanAt /\ link' = link /\ raw'[t] = raw[t]
        /\ current'[t] = current[t] /\ scanAt[t] \notin {"linked", "open", "waiting"}
    BY <1>5, <1>3, OneAtATime DEF NextQuery, Query, Recorded1, ObdIInv, ObdTypeOK
  <2>2. \A n \in DOMAIN air' : air'[n].by = t => air'[n].index <= current'[t]
    BY <1>1, <1>5, QueryOfAnother DEF NextQuery
  <2> QED
    BY <1>5, <2>1, <2>2 DEF InStep, ObdIInv
<1> QED
  BY <1>2, <1>4, <1>5

\* What is left in the air after a step that sends nothing is not younger.
LEMMA AirShrinks ==
    ASSUME ObdIInv, NEW t \in Scan, current' = current, air' \in {air, <<>>}
    PROVE  \A n \in DOMAIN air' : air'[n].by = t => air'[n].index <= current'[t]
BY DEF ObdIInv, InStep

LEMMA CloseInStep ==
    ASSUME ObdIInv, NEW s \in Scan, link = s,
           NEW code \in {"report", "timeout", "failed"}, Close(s, code),
           current' = current, \A t \in Scan \ {s} : raw'[t] = raw[t]
    PROVE  (\A t \in Scan : InStep(t))'
<1>0. \A t \in Scan : \A n \in DOMAIN air' :
        air'[n].by = t => air'[n].index <= current'[t]
  BY AirShrinks DEF Close
<1>1. link' = s \/ link' \notin Scan
  BY ObdScanAssumption DEF Close
<1>2. scanAt'[s] = "over"
  BY DEF Close, ObdIInv, ObdTypeOK
<1>3. ASSUME NEW t \in Scan, t # s PROVE InStep(t)'
  <2>1. /\ scanAt'[t] = scanAt[t] /\ raw'[t] = raw[t]
        /\ scanAt[t] \notin {"linked", "open", "waiting"}
    BY <1>3 DEF Close, ObdIInv, ObdTypeOK, InStep
  <2> QED
    BY <1>0, <1>1, <1>3, <2>1 DEF InStep, ObdIInv
<1>4. InStep(s)'
  BY <1>0, <1>1, <1>2 DEF InStep
<1> QED
  BY <1>3, <1>4

\* The end of a scan records at most its last answer.
LEMMA EndStep ==
    ASSUME ObdIInv, NEW s \in Scan, Report(s) \/ TimedOut(s) \/ LinkLost(s)
    PROVE  (\A t \in Scan : InStep(t))' /\ (AnswersInStep /\ StaysInStep)'
<1>1. CASE Report(s)
  <2>1. link = s
    BY <1>1 DEF Report, Answered, ObdIInv, InStep
  <2>2. \A t \in Scan \ {s} : raw'[t] = raw[t]
    BY <1>1 DEF Report, Recorded1, ObdIInv, ObdTypeOK
  <2> QED
    BY <1>1, <2>1, <2>2, CloseInStep, RecordedInStep DEF Report
<1>2. CASE TimedOut(s) \/ LinkLost(s)
  <2>1. link = s
    BY <1>2 DEF TimedOut, Expires, LinkLost, ObdIInv, InStep
  <2>2. raw' = raw /\ cleanLink' = cleanLink
    BY <1>2 DEF TimedOut, LinkLost
  <2>3. (AnswersInStep /\ StaysInStep)'
    BY <2>2 DEF ObdIInv, AnswersInStep, StaysInStep, Ended
  <2> QED
    BY <1>2, <2>1, <2>2, <2>3, CloseInStep DEF TimedOut, LinkLost
<1> QED
  BY <1>1, <1>2

\* A notification only moves a fragment.
LEMMA NotifyStep ==
    ASSUME ObdIInv, Notify
    PROVE  (\A t \in Scan : InStep(t))' /\ (AnswersInStep /\ StaysInStep)'
<1>1. (AnswersInStep /\ StaysInStep)'
  BY DEF Notify, ObdIInv, AnswersInStep, StaysInStep, Ended
<1>2. ASSUME NEW t \in Scan PROVE InStep(t)'
  <2>1. /\ scanAt' = scanAt /\ link' = link /\ raw' = raw
        /\ current' = current /\ cleanLink' = cleanLink
    BY DEF Notify
  <2>2. ASSUME scanAt[t] = "open", cleanLink[t] PROVE FALSE
    BY <2>2 DEF Notify, ObdIInv, InStep
  <2>3. ASSUME scanAt[t] = "waiting"
        PROVE  /\ OwnEnd(buffer[t] \o air, t)'
               /\ Synced(t)' => Own(buffer[t] \o air, t)'
    <3>1. /\ link = t /\ OwnEnd(buffer[t] \o air, t)
          /\ Synced(t) => Own(buffer[t] \o air, t)
      BY <2>3 DEF ObdIInv, InStep
    <3>2. buffer[t] \in Seq(Fragment) /\ air \in Seq(Fragment) /\ air # <<>>
      BY DEF Notify, ObdIInv, ObdTypeOK
    <3>3. buffer'[t] = Append(buffer[t], Head(air)) /\ air' = Tail(air)
      BY <2>3, <3>1 DEF Notify, ObdIInv, ObdTypeOK
    <3>4. buffer'[t] \o air' = buffer[t] \o air
      BY <3>2, <3>3, Delivery
    <3>5. Synced(t)' => Synced(t)
      BY <2>1 DEF Synced, Ended
    <3> QED
      BY <2>1, <3>1, <3>4, <3>5 DEF Own, OwnEnd
  <2>4. \A n \in DOMAIN air' : air'[n].by = t => air'[n].index <= current'[t]
    <3>1. air \in Seq(Fragment) /\ air # <<>> /\ air' = Tail(air)
      BY DEF Notify, ObdIInv, ObdTypeOK
    <3>2. \A n \in DOMAIN air' : n + 1 \in DOMAIN air /\ air'[n] = air[n + 1]
      BY <3>1
    <3> QED
      BY <2>1, <3>2 DEF ObdIInv, InStep
  <2> QED
    BY <2>1, <2>2, <2>3, <2>4 DEF InStep, ObdIInv
<1> QED
  BY <1>1, <1>2

\* So does the end of a connection that was not given back.
LEMMA DropStep ==
    ASSUME ObdIInv, AdapterDrops
    PROVE  (\A t \in Scan : InStep(t))' /\ (AnswersInStep /\ StaysInStep)'
<1>1. /\ scanAt' = scanAt /\ raw' = raw /\ cleanLink' = cleanLink /\ air' = <<>>
      /\ link' \notin Scan /\ scanAt[link] = "over"
  BY ObdScanAssumption DEF AdapterDrops
<1>2. \A t \in Scan : scanAt[t] \notin {"linked", "open", "waiting"}
  BY <1>1 DEF ObdIInv, InStep
<1>3. \A t \in Scan : InStep(t)'
  BY <1>1, <1>2 DEF AdapterDrops, InStep, ObdIInv
<1> QED
  BY <1>1, <1>3 DEF ObdIInv, AnswersInStep, StaysInStep, Ended

\* A scan connects or not, and subscribes, before it records anything.
LEMMA ConnectStep ==
    ASSUME ObdIInv, NEW s \in Scan, Connect(s) \/ ConnectFails(s) \/ Subscribe(s)
    PROVE  (\A t \in Scan : InStep(t))' /\ (AnswersInStep /\ StaysInStep)'
<1>1. /\ raw[s] = <<>> /\ raw' = raw /\ air' = air /\ current' = current
      /\ buffer' = buffer
  BY DEF Connect, ConnectFails, Subscribe, ObdIInv, InStep
<1>2. \A t \in Scan : t # s => cleanLink'[t] = cleanLink[t] /\ scanAt'[t] = scanAt[t]
  BY DEF Connect, ConnectFails, Subscribe, ObdIInv, ObdTypeOK
<1>3. (AnswersInStep /\ StaysInStep)'
  <2>1. ASSUME NEW t \in Scan, cleanLink'[t], NEW k \in DOMAIN raw'[t]
        PROVE  cleanLink[t]
    BY <1>1, <1>2, <2>1
  <2> QED
    BY <1>1, <2>1 DEF ObdIInv, AnswersInStep, StaysInStep, Ended
<1>4. InStep(s)'
  <2>1. CASE Connect(s)
    <3>1. scanAt'[s] = "linked" /\ link' = s /\ scanAt[s] = "new"
      BY <2>1 DEF Connect, ObdIInv, ObdTypeOK
    <3> QED
      BY <1>1, <3>1 DEF InStep, ObdIInv
  <2>2. CASE ConnectFails(s)
    <3>1. scanAt'[s] = "over" /\ link' = link
      BY <2>2 DEF ConnectFails, ObdIInv, ObdTypeOK
    <3> QED
      BY <1>1, <3>1 DEF InStep, ObdIInv
  <2>3. CASE Subscribe(s)
    <3>1. /\ scanAt[s] = "linked" /\ scanAt'[s] = "open" /\ link' = link
          /\ cleanLink'[s] = (air = <<>>)
      BY <2>3 DEF Subscribe, ObdIInv, ObdTypeOK
    <3> QED
      BY <1>1, <3>1 DEF InStep, ObdIInv
  <2> QED
    BY <2>1, <2>2, <2>3
<1>5. ASSUME NEW t \in Scan, t # s PROVE InStep(t)'
  <2>1. (link = t) = (link' = t) \/ link = NoScan
    BY <1>5 DEF Connect, ConnectFails, Subscribe
  <2>2. link = NoScan => scanAt[t] \notin {"linked", "open", "waiting"}
    BY ObdScanAssumption DEF ObdIInv, InStep
  <2>3. link' = t => link = t
    BY <1>5 DEF Connect, ConnectFails, Subscribe
  <2>4. Synced(t)' = Synced(t)
    BY <1>1, <1>2, <1>5 DEF Synced, Ended
  <2> QED
    BY <1>1, <1>2, <1>5, <2>1, <2>2, <2>3, <2>4 DEF InStep, ObdIInv, Own, OwnEnd
<1> QED
  BY <1>3, <1>4, <1>5

\* The inductive step.
LEMMA ObdStep ==
    ASSUME ObdIInv, [ObdNext]_obdVars
    PROVE  ObdIInv'
<1>1. ObdTypeOK'
  BY ObdTypeStep DEF ObdIInv
<1>2. (\A t \in Scan : InStep(t))' /\ (AnswersInStep /\ StaysInStep)'
  <2>1. CASE ObdTick
    BY <2>1 DEF ObdTick, ObdIInv, InStep, Own, OwnEnd, Synced, Ended, AnswersInStep,
                StaysInStep
  <2>2. CASE UNCHANGED obdVars
    BY <2>2 DEF obdVars, ObdIInv, InStep, Own, OwnEnd, Synced, Ended, AnswersInStep,
                StaysInStep
  <2> QED
    BY <2>1, <2>2, ConnectStep, FirstQueryStep, NextQueryStep, EndStep, NotifyStep,
       DropStep
    DEF ObdNext, ScanStep
<1> QED
  BY <1>1, <1>2 DEF ObdIInv

\* The adapter has not sent anything before the first scan connects.
LEMMA ObdStart == ObdInit => ObdIInv
<1>1. ASSUME ObdInit PROVE ObdTypeOK
  BY <1>1, ObdScanAssumption, CommandsExist DEF ObdInit, ObdTypeOK
<1> QED
  BY <1>1, ObdScanAssumption
  DEF ObdInit, ObdIInv, InStep, AnswersInStep, StaysInStep

\* Unless the adapter owed answers when a scan connected, every answer that the
\* scan records is its own and the one of the command it is recorded for: that
\* query clears the buffer and waits for a prompt is enough, however the
\* answers are fragmented, delayed or lost.
THEOREM AnswersAreInStep == ObdSpec => []AnswersInStep
<1>1. ObdIInv => AnswersInStep
  BY DEF ObdIInv
<1> QED
  BY <1>1, ObdStart, ObdStep, PTL DEF ObdSpec

\* A scan that found the adapter in the middle of an answer may record foreign
\* answers, but from the first answer that holds the end of its own one on, it
\* is in step until it is over: there is one prompt for each command, and the
\* adapter answers in order.
THEOREM RecoversForGood == ObdSpec => []StaysInStep
<1>1. ObdIInv => StaysInStep
  BY DEF ObdIInv
<1> QED
  BY <1>1, ObdStart, ObdStep, PTL DEF ObdSpec

=============================================================================
