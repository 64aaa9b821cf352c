------------------------- MODULE CloudService_proofs -------------------------
(***************************************************************************)
(* Theorems about the hosted service: what a request goes through, which   *)
(* is the gate of its body (BodyGate), the case it finds or loses          *)
(* (CloudCase) and the worker that reads its document (DocumentDispatch),  *)
(* and the sidecar that removes the originals (ArtifactPurger): a passing  *)
(* healthcheck means that no original outlives the ceiling, for any        *)
(* thresholds that leave room for one heartbeat and one pass.              *)
(***************************************************************************)
EXTENDS BodyGate, CloudCase, DocumentDispatch, ArtifactPurger, TLAPS

-----------------------------------------------------------------------------
(* BodyGate.                                                               *)

\* One message more is one largest message more.
LEMMA OneMoreTimes ==
    \A a, n \in Nat : a * n \in Nat /\ a * (n + 1) = a * n + a
    OBVIOUS

\* What is counted for some messages is within the bound for MaxChunks.
LEMMA ChunkBound ==
    ASSUME NEW n \in Nat, n <= MaxChunks
    PROVE  /\ MaxChunk * n \in Nat
           /\ MaxChunk * (n + 1) = MaxChunk * n + MaxChunk
           /\ MaxChunk * n <= MaxChunk * MaxChunks
<1>1. PICK k \in Nat : MaxChunks = n + k
    <2>1. MaxChunks - n \in Nat /\ MaxChunks = n + (MaxChunks - n)
        BY BodyGateAssumption
    <2>2. QED
        BY <2>1
<1>2. MaxChunk * (n + k) = MaxChunk * n + MaxChunk * k /\ MaxChunk * k \in Nat
    BY BodyGateAssumption
<1>3. QED
    BY <1>1, <1>2, BodyGateAssumption

\* One more message continues the running totals.
LEMMA TotalGrows ==
    ASSUME recorded \in Seq(Message), NEW m \in Message,
           recorded' = Append(recorded, m), NEW sum \in Nat,
           \E total \in [0..Len(recorded) -> Nat] :
              RunningTotal(total) /\ total[Len(recorded)] = sum
    PROVE  \E total \in [0..Len(recorded') -> Nat] :
              /\ RunningTotal(total)'
              /\ total[0] = 0 /\ total[Len(recorded')] = sum + m.size
<1> DEFINE L == Len(recorded)
<1>1. /\ L \in Nat /\ Len(recorded') = L + 1 /\ recorded'[L + 1] = m
      /\ \A n \in 1..L : recorded'[n] = recorded[n]
      /\ m.size \in Nat
    BY BodyGateAssumption DEF Message
<1>2. PICK total \in [0..L -> Nat] : RunningTotal(total) /\ total[L] = sum
    OBVIOUS
<1> DEFINE longer == [n \in 0..(L + 1) |-> IF n <= L THEN total[n] ELSE sum + m.size]
<1>3. longer \in [0..(L + 1) -> Nat] /\ longer[0] = 0 /\ longer[L + 1] = sum + m.size
    BY <1>1, <1>2 DEF RunningTotal
<1>4. ASSUME NEW n \in 1..(L + 1)
      PROVE  longer[n] = longer[n - 1] + recorded'[n].size
    <2>1. CASE n = L + 1
        BY <1>1, <1>2, <2>1
    <2>2. CASE n # L + 1
        <3>1. n \in 1..L /\ n - 1 \in 0..L
            BY <1>1, <2>2
        <3>2. total[n] = total[n - 1] + recorded[n].size
            BY <1>2, <3>1 DEF RunningTotal
        <3>3. QED
            BY <1>1, <3>1, <3>2
    <2>3. QED
        BY <2>1, <2>2
<1> HIDE DEF longer
<1>5. PICK next \in [0..(L + 1) -> Nat] :
         /\ next[0] = 0 /\ next[L + 1] = sum + m.size
         /\ \A n \in 1..(L + 1) : next[n] = next[n - 1] + recorded'[n].size
    BY <1>3, <1>4
<1>6. RunningTotal(next)'
    BY <1>1, <1>5 DEF RunningTotal
<1>7. QED
    BY <1>1, <1>5, <1>6

LEMMA GateInvInit == GateInit => GateInv
<1> SUFFICES ASSUME GateInit PROVE GateInv
    OBVIOUS
<1>1. Len(recorded) = 0 /\ recorded \in Seq(Message)
    BY DEF GateInit
<1>2. MaxChunk * 0 = 0 /\ MaxChunk * MaxChunks \in Nat
    BY BodyGateAssumption
<1>3. GateTypeOK
    <2>1. 0 \in 0..(MaxChunk * MaxChunks) /\ 0 \in 0..(MaxChunks + 2)
        BY <1>2, BodyGateAssumption
    <2>2. QED
        BY <1>1, <2>1 DEF GateInit, GateTypeOK
<1>4. RecordBounded
    BY <1>1, <1>2, BodyGateAssumption DEF GateInit, RecordBounded
<1>5. BufferedSoFar /\ ReplayInStep /\ ParsedBodyIsWhole
    BY DEF GateInit, BufferedSoFar, ReplayInStep, ParsedBodyIsWhole
<1>6. QED
    BY <1>3, <1>4, <1>5 DEF GateInv

\* The steps that neither buffer nor replay.
LEMMA GateEdgeStep ==
    ASSUME GateInv,
           Deny \/ Grant \/ RejectHeader \/ StartBuffering \/ PassThrough
             \/ UNCHANGED gateVars
    PROVE  GateInv'
<1> USE BodyGateAssumption
    DEF GateInv, GateTypeOK, RecordBounded, BufferedSoFar, ReplayInStep,
        ParsedBodyIsWhole, RunningTotal, Limited
<1>1. CASE Deny \/ Grant
    BY <1>1 DEF Deny, Grant
<1>2. CASE RejectHeader
    BY <1>2 DEF RejectHeader
<1>3. CASE PassThrough
    BY <1>3 DEF PassThrough
<1>4. CASE StartBuffering
    <2>1. recorded = <<>> /\ Len(recorded) = 0 /\ sentBytes = 0
        BY <1>4 DEF StartBuffering
    <2>2. \E total \in [0..0 -> Nat] : total[0] = 0
        <3> DEFINE nothing == [n \in 0..0 |-> 0]
        <3>1. nothing \in [0..0 -> Nat] /\ nothing[0] = 0
            OBVIOUS
        <3> HIDE DEF nothing
        <3>2. QED
            BY <3>1
    <2>3. QED
        BY <1>4, <2>1, <2>2 DEF StartBuffering
<1>5. CASE UNCHANGED gateVars
    BY <1>5 DEF gateVars
<1>6. QED
    BY <1>1, <1>2, <1>3, <1>4, <1>5

LEMMA ReceiveChunkStep ==
    ASSUME GateInv, ReceiveChunk
    PROVE  GateInv'
<1> USE BodyGateAssumption
<1> DEFINE L == Len(recorded)
<1>1. PICK size \in 0..MaxChunk, more \in BOOLEAN :
         /\ recorded' = Append(recorded, [kind |-> "request", size |-> size, more |-> more])
         /\ sentBytes' = sentBytes + size
         /\ sentAll' = ~more
         /\ gateStep' = IF sentBytes' > MaxBody THEN "rejected"
                        ELSE IF more THEN "buffering" ELSE "handling"
    BY DEF ReceiveChunk, Kept
<1> DEFINE m == [kind |-> "request", size |-> size, more |-> more]
<1>2. /\ gateStep = "buffering" /\ L < MaxChunks
      /\ UNCHANGED <<route, replayed, readBytes>>
    BY DEF ReceiveChunk
<1>3. /\ m \in Message /\ recorded \in Seq(Message)
      /\ recorded' \in Seq(Message) /\ L \in Nat
      /\ Len(recorded') = L + 1 /\ recorded'[L + 1] = m
      /\ \A n \in 1..L : recorded'[n] = recorded[n]
    BY <1>1 DEF Message, GateInv, GateTypeOK
<1>4. /\ Limited /\ Limited' /\ sentBytes \in Nat /\ sentBytes <= MaxChunk * L
      /\ replayed = 0 /\ readBytes = 0
      /\ \A n \in 1..L : GoesOn(recorded[n])
  <2>1. sentBytes \in Nat
    BY DEF GateInv, GateTypeOK
  <2>2. sentBytes <= MaxChunk * L
    BY DEF GateInv, RecordBounded
  <2>3. replayed = 0 /\ readBytes = 0
    BY <1>2 DEF GateInv, GateTypeOK, RecordBounded
  <2>4. Limited /\ \A n \in 1..L : GoesOn(recorded[n])
    BY <1>2 DEF GateInv, BufferedSoFar
  <2>5. Limited'
    BY <1>2, <2>4 DEF Limited
  <2> QED
    BY <2>1, <2>2, <2>3, <2>4, <2>5
<1>5. sentBytes' \in Nat /\ sentBytes' <= MaxChunk * (L + 1)
  <2>0. MaxChunk \in Nat /\ L \in Nat
    BY <1>2, BodyGateAssumption
  <2>1. MaxChunk * L \in Nat /\ MaxChunk * (L + 1) = MaxChunk * L + MaxChunk
    BY <2>0, OneMoreTimes
  <2> DEFINE bound == MaxChunk * L
  <2>2. /\ bound \in Nat /\ sentBytes \in Nat /\ sentBytes <= bound
        /\ size \in Nat /\ size <= MaxChunk /\ MaxChunk \in Nat
        /\ sentBytes' = sentBytes + size
    BY <1>1, <1>4, <2>1
  <2> HIDE DEF bound
  <2>3. sentBytes' \in Nat /\ sentBytes' <= bound + MaxChunk
    BY <2>2
  <2> QED
    BY <2>1, <2>3 DEF bound
<1>6. MaxChunk * (L + 1) <= MaxChunk * MaxChunks
    BY <1>2, <1>3, ChunkBound
<1>7. \E total \in [0..Len(recorded') -> Nat] :
         /\ RunningTotal(total)'
         /\ total[0] = 0 /\ total[Len(recorded')] = sentBytes'
    BY <1>1, <1>2, <1>3, <1>4, TotalGrows DEF GateInv, BufferedSoFar
<1>8. GateTypeOK'
    BY <1>1, <1>2, <1>3, <1>5, <1>6 DEF GateInv, GateTypeOK
<1>9. RecordBounded'
    <2>1. \A n \in 1..(L + 1) : recorded'[n].kind = "request" => n <= MaxChunks
        BY <1>2, <1>3
    <2>2. QED
        BY <1>1, <1>2, <1>3, <1>4, <1>5, <1>6, <2>1 DEF RecordBounded, GateInv
<1>10. BufferedSoFar'
    <2>1. gateStep' = "buffering" => more = TRUE /\ sentBytes' <= MaxBody
        BY <1>1, <1>5
    <2>2. gateStep' = "buffering" => \A n \in 1..(L + 1) : GoesOn(recorded'[n])
        BY <1>3, <1>4, <2>1 DEF GoesOn
    <2>3. QED
        BY <1>3, <1>4, <1>7, <2>1, <2>2 DEF BufferedSoFar
<1>11. ReplayInStep'
    <2>1. gateStep' = "handling" => more = FALSE /\ sentBytes' <= MaxBody
        BY <1>1, <1>5
    <2>2. gateStep' = "handling" =>
             \A n \in 1..(L + 1) : GoesOn(recorded'[n]) <=> n < L + 1
        BY <1>3, <1>4, <2>1 DEF GoesOn
    <2>3. gateStep' = "handling" => sentAll'
        BY <1>1, <2>1
    <2>4. replayed' = 0 /\ readBytes' = 0 /\ 0 < Len(recorded')
        BY <1>2, <1>3, <1>4
    <2>5. \E total \in [0..Len(recorded') -> Nat] :
             /\ RunningTotal(total)'
             /\ total[Len(recorded')] = sentBytes' /\ total[replayed'] = readBytes'
        BY <1>7, <2>4
    <2>6. QED
        BY <1>3, <1>4, <2>1, <2>2, <2>3, <2>4, <2>5 DEF ReplayInStep
<1>12. ParsedBodyIsWhole'
    BY <1>1 DEF ParsedBodyIsWhole
<1>13. QED
    BY <1>8, <1>9, <1>10, <1>11, <1>12 DEF GateInv

LEMMA ReceiveDisconnectStep ==
    ASSUME GateInv, ReceiveDisconnect
    PROVE  GateInv'
<1> USE BodyGateAssumption
<1> DEFINE L == Len(recorded)
           m == [kind |-> "disconnect", size |-> 0, more |-> FALSE]
<1>1. /\ gateStep = "buffering" /\ gateStep' = "handling"
      /\ recorded' = Append(recorded, m)
      /\ UNCHANGED <<route, sentBytes, sentAll, replayed, readBytes>>
    BY DEF ReceiveDisconnect, Kept
<1>2. /\ m \in Message /\ recorded \in Seq(Message)
      /\ recorded' \in Seq(Message) /\ L \in Nat
      /\ Len(recorded') = L + 1 /\ recorded'[L + 1] = m
      /\ \A n \in 1..L : recorded'[n] = recorded[n]
    BY <1>1 DEF Message, GateInv, GateTypeOK
<1>3. /\ Limited /\ Limited' /\ sentBytes \in Nat /\ sentBytes <= MaxChunk * L
      /\ replayed = 0 /\ readBytes = 0 /\ L <= MaxChunks
      /\ \A n \in 1..L : GoesOn(recorded[n])
    BY <1>1 DEF GateInv, GateTypeOK, RecordBounded, BufferedSoFar, Limited
<1>4. MaxChunk * L <= MaxChunk * (L + 1)
    BY <1>2, <1>3, ChunkBound
<1>5. \E total \in [0..Len(recorded') -> Nat] :
         /\ RunningTotal(total)'
         /\ total[0] = 0 /\ total[Len(recorded')] = sentBytes + 0
    <2>1. \E total \in [0..L -> Nat] : RunningTotal(total) /\ total[L] = sentBytes
        BY <1>1 DEF GateInv, BufferedSoFar
    <2>2. m.size = 0
        OBVIOUS
    <2> HIDE DEF m
    <2>3. /\ recorded \in Seq(Message) /\ m \in Message
          /\ recorded' = Append(recorded, m) /\ sentBytes \in Nat
        BY <1>1, <1>2, <1>3
    <2>4. \E total \in [0..Len(recorded') -> Nat] :
             /\ RunningTotal(total)'
             /\ total[0] = 0 /\ total[Len(recorded')] = sentBytes + m.size
        BY <2>1, <2>3, TotalGrows
    <2>5. QED
        BY <2>2, <2>4
<1>6. GateTypeOK'
    BY <1>1, <1>2 DEF GateInv, GateTypeOK
<1>7. RecordBounded'
    <2>1. \A n \in 1..(L + 1) : recorded'[n].kind = "request" => n <= MaxChunks
        BY <1>2, <1>3
    <2>2. QED
        BY <1>1, <1>2, <1>3, <1>4, <2>1 DEF RecordBounded, GateInv, GateTypeOK
<1>8. BufferedSoFar' /\ ParsedBodyIsWhole'
    BY <1>1 DEF BufferedSoFar, ParsedBodyIsWhole
<1>9. ReplayInStep'
    <2>1. \A n \in 1..(L + 1) : GoesOn(recorded'[n]) <=> n < L + 1
        BY <1>2, <1>3 DEF GoesOn
    <2>2. sentBytes <= MaxBody
        BY <1>1 DEF GateInv, BufferedSoFar
    <2>3. QED
        BY <1>1, <1>2, <1>3, <1>5, <2>1, <2>2 DEF ReplayInStep
<1>10. QED
    BY <1>6, <1>7, <1>8, <1>9 DEF GateInv

LEMMA ReplayStep ==
    ASSUME GateInv, Replay
    PROVE  GateInv'
<1> USE BodyGateAssumption
<1> DEFINE L == Len(recorded)
           m == recorded[replayed + 1]
<1>1. /\ L \in Nat /\ replayed \in Nat /\ replayed < L /\ L <= MaxChunks + 1
      /\ m \in Message /\ recorded \in Seq(Message)
    BY DEF GateInv, GateTypeOK, ReplayInStep, RecordBounded, Replay
<1>2. /\ gateStep = "handling"
      /\ replayed' = replayed + 1
      /\ readBytes' = readBytes + m.size
      /\ gateStep' = IF m.kind = "disconnect" THEN "aborted"
                     ELSE IF m.more THEN "handling" ELSE "parsed"
      /\ UNCHANGED <<route, sentBytes, sentAll, recorded>>
    BY <1>1 DEF Replay, Replayed
<1>3. /\ m.size \in 0..MaxChunk /\ m.more \in BOOLEAN
      /\ m.kind # "disconnect" <=> m.kind = "request"
      /\ m.kind = "disconnect" => m.size = 0
    <2>1. ASSUME NEW x \in Message
          PROVE  /\ x.size \in 0..MaxChunk /\ x.more \in BOOLEAN
                 /\ x.kind # "disconnect" <=> x.kind = "request"
                 /\ x.kind = "disconnect" => x.size = 0
        <3>1. CASE x = [kind |-> "disconnect", size |-> 0, more |-> FALSE]
            BY <3>1, BodyGateAssumption
        <3>2. CASE x \in [kind : {"request"}, size : 0..MaxChunk, more : BOOLEAN]
            BY <3>2
        <3>3. QED
            BY <3>1, <3>2 DEF Message
    <2>2. QED
        BY <1>1, <2>1
<1>4. /\ Limited /\ Limited' /\ sentBytes <= MaxBody
      /\ \A n \in 1..L : GoesOn(recorded[n]) <=> n < L
      /\ sentAll \/ recorded[L].kind = "disconnect"
    BY <1>2 DEF GateInv, ReplayInStep, Limited
<1>5. PICK total \in [0..L -> Nat] :
         RunningTotal(total) /\ total[L] = sentBytes /\ total[replayed] = readBytes
    BY <1>2 DEF GateInv, ReplayInStep
<1>6. total[replayed + 1] = readBytes'
    <2>1. replayed + 1 \in 1..L /\ (replayed + 1) - 1 = replayed
        BY <1>1
    <2>2. total[replayed + 1] = total[(replayed + 1) - 1] + m.size
        BY <1>5, <2>1 DEF RunningTotal
    <2>3. QED
        BY <1>2, <1>5, <2>1, <2>2
<1>7. m.kind = "request" /\ m.more <=> replayed + 1 < L
    BY <1>1, <1>4 DEF GoesOn
<1>8. /\ readBytes' \in Nat /\ readBytes' <= MaxChunk * (replayed + 1)
      /\ readBytes' <= MaxChunk * MaxChunks
    <2>1. /\ readBytes \in Nat /\ readBytes <= MaxChunk * replayed
          /\ readBytes <= MaxChunk * MaxChunks
        BY DEF GateInv, GateTypeOK, RecordBounded
    <2>2. /\ MaxChunk * replayed \in Nat
          /\ MaxChunk * (replayed + 1) = MaxChunk * replayed + MaxChunk
        BY <1>1, ChunkBound
    <2>3. m.kind = "request" => replayed + 1 <= MaxChunks
        BY <1>1 DEF GateInv, RecordBounded
    <2>4. m.kind = "request" => MaxChunk * (replayed + 1) <= MaxChunk * MaxChunks
        BY <1>1, <2>3, ChunkBound
    <2> HIDE DEF m
    <2>5. QED
        BY <1>2, <1>3, <2>1, <2>2, <2>4
<1>9. GateTypeOK'
    BY <1>1, <1>2, <1>8 DEF GateInv, GateTypeOK
<1>10. RecordBounded' /\ BufferedSoFar'
    BY <1>1, <1>2, <1>8 DEF GateInv, RecordBounded, BufferedSoFar
<1>11. ReplayInStep'
    <2>1. gateStep' = "handling" => replayed + 1 < L
        BY <1>2, <1>3, <1>7
    <2>2. RunningTotal(total)'
        BY <1>2, <1>5 DEF RunningTotal
    <2>3. QED
        BY <1>1, <1>2, <1>4, <1>5, <1>6, <2>1, <2>2 DEF ReplayInStep
<1>12. ParsedBodyIsWhole'
    <2>1. gateStep' = "parsed" => m.kind # "disconnect" /\ replayed + 1 = L
        BY <1>1, <1>2, <1>3, <1>7
    <2>2. gateStep' = "parsed" => sentAll /\ readBytes' = sentBytes
        BY <1>4, <1>5, <1>6, <2>1
    <2>3. QED
        BY <1>2, <1>4, <2>2 DEF ParsedBodyIsWhole
<1>13. QED
    BY <1>9, <1>10, <1>11, <1>12 DEF GateInv

LEMMA GateInvAlways == GateSpec => []GateInv
<1>1. GateInv /\ [GateNext]_gateVars => GateInv'
    BY GateEdgeStep, ReceiveChunkStep, ReceiveDisconnectStep, ReplayStep
       DEF GateNext
<1>2. QED
    BY <1>1, GateInvInit, PTL DEF GateSpec

\* For every limit and every way to cut a body into messages: what a handler
\* parses is all that its client sent, the client had finished, and it is not
\* above the limit; a disconnect never passes for the end of the body.
THEOREM ParsedIsWhole == GateSpec => []ParsedBodyIsWhole
<1>1. GateInv => ParsedBodyIsWhole
    BY DEF GateInv
<1>2. QED
    BY <1>1, GateInvAlways, PTL

-----------------------------------------------------------------------------
(* CloudCase.                                                              *)

\* A purge leaves the row alone, or takes it away with all that hangs on it.
LEMMA PurgeCases ==
    ASSUME CloudTypeOK, NEW p \in Upload \cup {Health}, PurgeDeletes(p)
    PROVE  /\ UNCHANGED <<retention, lifeLeft, leaseTicks>>
           /\ doomed' \in [Upload \cup {Health} -> BOOLEAN]
           /\ \/ UNCHANGED <<cloudRow, tokenHash, leaseHolder, evidence>>
              \/ /\ cloudRow' = "gone" /\ tokenHash' = FALSE
                 /\ leaseHolder' = Nobody /\ evidence' = {}
<1>1. doomed[p] \in BOOLEAN /\ tokenHash \in BOOLEAN
    BY DEF CloudTypeOK
<1>2. CASE doomed[p] = TRUE
    BY <1>2 DEF PurgeDeletes, CloudTypeOK
<1>3. CASE doomed[p] = FALSE
    BY <1>1, <1>3 DEF PurgeDeletes, CloudTypeOK
<1>4. QED
    BY <1>1, <1>2, <1>3

LEMMA PurgeSeesType ==
    ASSUME CloudTypeOK, NEW p \in Upload \cup {Health}, PurgeSees(p)
    PROVE  doomed' \in [Upload \cup {Health} -> BOOLEAN]
    BY DEF CloudTypeOK, PurgeSees, ExpiredRow, Leased

LEMMA OverwriteType ==
    ASSUME CloudTypeOK, NEW u \in Upload, Overwrite(u)
    PROVE  evidence' \in SUBSET Upload
    BY DEF CloudTypeOK, Overwrite

\* The steps of an upload that leave the row and the lease alone.
Quiet(u) ==
    \/ NoLease(u) \/ OpenCase(u) \/ StoreOriginal(u) \/ StoreFails(u)
    \/ UndoUpload(u) \/ UndoFails(u)

LEMMA CloudTypeStep ==
    ASSUME CloudTypeOK, [CloudNext]_cloudVars
    PROVE  CloudTypeOK'
<1> USE CloudCaseAssumption DEF CloudTypeOK, caseRows, leaseRow, Step, Reply
<1>1. CASE InsertCase \/ IssueToken \/ Deliver \/ CreatorLost
    BY <1>1 DEF InsertCase, IssueToken, Deliver, CreatorLost
<1>2. CASE HealthSees
    BY <1>2, PurgeSeesType DEF HealthSees
<1>3. CASE HealthDeletes
    <2>1. PurgeDeletes(Health)
        BY <1>3 DEF HealthDeletes
    <2>2. UNCHANGED <<creator, at, copy, original, code>>
        BY <1>3 DEF HealthDeletes
    <2>3. QED
        BY <2>1, <2>2, PurgeCases
<1>4. ASSUME NEW u \in Upload, Arrive(u) \/ Die(u) PROVE CloudTypeOK'
    BY <1>4, PurgeSeesType DEF Arrive, Die
<1>5. ASSUME NEW u \in Upload, Verify(u) PROVE CloudTypeOK'
    <2>1. PurgeDeletes(u) /\ UNCHANGED <<creator, copy, original>>
        BY <1>5 DEF Verify
    <2>2. CASE tokenHash' = TRUE
        BY <1>5, <2>1, <2>2, PurgeCases DEF Verify
    <2>3. CASE tokenHash' = FALSE
        BY <1>5, <2>1, <2>3, PurgeCases DEF Verify
    <2>4. QED
        BY <2>1, <2>2, <2>3, PurgeCases
<1>6. ASSUME NEW u \in Upload, AcquireLease(u) PROVE CloudTypeOK'
    BY <1>6 DEF AcquireLease
<1>7. ASSUME NEW u \in Upload, ReadCase(u) PROVE CloudTypeOK'
    <2>1. PurgeDeletes(u) /\ UNCHANGED <<creator, original>>
        BY <1>7 DEF ReadCase
    <2>2. CASE cloudRow' = "present"
        BY <1>7, <2>1, <2>2, PurgeCases DEF ReadCase
    <2>3. CASE cloudRow' # "present"
        BY <1>7, <2>1, <2>3, PurgeCases DEF ReadCase
    <2>4. QED
        BY <2>2, <2>3
<1>8. ASSUME NEW u \in Upload, Quiet(u) PROVE CloudTypeOK'
    <2>1. CASE NoLease(u)
        BY <2>1 DEF NoLease
    <2>2. CASE OpenCase(u)
        BY <2>2, PurgeSeesType DEF OpenCase
    <2>3. CASE StoreOriginal(u)
        BY <2>3 DEF StoreOriginal
    <2>4. CASE StoreFails(u)
        BY <2>4 DEF StoreFails
    <2>5. CASE UndoUpload(u)
        BY <2>5 DEF UndoUpload, WithoutOriginal
    <2>6. CASE UndoFails(u)
        BY <2>6 DEF UndoFails
    <2>7. QED
        BY <1>8, <2>1, <2>2, <2>3, <2>4, <2>5, <2>6 DEF Quiet
<1>9. ASSUME NEW u \in Upload, SaveUpload(u) PROVE CloudTypeOK'
    BY <1>9, OverwriteType DEF SaveUpload, Overwrite
<1>10. ASSUME NEW u \in Upload, SaveRaises(u) PROVE CloudTypeOK'
    <2>1. /\ evidence' \in SUBSET Upload
          /\ UNCHANGED <<cloudRow, retention, lifeLeft, tokenHash>>
        BY <1>10, OverwriteType DEF SaveRaises, Overwrite
    <2>2. QED
        BY <1>10, <2>1 DEF SaveRaises
<1>11. ASSUME NEW u \in Upload, ReleaseLease(u) PROVE CloudTypeOK'
    BY <1>11 DEF ReleaseLease
<1>12. CASE CloudTick
    BY <1>12 DEF CloudTick
<1>13. CASE UNCHANGED cloudVars
    BY <1>13 DEF cloudVars
<1>14. QED
    BY <1>1, <1>2, <1>3, <1>4, <1>5, <1>6, <1>7, <1>8, <1>9, <1>10, <1>11,
       <1>12, <1>13 DEF CloudNext, UploadStep, Quiet

LEMMA CloudInvInit == CloudInit => CloudInv
<1>1. 0 \in 0..LeaseLife /\ CaseLife \in 0..CaseLife
    BY CloudCaseAssumption
<1>2. CloudInit => CloudTypeOK
    BY <1>1 DEF CloudInit, CloudTypeOK
<1>3. CloudInit => NothingBeforeInsert /\ LeaseProtects /\ CopyIsCurrent
                     /\ CreatedStays /\ OriginalsAccounted
    BY DEF CloudInit, NothingBeforeInsert, LeaseProtects, CopyIsCurrent,
       CreatedStays, OriginalsAccounted
<1>4. QED
    BY <1>2, <1>3 DEF CloudInv

\* Two uploads are never under way at once on a row that is there.
LEMMA OneUpload ==
    ASSUME CloudInv, cloudRow = "present", NEW u \in Upload, NEW v \in Upload,
           at[u] \in LeaseSteps, at[v] \in LeaseSteps
    PROVE  u = v
    BY DEF CloudInv, LeaseProtects

LEMMA CloudInvStep ==
    ASSUME CloudInv, [CloudNext]_cloudVars
    PROVE  CloudInv'
<1>1. CloudTypeOK /\ CloudTypeOK'
    BY CloudTypeStep DEF CloudInv
<1> USE CloudCaseAssumption
    DEF CloudInv, CloudTypeOK, NothingBeforeInsert, LeaseProtects, LeaseSteps,
        CopyIsCurrent, CreatedStays, OriginalsAccounted, Leased, caseRows,
        leaseRow, Step, Reply
<1>2. CASE InsertCase \/ IssueToken \/ Deliver \/ CreatorLost
    <2>1. CASE InsertCase
        BY <1>1, <2>1 DEF InsertCase
    <2>2. CASE IssueToken \/ Deliver \/ CreatorLost
        BY <1>1, <2>2 DEF IssueToken, Deliver, CreatorLost
    <2>3. QED
        BY <1>2, <2>1, <2>2
<1>3. CASE HealthSees
    BY <1>1, <1>3 DEF HealthSees
<1>4. CASE HealthDeletes
    <2>1. PurgeDeletes(Health) /\ UNCHANGED <<creator, at, copy, original, code>>
        BY <1>4 DEF HealthDeletes
    <2>2. CASE UNCHANGED <<cloudRow, tokenHash, leaseHolder, evidence>>
        BY <1>1, <2>1, <2>2, PurgeCases
    <2>3. CASE cloudRow' = "gone"
        BY <1>1, <2>1, <2>3
    <2>4. QED
        BY <1>1, <2>1, <2>2, <2>3, PurgeCases
<1>5. ASSUME NEW u \in Upload, Arrive(u) \/ Die(u) PROVE CloudInv'
    <2>1. CASE Arrive(u)
        BY <1>1, <2>1 DEF Arrive
    <2>2. CASE Die(u)
        BY <1>1, <2>2 DEF Die
    <2>3. QED
        BY <1>5, <2>1, <2>2
<1>6. ASSUME NEW u \in Upload, Verify(u) PROVE CloudInv'
    <2>1. PurgeDeletes(u) /\ at[u] = "verify"
          /\ UNCHANGED <<creator, copy, original>>
        BY <1>6 DEF Verify
    <2>2. /\ at'[u] \in {"acquire", "over"}
          /\ at' = [at EXCEPT ![u] = at'[u]]
          /\ code' = code \/ code' = [code EXCEPT ![u] = "missing"]
        BY <1>1, <1>6 DEF Verify
    <2>3. CASE UNCHANGED <<cloudRow, tokenHash, leaseHolder, evidence>>
        BY <1>1, <2>1, <2>2, <2>3, PurgeCases
    <2>4. CASE cloudRow' = "gone"
        BY <1>1, <2>1, <2>2, <2>4
    <2>5. QED
        BY <1>1, <2>1, <2>3, <2>4, PurgeCases
<1>7. ASSUME NEW u \in Upload, AcquireLease(u) PROVE CloudInv'
    BY <1>1, <1>7 DEF AcquireLease
<1>8. ASSUME NEW u \in Upload, ReadCase(u) PROVE CloudInv'
    <2>1. /\ PurgeDeletes(u) /\ at[u] = "read"
          /\ UNCHANGED <<creator, original>>
        BY <1>8 DEF ReadCase
    <2>2. CASE cloudRow' = "present"
        <3>1. /\ copy' = [copy EXCEPT ![u] = evidence]
              /\ at' = [at EXCEPT ![u] = "put"] /\ code' = code
            BY <1>8, <2>2 DEF ReadCase
        <3>2. UNCHANGED <<cloudRow, tokenHash, leaseHolder, evidence, leaseTicks>>
            BY <1>1, <2>1, <2>2, PurgeCases
        <3>3. QED
            BY <1>1, <2>1, <3>1, <3>2
    <2>3. CASE cloudRow' # "present"
        <3>1. /\ copy' = copy /\ at' = [at EXCEPT ![u] = "release"]
              /\ code' = [code EXCEPT ![u] = "missing"]
            BY <1>8, <2>3 DEF ReadCase
        <3>2. cloudRow' = "gone"  \/ cloudRow' = cloudRow
            BY <1>1, <2>1, PurgeCases
        <3>3. QED
            BY <1>1, <2>1, <2>3, <3>1, <3>2
    <2>4. QED
        BY <2>2, <2>3
<1>9. ASSUME NEW u \in Upload, Quiet(u) PROVE CloudInv'
    <2>1. CASE NoLease(u)
        BY <1>1, <2>1 DEF NoLease
    <2>2. CASE OpenCase(u)
        BY <1>1, <2>2 DEF OpenCase
    <2>3. CASE StoreOriginal(u)
        BY <1>1, <2>3 DEF StoreOriginal
    <2>4. CASE StoreFails(u)
        BY <1>1, <2>4 DEF StoreFails
    <2>5. CASE UndoUpload(u)
        BY <1>1, <2>5 DEF UndoUpload, WithoutOriginal
    <2>6. CASE UndoFails(u)
        BY <1>1, <2>6 DEF UndoFails
    <2>7. QED
        BY <1>9, <2>1, <2>2, <2>3, <2>4, <2>5, <2>6 DEF Quiet
<1>10. ASSUME NEW u \in Upload, SaveUpload(u) \/ SaveRaises(u) PROVE CloudInv'
    <2>1. /\ at[u] = "save"
          /\ at' = [at EXCEPT ![u] = at'[u]] /\ at'[u] \in {"release", "undo"}
          /\ \/ UNCHANGED caseRows
             \/ Overwrite(u)
          /\ UNCHANGED <<creator, leaseRow, doomed, copy, original, cloudRow>>
        BY <1>1, <1>10 DEF SaveUpload, SaveRaises, Updated, Overwrite
    <2>2. \/ code' = code /\ at'[u] = "undo"
          \/ /\ code' = [code EXCEPT ![u] = "created"] /\ at'[u] = "release"
             /\ Overwrite(u) /\ cloudRow = "present"
        BY <1>1, <1>10 DEF SaveUpload, SaveRaises, Updated
    <2>3. cloudRow = "present" => \A v \in Upload : at[v] \in LeaseSteps => v = u
        BY <2>1, OneUpload
    <2>4. cloudRow = "present" => evidence \subseteq evidence'
        <3>1. cloudRow = "present" => copy[u] = evidence
            BY <2>1
        <3>2. QED
            BY <2>1, <3>1 DEF Overwrite
    <2>5. code' # code /\ cloudRow = "present" => u \in evidence'
        BY <2>2 DEF Overwrite
    <2>6. NothingBeforeInsert' /\ OriginalsAccounted'
        BY <1>1, <2>1, <2>2
    <2>7. LeaseProtects'
        BY <1>1, <2>1
    <2>8. CopyIsCurrent'
        <3>1. ASSUME cloudRow = "present", NEW v \in Upload, at'[v] \in {"put", "save"}
              PROVE  FALSE
            <4>1. v # u /\ at[v] = at'[v]
                BY <1>1, <2>1, <3>1
            <4>2. QED
                BY <2>3, <3>1, <4>1
        <3>2. QED
            BY <2>1, <3>1
    <2>9. CreatedStays'
        <3>1. ASSUME cloudRow = "present", NEW v \in Upload, code'[v] = "created"
              PROVE  v \in evidence'
            <4>1. CASE code[v] = "created"
                BY <2>4, <3>1, <4>1
            <4>2. CASE code[v] # "created"
                <5>1. code' # code /\ v = u
                    BY <1>1, <2>2, <3>1, <4>2
                <5>2. QED
                    BY <2>5, <3>1, <5>1
            <4>3. QED
                BY <4>1, <4>2
        <3>2. QED
            BY <2>1, <3>1
    <2>10. QED
        BY <1>1, <2>6, <2>7, <2>8, <2>9
<1>11. ASSUME NEW u \in Upload, ReleaseLease(u) PROVE CloudInv'
    <2>1. \A v \in Upload : cloudRow = "present" /\ at'[v] \in LeaseSteps =>
             leaseHolder = v /\ v # u
        BY <1>1, <1>11 DEF ReleaseLease
    <2>2. LeaseProtects'
        BY <1>1, <1>11, <2>1 DEF ReleaseLease
    <2>3. QED
        BY <1>1, <1>11, <2>2 DEF ReleaseLease
<1>12. CASE CloudTick
    <2>1. LeaseProtects'
        BY <1>1, <1>12 DEF CloudTick, InLease
    <2>2. QED
        BY <1>1, <1>12, <2>1 DEF CloudTick
<1>13. CASE UNCHANGED cloudVars
    BY <1>13 DEF cloudVars
<1>14. QED
    BY <1>2, <1>3, <1>4, <1>5, <1>6, <1>7, <1>8, <1>9, <1>10, <1>11, <1>12,
       <1>13 DEF CloudNext, UploadStep, Quiet

LEMMA CloudInvAlways == CloudSpec => []CloudInv
<1>1. CloudInv /\ [CloudNext]_cloudVars => CloudInv'
    BY CloudInvStep
<1>2. QED
    BY <1>1, CloudInvInit, PTL DEF CloudSpec

\* For any number of uploads: one that ended with a 201 or with a promise that
\* nothing was left behind leaves no original without its evidence, whatever
\* acknowledgement was lost and whatever purge came between its steps.
THEOREM OriginalsHaveEvidence == CloudSpec => []NoOrphanOriginal
<1>1. CloudInv => NoOrphanOriginal
    BY DEF CloudInv, CloudTypeOK, OriginalsAccounted, CreatedStays, NoOrphanOriginal
<1>2. QED
    BY <1>1, CloudInvAlways, PTL

\* A 201 is given by the save that put the evidence into the row.
LEMMA CreatedStep ==
    ASSUME CloudTypeOK, [CloudNext]_cloudVars,
           NEW u \in Upload, code'[u] = "created", code[u] # "created"
    PROVE  cloudRow' = "present" /\ u \in evidence'
<1> USE DEF CloudTypeOK, caseRows, Step, Reply
<1>1. CASE \/ InsertCase \/ IssueToken \/ Deliver \/ CreatorLost \/ HealthSees
           \/ HealthDeletes \/ CloudTick \/ UNCHANGED cloudVars
    BY <1>1 DEF InsertCase, IssueToken, Deliver, CreatorLost, HealthSees,
       HealthDeletes, CloudTick, cloudVars
<1>2. ASSUME NEW v \in Upload, Arrive(v) \/ Die(v) PROVE FALSE
    BY <1>2 DEF Arrive, Die
<1>3. ASSUME NEW v \in Upload, Verify(v) \/ AcquireLease(v) \/ ReadCase(v)
      PROVE  FALSE
    BY <1>3 DEF Verify, AcquireLease, ReadCase
<1>4. ASSUME NEW v \in Upload, Quiet(v) PROVE FALSE
    BY <1>4 DEF Quiet, NoLease, OpenCase, StoreOriginal, StoreFails, UndoUpload,
       UndoFails
<1>5. ASSUME NEW v \in Upload, SaveRaises(v) \/ ReleaseLease(v) PROVE FALSE
    BY <1>5 DEF SaveRaises, ReleaseLease
<1>6. ASSUME NEW v \in Upload, SaveUpload(v)
      PROVE  cloudRow' = "present" /\ u \in evidence'
    <2>1. u = v
        BY <1>6 DEF SaveUpload
    <2>2. QED
        BY <1>6, <2>1 DEF SaveUpload, Updated, Overwrite
<1>7. QED
    BY <1>1, <1>2, <1>3, <1>4, <1>5, <1>6 DEF CloudNext, UploadStep, Quiet

\* A 201 is only given when the evidence is in the row at that moment, for any
\* number of uploads and purges.
THEOREM CreatedMeansPersisted == CloudSpec => CreatedIsPersisted
<1>1. CloudInv /\ [CloudNext]_cloudVars =>
         [\A u \in Upload : code'[u] = "created" /\ code[u] # "created" =>
            cloudRow' = "present" /\ u \in evidence']_cloudVars
    BY CreatedStep DEF CloudInv
<1>2. QED
    BY <1>1, CloudInvAlways, PTL DEF CloudSpec, CreatedIsPersisted

\* What a step does to the row, its expiry and the snapshots of the purges.
LEMMA RowStep ==
    ASSUME CloudTypeOK, [CloudNext]_cloudVars
    PROVE  /\ cloudRow # "unborn" => cloudRow' # "unborn" /\ retention' = retention
           /\ lifeLeft = 0 => lifeLeft' = 0
           /\ \A p \in Upload \cup {Health} :
                 doomed'[p] => doomed[p] \/ ExpiredRow(cloudRow)
           /\ cloudRow = "present" /\ cloudRow' = "gone" =>
                 \E p \in Upload \cup {Health} : doomed[p]
<1> USE DEF CloudTypeOK, caseRows, Step, Reply
<1>1. CASE \/ InsertCase \/ IssueToken \/ Deliver \/ CreatorLost \/ CloudTick
           \/ UNCHANGED cloudVars
    BY <1>1 DEF InsertCase, IssueToken, Deliver, CreatorLost, CloudTick, cloudVars
<1>2. ASSUME NEW p \in Upload \cup {Health}, PurgeSees(p), UNCHANGED caseRows
      PROVE  /\ cloudRow' = cloudRow /\ retention' = retention /\ lifeLeft' = lifeLeft
             /\ \A q \in Upload \cup {Health} :
                   doomed'[q] => doomed[q] \/ ExpiredRow(cloudRow)
    BY <1>2 DEF PurgeSees
<1>3. ASSUME NEW p \in Upload \cup {Health}, PurgeDeletes(p)
      PROVE  /\ retention' = retention /\ lifeLeft' = lifeLeft
             /\ \A q \in Upload \cup {Health} : doomed'[q] => doomed[q]
             /\ cloudRow' = IF doomed[p] THEN "gone" ELSE cloudRow
    BY <1>3 DEF PurgeDeletes
<1>4. CASE HealthSees \/ \E u \in Upload : Arrive(u) \/ OpenCase(u)
    BY <1>2, <1>4 DEF HealthSees, Arrive, OpenCase
<1>5. CASE HealthDeletes \/ \E u \in Upload : Verify(u) \/ ReadCase(u)
    BY <1>3, <1>5 DEF HealthDeletes, Verify, ReadCase
<1>6. ASSUME NEW u \in Upload, Die(u) \/ SaveUpload(u) \/ SaveRaises(u)
      PROVE  /\ cloudRow' = cloudRow /\ retention' = retention /\ lifeLeft' = lifeLeft
             /\ \A q \in Upload \cup {Health} : doomed'[q] => doomed[q]
    BY <1>6 DEF Die, SaveUpload, SaveRaises, Overwrite
<1>7. ASSUME NEW u \in Upload,
             \/ AcquireLease(u) \/ NoLease(u) \/ StoreOriginal(u) \/ StoreFails(u)
             \/ UndoUpload(u) \/ UndoFails(u) \/ ReleaseLease(u)
      PROVE  UNCHANGED <<cloudRow, retention, lifeLeft, doomed>>
    BY <1>7 DEF AcquireLease, NoLease, StoreOriginal, StoreFails, UndoUpload,
       UndoFails, ReleaseLease
<1>8. QED
    BY <1>1, <1>4, <1>5, <1>6, <1>7 DEF CloudNext, UploadStep

\* A purge only ever takes an anonymous case whose time has come, however old
\* the snapshot is on which it decided.
THEOREM PurgeTakesExpired == CloudSpec => OnlyExpiredPurged
<1>1. CloudInit => DoomedIsExpired
    BY DEF CloudInit, DoomedIsExpired
<1>2. CloudTypeOK /\ DoomedIsExpired /\ [CloudNext]_cloudVars => DoomedIsExpired'
    BY RowStep DEF DoomedIsExpired, ExpiredRow
<1>3. CloudTypeOK /\ DoomedIsExpired /\ [CloudNext]_cloudVars =>
        [cloudRow = "present" /\ cloudRow' = "gone" =>
            retention = "ANONYMOUS" /\ lifeLeft = 0]_cloudVars
    BY RowStep DEF DoomedIsExpired
<1>4. CloudInv => CloudTypeOK
    BY DEF CloudInv
<1>5. QED
    BY <1>1, <1>2, <1>3, <1>4, CloudInvAlways, PTL DEF CloudSpec, OnlyExpiredPurged

-----------------------------------------------------------------------------
(* DocumentDispatch.                                                       *)

LEMMA DispatchTypeInit == DispatchInit => DispatchTypeOK
    BY DispatchAssumption
       DEF DispatchInit, DispatchTypeOK, Content, TaskState, Extract, NoFile

LEMMA DispatchTypeStep ==
    ASSUME DispatchTypeOK, [DispatchNext]_dispatchVars
    PROVE  DispatchTypeOK'
<1> USE DispatchAssumption DEF DispatchTypeOK, NoFile
<1>1. ASSUME NEW d \in Doc, Dispatch(d) PROVE DispatchTypeOK'
    BY <1>1 DEF Dispatch, TaskState
<1>2. ASSUME NEW d \in Doc, Accept(d) \/ RefuseResult(d) \/ GiveUp(d)
      PROVE  DispatchTypeOK'
    BY <1>2 DEF Accept, RefuseResult, GiveUp, Refuse, Revoke
<1>3. ASSUME NEW d \in Doc, Drop(d) \/ Open(d) \/ WriteFails(d)
      PROVE  DispatchTypeOK'
    BY <1>3 DEF Drop, Open, WriteFails, TaskState
<1>4. ASSUME NEW d \in Doc, Return(d) PROVE DispatchTypeOK'
    <2>1. Extracts(content[d]) \subseteq Extract
        BY DEF Extracts, Content, Extract
    <2>2. QED
        BY <1>4, <2>1 DEF Return, Unlinked, TaskState
<1>5. ASSUME NEW d \in Doc, Kill(d) PROVE DispatchTypeOK'
    BY <1>5 DEF Kill, TaskState
<1>10. ASSUME NEW d \in Doc, Render(d) PROVE DispatchTypeOK'
    BY <1>10 DEF Render
<1>11. ASSUME NEW d \in Doc, ExtractText(d) PROVE DispatchTypeOK'
    BY <1>11 DEF ExtractText, RemoveDirectory, TaskState
<1>12. ASSUME NEW d \in Doc, Raise(d) PROVE DispatchTypeOK'
    BY <1>12 DEF Raise, RemoveDirectory, Unlinked, TaskState
<1>6. CASE RestartWorker
    BY <1>6 DEF RestartWorker, TaskState
<1>7. CASE PurgeFiles
    BY <1>7 DEF PurgeFiles, Removable
<1>8. CASE DispatchTick
    BY <1>8 DEF DispatchTick
<1>9. CASE UNCHANGED dispatchVars
    BY <1>9 DEF dispatchVars
<1>13. QED
    BY <1>1, <1>2, <1>3, <1>4, <1>5, <1>6, <1>7, <1>8, <1>9, <1>10, <1>11, <1>12
       DEF DispatchNext

LEMMA DispatchInvInit == DispatchInit => DispatchInv
    BY DispatchTypeInit
       DEF DispatchInit, DispatchInv, NothingBeforeSending, PagesAreRead,
           SourceHasReason, AcceptedHasText

LEMMA DispatchInvStep ==
    ASSUME DispatchInv, [DispatchNext]_dispatchVars
    PROVE  DispatchInv'
<1> USE DispatchAssumption
    DEF DispatchInv, DispatchTypeOK, NothingBeforeSending, PagesAreRead,
        SourceHasReason, AcceptedHasText, InTask
<1>1. DispatchTypeOK'
    BY DispatchTypeStep
<1>2. ASSUME NEW d \in Doc, Dispatch(d) PROVE DispatchInv'
    BY <1>1, <1>2 DEF Dispatch
<1>3. ASSUME NEW d \in Doc, Accept(d) PROVE DispatchInv'
    BY <1>1, <1>3 DEF Accept, Usable, Extract
<1>4. ASSUME NEW d \in Doc, RefuseResult(d) \/ GiveUp(d) PROVE DispatchInv'
    BY <1>1, <1>4 DEF RefuseResult, GiveUp, Refuse
<1>5. ASSUME NEW d \in Doc, Drop(d) \/ Open(d) \/ WriteFails(d)
      PROVE  DispatchInv'
    BY <1>1, <1>5 DEF Drop, Open, WriteFails
<1>6. ASSUME NEW d \in Doc, Render(d) \/ ExtractText(d) PROVE DispatchInv'
    BY <1>1, <1>6 DEF Render, ExtractText, RemoveDirectory
<1>7. ASSUME NEW d \in Doc, Return(d) PROVE DispatchInv'
    <2>1. "pages" \in Extracts(content[d]) => content[d] \in {"text", "image"}
        BY DEF Extracts, Content
    <2>2. QED
        BY <1>1, <1>7, <2>1 DEF Return, Unlinked, TaskState
<1>8. ASSUME NEW d \in Doc, Raise(d) PROVE DispatchInv'
    BY <1>1, <1>8 DEF Raise, RemoveDirectory, Unlinked, TaskState
<1>9. ASSUME NEW d \in Doc, Kill(d) PROVE DispatchInv'
    BY <1>1, <1>9 DEF Kill
<1>10. CASE RestartWorker
    BY <1>1, <1>10 DEF RestartWorker
<1>11. CASE PurgeFiles
    BY <1>1, <1>11 DEF PurgeFiles, Removable
<1>12. CASE DispatchTick
    BY <1>1, <1>12 DEF DispatchTick, NoFile
<1>13. CASE UNCHANGED dispatchVars
    BY <1>13 DEF dispatchVars
<1>14. QED
    BY <1>2, <1>3, <1>4, <1>5, <1>6, <1>7, <1>8, <1>9, <1>10, <1>11, <1>12,
       <1>13 DEF DispatchNext

LEMMA DispatchInvAlways == DispatchSpec => []DispatchInv
<1>1. DispatchInv /\ [DispatchNext]_dispatchVars => DispatchInv'
    BY DispatchInvStep
<1>2. QED
    BY <1>1, DispatchInvInit, PTL DEF DispatchSpec

\* For any number of documents, and whatever the broker, the workers and the
\* container do: a plaintext, page images included, is on disk only while its
\* task runs, or because the process died or could not finish writing it.
THEOREM PlaintextHasReason == DispatchSpec => []SourceHasReason
<1>1. DispatchInv => SourceHasReason
    BY DEF DispatchInv
<1>2. QED
    BY <1>1, DispatchInvAlways, PTL

\* A document is accepted only when there was something in it to be read.
THEOREM AcceptedIsReadable == DispatchSpec => []AcceptedHasText
<1>1. DispatchInv => AcceptedHasText
    BY DEF DispatchInv
<1>2. QED
    BY <1>1, DispatchInvAlways, PTL

-----------------------------------------------------------------------------
(* ArtifactPurger: the inductive invariant.                                *)

LEMMA InitIInv == Init => IInv
<1> SUFFICES ASSUME Init PROVE IInv
    OBVIOUS
<1>1. 0 \in 0..Cap /\ Cap \in 0..Cap /\ 0 \in 0..PassHold /\ 0 \in 0..Interval
    BY ArtifactPurgerAssumption
<1>2. TypeOK
    BY <1>1 DEF Init, TypeOK
<1>3. PassCovers /\ BeatCovers
    BY DEF Init, PassCovers, BeatCovers, Passing, Stored
<1>4. QED
    BY <1>2, <1>3 DEF IInv

LEMMA TypeStep == TypeOK /\ [Next]_vars => TypeOK'
<1> SUFFICES ASSUME TypeOK, [Next]_vars PROVE TypeOK'
    OBVIOUS
<1> USE ArtifactPurgerAssumption DEF TypeOK
<1>1. ASSUME NEW a \in Original, Put(a) PROVE TypeOK'
    BY <1>1 DEF Put
<1>2. ASSUME NEW a \in Original, Withdraw(a) PROVE TypeOK'
    BY <1>2 DEF Withdraw
<1>3. CASE StartPass
    <2>1. 0 \in 0..PassHold /\ Stored \in SUBSET Original
        BY DEF Stored
    <2>2. QED
        BY <1>3, <2>1 DEF StartPass, store
<1>4. CASE List
    BY <1>4 DEF List, store, Stored
<1>5. ASSUME NEW a \in Original, Visit(a) PROVE TypeOK'
    BY <1>5 DEF Visit, Purged
<1>6. ASSUME NEW a \in Original, VisitFails(a) PROVE TypeOK'
    BY <1>6 DEF VisitFails, Purged
<1>7. CASE EndPass
    BY <1>7 DEF EndPass, Remaining, store
<1>8. CASE Exit
    BY <1>8 DEF Exit, store
<1>9. CASE Tick
    BY <1>9 DEF Tick, Aged, Passing
<1>10. CASE UNCHANGED vars
    BY <1>10 DEF vars
<1>11. QED
    BY <1>1, <1>2, <1>3, <1>4, <1>5, <1>6, <1>7, <1>8, <1>9, <1>10
       DEF Next, Purge, StoreFault

\* What a pass need not visit was not expired when the pass began.
LEMMA PassCoversStep == IInv /\ [Next]_vars => PassCovers'
<1> SUFFICES ASSUME IInv, [Next]_vars PROVE PassCovers'
    OBVIOUS
<1> USE ArtifactPurgerAssumption DEF IInv, TypeOK, PassCovers, Passing, Stored
<1>1. ASSUME NEW a \in Original, Put(a) PROVE PassCovers'
    BY <1>1 DEF Put
<1>2. ASSUME NEW a \in Original, Withdraw(a) PROVE PassCovers'
    BY <1>2 DEF Withdraw
<1>3. CASE StartPass
    BY <1>3 DEF StartPass, store
<1>4. CASE List
    BY <1>4 DEF List, store
<1>5. ASSUME NEW a \in Original, Visit(a) PROVE PassCovers'
    BY <1>5 DEF Visit, Purged, Expired
<1>6. ASSUME NEW a \in Original, VisitFails(a) PROVE PassCovers'
    BY <1>6 DEF VisitFails
<1>7. CASE EndPass
    BY <1>7 DEF EndPass
<1>8. CASE Exit
    BY <1>8 DEF Exit
<1>9. CASE Tick
    BY <1>9 DEF Tick, Aged
<1>10. CASE UNCHANGED vars
    BY <1>10 DEF vars
<1>11. QED
    BY <1>1, <1>2, <1>3, <1>4, <1>5, <1>6, <1>7, <1>8, <1>9, <1>10
       DEF Next, Purge, StoreFault

\* A clean pass leaves nothing that was expired when it began; from then on
\* an original and the heartbeat age together.
LEMMA BeatCoversStep == IInv /\ [Next]_vars => BeatCovers'
<1> SUFFICES ASSUME IInv, [Next]_vars PROVE BeatCovers'
    OBVIOUS
<1> USE ArtifactPurgerAssumption DEF IInv, TypeOK, BeatCovers, Stored
<1>1. ASSUME NEW a \in Original, Put(a) PROVE BeatCovers'
    BY <1>1 DEF Put
<1>2. ASSUME NEW a \in Original, Withdraw(a) PROVE BeatCovers'
    BY <1>2 DEF Withdraw
<1>3. CASE StartPass \/ List \/ Exit
    BY <1>3 DEF StartPass, List, Exit, store
<1>4. ASSUME NEW a \in Original, Visit(a) \/ VisitFails(a) PROVE BeatCovers'
    BY <1>4 DEF Visit, VisitFails, Purged
<1>5. CASE EndPass
    BY <1>5 DEF EndPass, Clean, PassCovers, Passing, store
<1>6. CASE Tick
    BY <1>6 DEF Tick, Aged
<1>7. CASE UNCHANGED vars
    BY <1>7 DEF vars
<1>8. QED
    BY <1>1, <1>2, <1>3, <1>4, <1>5, <1>6, <1>7 DEF Next, Purge, StoreFault

LEMMA IInvAlways == Spec => []IInv
<1>1. IInv /\ [Next]_vars => IInv'
    BY TypeStep, PassCoversStep, BeatCoversStep DEF IInv
<1>2. QED
    BY InitIInv, <1>1, PTL DEF Spec

-----------------------------------------------------------------------------
(* ArtifactPurger: the theorems.                                           *)

\* Every variable keeps its type; in particular no negative sleep is computed.
THEOREM TypeCorrect == Spec => []TypeOK
<1>1. IInv => TypeOK
    BY DEF IInv
<1>2. QED
    BY <1>1, IInvAlways, PTL

\* A fresh heartbeat proves that no original is stored beyond the ceiling,
\* when the buffer covers the oldest fresh heartbeat and one pass.
THEOREM FreshHeartbeatSuffices ==
    ASSUME BufferSuffices PROVE Spec => []HealthyMeansCompliant
<1>1. IInv => HealthyMeansCompliant
    <2> SUFFICES ASSUME IInv, Healthy, NEW a \in Stored PROVE age[a] <= Ceiling
        BY DEF HealthyMeansCompliant
    <2>1. age[a] \in Nat /\ beat \in Nat /\ beat <= HealthAge
        BY DEF IInv, TypeOK, Healthy, Stored
    <2>2. age[a] < AccessTTL + beat + PassHold
        BY <2>1, ArtifactPurgerAssumption DEF IInv, BeatCovers
    <2>3. QED
        BY <2>1, <2>2, ArtifactPurgerAssumption DEF Ceiling, BufferSuffices
<1>2. QED
    BY <1>1, IInvAlways, PTL

=============================================================================
