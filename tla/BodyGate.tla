------------------------------ MODULE BodyGate ------------------------------
(***************************************************************************)
(* What a cloud request passes before its handler: the access middleware   *)
(* of main.py and CloudArtifactBodyLimitMiddleware (cloud_security.py).    *)
(*                                                                         *)
(* The second one buffers the ASGI messages of an upload or an import up   *)
(* to a limit and replays them to the handler.  A body is its length here; *)
(* the server, the client and the handler's reader are external.           *)
(***************************************************************************)
EXTENDS Naturals, Sequences

CONSTANTS MaxBody,   \* max_body_bytes
          MaxChunk,  \* largest body of one message
          MaxChunks  \* bound on the messages of one request

ASSUME BodyGateAssumption ==
    MaxBody \in Nat \ {0} /\ MaxChunk \in Nat /\ MaxChunks \in Nat

VARIABLES gateStep,    \* where the request is
          route,       \* upload, import or other
          sentBytes,   \* what the client has sent so far
          sentAll,     \* its last message said that there is no more
          recorded,    \* messages: the buffered messages
          replayed,    \* index: how many of them the handler has received
          readBytes    \* what the handler has read so far

gateVars ==
    <<gateStep, route, sentBytes, sentAll, recorded, replayed, readBytes>>

Message == [kind : {"request"}, size : 0..MaxChunk, more : BOOLEAN]
             \cup {[kind |-> "disconnect", size |-> 0, more |-> FALSE]}

GateTypeOK ==
    /\ gateStep \in {"arrived", "granted", "buffering", "handling", "parsed",
                     "aborted", "denied", "rejected"}
    /\ route \in {"upload", "import", "other"}
    /\ sentBytes \in 0..(MaxChunk * MaxChunks)
    /\ sentAll \in BOOLEAN
    /\ recorded \in Seq(Message)
    /\ replayed \in 0..(MaxChunks + 2)
    /\ readBytes \in 0..(MaxChunk * MaxChunks)

GateInit ==
    /\ gateStep = "arrived" /\ route = "other"
    /\ sentBytes = 0 /\ sentAll = FALSE
    /\ recorded = <<>> /\ replayed = 0
    /\ readBytes = 0

(* Plausible mistakes, substituted for the definition of the same          *)
(* parameters to see that a property notices.                              *)
RequestsOnly(m) ==
    IF m.kind = "request" THEN Append(recorded, m) ELSE recorded

-----------------------------------------------------------------------------
(* security_headers: the rate limit, then the capability.                  *)

\* 429 for a peer over its limit; 404 for a case path without a valid token.
Deny ==
    /\ gateStep = "arrived"
    /\ gateStep' = "denied"
    /\ route' \in {"upload", "import", "other"}
    /\ UNCHANGED <<sentBytes, sentAll, recorded, replayed, readBytes>>

Grant ==
    /\ gateStep = "arrived"
    /\ route' \in {"upload", "import", "other"}
    /\ gateStep' = "granted"
    /\ UNCHANGED <<sentBytes, sentAll, recorded, replayed, readBytes>>

-----------------------------------------------------------------------------
(* CloudArtifactBodyLimitMiddleware.                                       *)

Limited == route \in {"upload", "import"}

\* A Content-Length above the limit, if there is one and it is a number.
RejectHeader ==
    /\ gateStep = "granted" /\ Limited
    /\ gateStep' = "rejected"
    /\ UNCHANGED <<route, sentBytes, sentAll, recorded, replayed, readBytes>>

\* No such header, or one that cannot be read, or is lower than the truth.
StartBuffering ==
    /\ gateStep = "granted" /\ Limited
    /\ gateStep' = "buffering"
    /\ UNCHANGED <<route, sentBytes, sentAll, recorded, replayed, readBytes>>

\* Any other request goes to its handler as it is.
PassThrough ==
    /\ gateStep = "granted" /\ ~Limited
    /\ gateStep' = "parsed"
    /\ UNCHANGED <<route, sentBytes, sentAll, recorded, replayed, readBytes>>

\* messages.append(message).
Kept(m) == Append(recorded, m)

\* One message of the client, counted whatever the header said.
ReceiveChunk ==
    /\ gateStep = "buffering"
    /\ Len(recorded) < MaxChunks
    /\ \E size \in 0..MaxChunk, more \in BOOLEAN :
          /\ recorded' = Kept([kind |-> "request", size |-> size, more |-> more])
          /\ sentBytes' = sentBytes + size
          /\ sentAll' = ~more
          /\ gateStep' = IF sentBytes' > MaxBody THEN "rejected"
                         ELSE IF more THEN "buffering" ELSE "handling"
    /\ UNCHANGED <<route, replayed, readBytes>>

ReceiveDisconnect ==
    /\ gateStep = "buffering"
    /\ recorded' = Kept([kind |-> "disconnect", size |-> 0, more |-> FALSE])
    /\ gateStep' = "handling"
    /\ UNCHANGED <<route, sentBytes, sentAll, replayed, readBytes>>

\* replay_receive: behind the recorded messages there is an empty final one.
Replayed(n) ==
    IF n <= Len(recorded) THEN recorded[n]
    ELSE [kind |-> "request", size |-> 0, more |-> FALSE]

\* The handler's reader: a disconnect aborts the request, and a message
\* without more_body completes the body.
Replay ==
    /\ gateStep = "handling"
    /\ LET m == Replayed(replayed + 1) IN
          /\ replayed' = replayed + 1
          /\ readBytes' = readBytes + m.size
          /\ gateStep' = IF m.kind = "disconnect" THEN "aborted"
                         ELSE IF m.more THEN "handling" ELSE "parsed"
    /\ UNCHANGED <<route, sentBytes, sentAll, recorded>>

GateNext ==
    \/ Deny \/ Grant
    \/ RejectHeader \/ StartBuffering \/ PassThrough
    \/ ReceiveChunk \/ ReceiveDisconnect
    \/ Replay

GateSpec == GateInit /\ [][GateNext]_gateVars

-----------------------------------------------------------------------------
(* What must hold.                                                         *)

\* A handler never takes the first part of an upload for the whole: what it
\* parses is all that the client sent, the client had finished, and it is not
\* above the limit, whatever Content-Length said.
ParsedBodyIsWhole ==
    gateStep = "parsed" /\ Limited =>
        sentAll /\ readBytes = sentBytes /\ readBytes <= MaxBody

(* The strengthening that makes it inductive.                              *)

\* total[n]: the bytes in the first n recorded messages.
RunningTotal(total) ==
    /\ total[0] = 0
    /\ \A n \in 1..Len(recorded) : total[n] = total[n - 1] + recorded[n].size

GoesOn(m) == m.kind = "request" /\ m.more

\* What was buffered so far asks for more, and is what the client has sent.
BufferedSoFar ==
    gateStep = "buffering" =>
        /\ Limited /\ sentBytes <= MaxBody
        /\ \A n \in 1..Len(recorded) : GoesOn(recorded[n])
        /\ \E total \in [0..Len(recorded) -> Nat] :
              RunningTotal(total) /\ total[Len(recorded)] = sentBytes

\* The handler has read the first messages of a complete record: the last one,
\* and no other, ends it, by a disconnect or by the end of the body.
ReplayInStep ==
    gateStep = "handling" =>
        /\ Limited /\ sentBytes <= MaxBody
        /\ replayed < Len(recorded)
        /\ \A n \in 1..Len(recorded) : GoesOn(recorded[n]) <=> n < Len(recorded)
        /\ sentAll \/ recorded[Len(recorded)].kind = "disconnect"
        /\ \E total \in [0..Len(recorded) -> Nat] :
              /\ RunningTotal(total)
              /\ total[Len(recorded)] = sentBytes /\ total[replayed] = readBytes

\* The bounds of a record; only a disconnect comes after MaxChunks messages.
RecordBounded ==
    /\ sentBytes <= MaxChunk * Len(recorded) /\ sentBytes <= MaxChunk * MaxChunks
    /\ readBytes <= MaxChunk * replayed /\ readBytes <= MaxChunk * MaxChunks
    /\ gateStep \in {"arrived", "granted"} => recorded = <<>>
    /\ gateStep \in {"arrived", "granted", "buffering"} => replayed = 0
    /\ gateStep = "buffering" => Len(recorded) <= MaxChunks
    /\ \A n \in 1..Len(recorded) : recorded[n].kind = "request" => n <= MaxChunks
    /\ Len(recorded) <= MaxChunks + 1

GateInv ==
    /\ GateTypeOK /\ RecordBounded /\ BufferedSoFar /\ ReplayInStep
    /\ ParsedBodyIsWhole

=============================================================================
