------------------------------ MODULE ObdScan ------------------------------
(***************************************************************************)
(* Scans of the OBD bridge (services/obd-bridge) over one BLE adapter.     *)
(*                                                                         *)
(* A scan sends a fixed list of commands, one at a time.  query clears the *)
(* receive buffer, writes the command and waits for a prompt; whatever the *)
(* buffer holds when the coroutine runs again is the answer, so an answer  *)
(* is bound to its command by order alone.  The adapter is external: it    *)
(* answers in the order of the commands, in fragments, after any delay, or *)
(* not at all, and it may go on sending to the next scan what the last one *)
(* asked.  Giving the adapter back takes two calls, and the second one is  *)
(* not made when the first one raises.                                     *)
(***************************************************************************)
EXTENDS Naturals, Sequences

CONSTANTS Scan,         \* POST /v1/scan requests
          NoScan,       \* the adapter has no central connected
          Commands,     \* the initialisation and SCAN_COMMANDS, in order
          QueryTicks    \* timeout_seconds of a query

ASSUME ObdScanAssumption ==
    /\ NoScan \notin Scan
    /\ Commands \in Seq(STRING) /\ Commands # <<>>
    /\ QueryTicks \in Nat

VARIABLES scanAt,    \* scanAt[s]: new, linked, open, waiting or over
          current,   \* current[s]: index of the command last sent
          waited,    \* waited[s]: ticks since it was sent
          buffer,    \* buffer[s]: fragments received since then
          raw,       \* raw[s]: the answers recorded, one per command
          outcome,   \* outcome[s]: none, report, timeout (504) or failed (500)
          link,      \* the scan the adapter is connected to
          air,       \* fragments the adapter has still to deliver
          cleanLink  \* cleanLink[s]: nothing was in the air when s subscribed

obdVars ==
    <<scanAt, current, waited, buffer, raw, outcome, link, air, cleanLink>>

\* A notification: data that answers a command of a scan, or the prompt that
\* ends the answer, with any text that is none (NO DATA, ?).
Fragment == [kind : {"data", "prompt"}, by : Scan, index : 1..Len(Commands)]

ObdTypeOK ==
    /\ scanAt \in [Scan -> {"new", "linked", "open", "waiting", "over"}]
    /\ current \in [Scan -> 0..Len(Commands)]
    /\ waited \in [Scan -> 0..QueryTicks]
    /\ buffer \in [Scan -> Seq(Fragment)]
    /\ raw \in [Scan -> Seq(Seq(Fragment))]
    /\ outcome \in [Scan -> {"none", "report", "timeout", "failed"}]
    /\ link \in Scan \cup {NoScan}
    /\ air \in Seq(Fragment)
    /\ cleanLink \in [Scan -> BOOLEAN]

ObdInit ==
    /\ scanAt = [s \in Scan |-> "new"]
    /\ current = [s \in Scan |-> 0]
    /\ waited = [s \in Scan |-> 0]
    /\ buffer = [s \in Scan |-> <<>>]
    /\ raw = [s \in Scan |-> <<>>]
    /\ outcome = [s \in Scan |-> "none"]
    /\ link = NoScan
    /\ air = <<>>
    /\ cleanLink = [s \in Scan |-> FALSE]

(* Plausible mistakes, substituted for the definition of the same          *)
(* parameters to see that a property notices.                              *)
NotCleared(b) == b
ReadyAtOnce(b) == b # <<>>
NeverExpires(s) == scanAt[s] = "none"

-----------------------------------------------------------------------------
(* transport.py.                                                           *)

\* on_notify sets the event as soon as a prompt is in the buffer.
Ready(b) == \E n \in DOMAIN b : b[n].kind = "prompt"

\* What the adapter sends for one command.
Prompt(s, k) == [kind |-> "prompt", by |-> s, index |-> k]
Responses(s, k) ==
    {<<>>, <<Prompt(s, k)>>,
     <<[kind |-> "data", by |-> s, index |-> k], Prompt(s, k)>>}

\* The buffer at the moment a command is written.
Cleared(b) == SubSeq(b, 1, 0)

Query(s, k) ==
    /\ buffer' = [buffer EXCEPT ![s] = Cleared(@)]
    /\ current' = [current EXCEPT ![s] = k]
    /\ waited' = [waited EXCEPT ![s] = 0]
    /\ \E response \in Responses(s, k) : air' = air \o response

\* finally: transport.close().  Without a connection it does nothing, and the
\* adapter may drop what it has not sent.  When stop_notify raises, disconnect is
\* skipped and the scan is a 500.
Close(s, code) ==
    /\ scanAt' = [scanAt EXCEPT ![s] = "over"]
    /\ \/ /\ outcome' = [outcome EXCEPT ![s] = code]
          /\ link' = NoScan
          /\ air' \in {air, <<>>}
       \/ /\ outcome' = [outcome EXCEPT ![s] = "failed"]
          /\ UNCHANGED <<link, air>>

\* connect(), its first call.
Connect(s) ==
    /\ scanAt[s] = "new"
    /\ link = NoScan
    /\ link' = s
    /\ scanAt' = [scanAt EXCEPT ![s] = "linked"]
    /\ UNCHANGED <<current, waited, buffer, raw, outcome, air, cleanLink>>

\* The adapter is out of reach, or still has another scan.
ConnectFails(s) ==
    /\ scanAt[s] = "new"
    /\ scanAt' = [scanAt EXCEPT ![s] = "over"]
    /\ \E code \in {"timeout", "failed"} : outcome' = [outcome EXCEPT ![s] = code]
    /\ UNCHANGED <<current, waited, buffer, raw, link, air, cleanLink>>

\* start_notify: from here on notifications are received.
Subscribe(s) ==
    /\ scanAt[s] = "linked"
    /\ scanAt' = [scanAt EXCEPT ![s] = "open"]
    /\ cleanLink' = [cleanLink EXCEPT ![s] = (air = <<>>)]
    /\ UNCHANGED <<current, waited, buffer, raw, outcome, link, air>>

\* A notification, at any time; nobody receives it when the scan that has the
\* adapter is not subscribed or over.
Notify ==
    /\ link # NoScan
    /\ air # <<>>
    /\ air' = Tail(air)
    /\ buffer' = [buffer EXCEPT ![link] =
                    IF scanAt[link] \in {"open", "waiting"}
                      THEN Append(@, Head(air)) ELSE @]
    /\ UNCHANGED <<scanAt, current, waited, raw, outcome, link, cleanLink>>

\* An adapter that was not given back is switched off, or the bridge restarts.
AdapterDrops ==
    /\ link # NoScan
    /\ scanAt[link] = "over"
    /\ link' = NoScan
    /\ air' = <<>>
    /\ UNCHANGED <<scanAt, current, waited, buffer, raw, outcome, cleanLink>>

-----------------------------------------------------------------------------
(* scan() of service.py.                                                   *)

FirstQuery(s) ==
    /\ scanAt[s] = "open"
    /\ Query(s, 1)
    /\ scanAt' = [scanAt EXCEPT ![s] = "waiting"]
    /\ UNCHANGED <<raw, outcome, link, cleanLink>>

Answered(s) == scanAt[s] = "waiting" /\ Ready(buffer[s])
Recorded1(s) == raw' = [raw EXCEPT ![s] = Append(@, buffer[s])]

NextQuery(s) ==
    /\ Answered(s)
    /\ current[s] < Len(Commands)
    /\ Recorded1(s)
    /\ Query(s, current[s] + 1)
    /\ UNCHANGED <<scanAt, outcome, link, cleanLink>>

\* The report, or a 500 when the VIN decoder raises on half a byte.
Report(s) ==
    /\ Answered(s)
    /\ current[s] = Len(Commands)
    /\ Recorded1(s)
    /\ Close(s, "report") \/ Close(s, "failed")
    /\ UNCHANGED <<current, waited, buffer, cleanLink>>

\* wait_for raises only when the event is still unset.
Expires(s) == scanAt[s] = "waiting" /\ waited[s] >= QueryTicks /\ ~Ready(buffer[s])

\* TimeoutError ends the whole scan with a 504.
TimedOut(s) ==
    /\ Expires(s)
    /\ Close(s, "timeout")
    /\ UNCHANGED <<current, waited, buffer, raw, cleanLink>>

\* Any call may raise, start_notify included; the connection may be gone then.
LinkLost(s) ==
    /\ scanAt[s] \in {"linked", "open", "waiting"}
    /\ Close(s, "failed") \/ Close(s, "timeout")
    /\ UNCHANGED <<current, waited, buffer, raw, cleanLink>>

ObdTick ==
    /\ \E s \in Scan : scanAt[s] = "waiting"
    /\ \A s \in Scan : scanAt[s] = "waiting" => waited[s] < QueryTicks
    /\ waited' = [s \in Scan |->
                    IF scanAt[s] = "waiting" THEN waited[s] + 1 ELSE waited[s]]
    /\ UNCHANGED <<scanAt, current, buffer, raw, outcome, link, air, cleanLink>>

ScanStep(s) ==
    Subscribe(s) \/ FirstQuery(s) \/ NextQuery(s) \/ Report(s) \/ TimedOut(s)

ObdNext ==
    \/ \E s \in Scan : Connect(s) \/ ConnectFails(s) \/ ScanStep(s) \/ LinkLost(s)
    \/ Notify
    \/ AdapterDrops
    \/ ObdTick

ObdSpec == ObdInit /\ [][ObdNext]_obdVars

\* The event loop runs a scan that can go on, and time passes.
ObdFairness ==
    /\ WF_obdVars(ObdTick)
    /\ \A s \in Scan : WF_obdVars(ScanStep(s))

-----------------------------------------------------------------------------
(* What must hold.                                                         *)

\* Unless the adapter owed answers to an earlier scan, every answer a scan
\* records is its own and that of the command it is recorded for.
AnswersInStep ==
    \A s \in Scan : cleanLink[s] =>
        \A k \in DOMAIN raw[s] : \A n \in DOMAIN raw[s][k] :
            raw[s][k][n].by = s /\ raw[s][k][n].index = k

\* The j-th answer of s has the end of what the j-th command of s was answered.
Ended(s, j) == \E n \in DOMAIN raw[s][j] : raw[s][j][n] = Prompt(s, j)

\* A scan that took over an adapter in the middle of an answer may record
\* foreign or earlier answers for a while, but it recovers for good: behind the
\* end of an answer to its own command, every answer is in step.
StaysInStep ==
    \A s \in Scan : \A j, k \in DOMAIN raw[s] : j < k /\ Ended(s, j) =>
        \A n \in DOMAIN raw[s][k] : raw[s][k][n].by = s /\ raw[s][k][n].index = k

\* Every scan that has the adapter gives it back, whatever the adapter answers
\* and whenever it falls silent, or says with a 500 that it may not have: after
\* a report or a time-out the adapter is free.
ScanEnds == \A s \in Scan : link = s ~> (link # s \/ outcome[s] = "failed")

(* The strengthening for AnswersInStep and StaysInStep.                    *)

\* Nothing foreign or earlier can reach s any more.
Synced(s) == cleanLink[s] \/ \E j \in DOMAIN raw[s] : Ended(s, j)

\* Fragments of the command that s is waiting for, at most one prompt last.
Own(fragments, s) ==
    \A n \in DOMAIN fragments :
        /\ fragments[n].by = s /\ fragments[n].index = current[s]
        /\ fragments[n].kind = "prompt" => n = Len(fragments)

\* Whatever comes before it, the prompt of that command comes last.
OwnEnd(fragments, s) ==
    \A n \in DOMAIN fragments :
        fragments[n] = Prompt(s, current[s]) => n = Len(fragments)

InStep(s) ==
    /\ scanAt[s] \in {"linked", "open", "waiting"} => link = s
    /\ link = s => scanAt[s] # "new"
    /\ scanAt[s] = "waiting" =>
          /\ current[s] = Len(raw[s]) + 1
          /\ OwnEnd(buffer[s] \o air, s)
          /\ Synced(s) => Own(buffer[s] \o air, s)
    /\ scanAt[s] \in {"new", "linked", "open"} => raw[s] = <<>> /\ current[s] = 0
    /\ scanAt[s] = "open" /\ cleanLink[s] => air = <<>>
    /\ \A n \in DOMAIN air : air[n].by = s => air[n].index <= current[s]

ObdIInv ==
    ObdTypeOK /\ (\A s \in Scan : InStep(s)) /\ AnswersInStep /\ StaysInStep

=============================================================================
