-------------------------- MODULE AuditedLifecycle --------------------------
(***************************************************************************)
(* What the lifecycle promises the owner of one case, with no requests, no *)
(* evidence and no analysis: the case moves along the edges of the graph,  *)
(* one audit event at a time.  It can be exported at any time, deleted,    *)
(* and imported again from any file, an old one included; it comes back    *)
(* with the stage and the events of that file and with no others.  Only a  *)
(* stage that rests on a PPI is lost on the way, and all events with it.   *)
(* CaseLifecycle implements this when the requests do not overlap.         *)
(***************************************************************************)
EXTENDS Sequences

CONSTANTS Edges,     \* the pairs of stages of the graph
          First,     \* the stage of a new case
          Unproven,  \* stages that an import cannot prove
          Fallback,  \* the stage of a case imported in one of those
          Foreign    \* files that were not exported but written by hand

VARIABLES here,   \* the case exists
          stage,  \* its stage, First while it does not exist
          trail,  \* its audit events, the oldest first
          files   \* the exported files, each a stage and a trail

vars == <<here, stage, trail, files>>

Init == here = TRUE /\ stage = First /\ trail = <<>> /\ files = {}

Advance(to) ==
    /\ here
    /\ <<stage, to>> \in Edges
    /\ stage' = to
    /\ trail' = Append(trail, [from |-> stage, to |-> to])
    /\ UNCHANGED <<here, files>>

Export ==
    /\ here
    /\ files' = files \cup {[stage |-> stage, trail |-> trail]}
    /\ UNCHANGED <<here, stage, trail>>

Delete ==
    /\ here
    /\ here' = FALSE /\ stage' = First /\ trail' = <<>>
    /\ UNCHANGED files

Restore(f) ==
    /\ ~here
    /\ here' = TRUE
    /\ IF f.stage \in Unproven
         THEN stage' = Fallback /\ trail' = <<>>
         ELSE stage' = f.stage /\ trail' = f.trail
    /\ UNCHANGED files

Next ==
    \/ \E edge \in Edges : Advance(edge[2])
    \/ Export \/ Delete
    \/ \E f \in files \cup Foreign : Restore(f)

Spec == Init /\ [][Next]_vars

=============================================================================
