--------------------------- MODULE CaseOriginals ---------------------------
(***************************************************************************)
(* What the API promises about a case and its uploaded originals, with no  *)
(* leases, no requests and no failures: an original is only ever stored    *)
(* for a case that exists, and a deletion is acknowledged only when no     *)
(* original of the case is left, so that a deleted case has none until it  *)
(* is imported again.  LeasedCase implements this.                         *)
(***************************************************************************)
CONSTANTS Case,      \* case ids
          Artifact   \* artifact ids (uuid4, each used at most once)

VARIABLES row,       \* the life of each case
          stored     \* the originals in the artifact store, by case

vars == <<row, stored>>

Lives == {"unborn", "live", "expired", "deleted"}

Init ==
    /\ row = [c \in Case |-> "unborn"]
    /\ stored = [c \in Case |-> {}]

\* Created, or imported once the case of that id is gone.
Create(c) ==
    /\ row[c] # "live"
    /\ row' = [row EXCEPT ![c] = "live"]
    /\ UNCHANGED stored

Store(c, a) ==
    /\ row[c] = "live"
    /\ stored' = [stored EXCEPT ![c] = @ \cup {a}]
    /\ UNCHANGED row

\* Originals may disappear at any time: expiry, rollback, a partial deletion.
Shrinks ==
    /\ stored' \in [Case -> SUBSET Artifact]
    /\ \A c \in Case : stored'[c] \subseteq stored[c]
Discard == Shrinks /\ UNCHANGED row

\* Retention ends for some live cases; their originals may outlive them.
Expire ==
    /\ row' \in [Case -> Lives]
    /\ \A c \in Case :
          row'[c] # row[c] => row[c] = "live" /\ row'[c] = "expired"
    /\ Shrinks

\* What is left of the originals goes with the case, in one step.
Delete(c) ==
    /\ row[c] = "live"
    /\ row' = [row EXCEPT ![c] = "deleted"]
    /\ stored' = [stored EXCEPT ![c] = {}]

Next ==
    \/ \E c \in Case : Create(c) \/ Delete(c)
    \/ \E c \in Case, a \in Artifact : Store(c, a)
    \/ Discard
    \/ Expire

Spec == Init /\ [][Next]_vars

=============================================================================
