---------------------------- MODULE RateLimiter ----------------------------
(***************************************************************************)
(* InMemoryRateLimiter of cloud_security.py, as the access middleware of   *)
(* main.py uses it: a sliding window per scope and peer, kept in a table   *)
(* of bounded size.                                                        *)
(*                                                                         *)
(* The middleware calls check on the event loop and never awaits in it, so *)
(* a check is one step.  An admission is kept by the time it still counts, *)
(* Window ticks at first; 0 stands for one that has left the window and    *)
(* waits for a check or a sweep to pop it.                                 *)
(***************************************************************************)
EXTENDS Naturals, Sequences, FiniteSets

CONSTANTS Scope,       \* case_creation, artifact_upload and vin_decode
          Peer,        \* ASGI peer addresses
          Overflow,    \* the key "<overflow>"
          Limit,       \* Limit[c]: requests of scope c per window
          Window,      \* window_seconds
          MaxKeys,     \* max_keys
          SweepEvery   \* checks from one sweep of the table to the next, 256

ASSUME RateLimiterAssumption ==
    /\ Overflow \notin Peer
    /\ Limit \in [Scope -> Nat]
    /\ Window \in Nat \ {0} /\ MaxKeys \in Nat \ {0} /\ SweepEvery \in Nat \ {0}
    /\ IsFiniteSet(Scope)

VARIABLES table,   \* _events: the keys in use, each with its admissions
          checks,  \* _checks, modulo SweepEvery
          granted  \* granted[c][p]: the live admissions of peer p in scope c

limiterVars == <<table, checks, granted>>

Key == Scope \X (Peer \cup {Overflow})

LimiterTypeOK ==
    /\ DOMAIN table \subseteq Key
    /\ \A key \in DOMAIN table : table[key] \in Seq(0..Window)
    /\ checks \in 0..(SweepEvery - 1)
    /\ granted \in [Scope -> [Peer -> Seq(0..Window)]]

LimiterInit ==
    /\ table = [key \in {} |-> <<>>]
    /\ checks = 0
    /\ granted = [c \in Scope |-> [p \in Peer |-> <<>>]]

\* How many of the oldest admissions have left the window.
Gone(events) ==
    Cardinality({n \in DOMAIN events : \A m \in 1..n : events[m] = 0})

\* popleft while the oldest admission has left the window.
Live(events) == SubSeq(events, Gone(events) + 1, Len(events))

(* Plausible mistakes, substituted for the definition of the same          *)
(* parameters to see that a property notices.                              *)
FullTooLate(keys) == Cardinality(keys) > MaxKeys
OneTooMany(events, c) == Len(events) <= Limit[c]

-----------------------------------------------------------------------------
\* Every SweepEvery-th check first drops the keys without a live admission.
Swept ==
    IF checks + 1 = SweepEvery
      THEN [key \in {k \in DOMAIN table : Live(table[k]) # <<>>} |->
              Live(table[key])]
      ELSE table

TableFull(keys) == Cardinality(keys) >= MaxKeys

\* A new peer of a full table shares the bucket of its scope.
BucketOf(c, p, keys) ==
    IF <<c, p>> \notin keys /\ TableFull(keys) THEN <<c, Overflow>> ELSE <<c, p>>

HasRoom(events, c) == Len(events) < Limit[c]

\* One rate-limited request of peer p: admitted, or answered with a 429.
Check(c, p) ==
    /\ Limit[c] >= 1
    /\ checks' = (checks + 1) % SweepEvery
    /\ LET keys == DOMAIN Swept
           bucket == BucketOf(c, p, keys)
           events == IF bucket \in keys THEN Live(Swept[bucket]) ELSE <<>>
           admitted == HasRoom(events, c)
           Grown(seq) == IF admitted THEN Append(seq, Window) ELSE seq
       IN  /\ table' = [key \in keys \cup {bucket} |->
                          IF key = bucket THEN Grown(events) ELSE Swept[key]]
           /\ granted' = [granted EXCEPT ![c][p] = Grown(@)]

\* limit < 1 fails closed before it touches the table.
CheckDisabled(c) == Limit[c] < 1 /\ UNCHANGED limiterVars

Left(life) == IF life > 0 THEN life - 1 ELSE 0

LimiterTick ==
    /\ table' = [key \in DOMAIN table |->
                   [n \in DOMAIN table[key] |-> Left(table[key][n])]]
    /\ granted' = [c \in Scope |-> [p \in Peer |->
                     Live([n \in DOMAIN granted[c][p] |-> Left(granted[c][p][n])])]]
    /\ UNCHANGED checks

LimiterNext ==
    \/ \E c \in Scope, p \in Peer : Check(c, p)
    \/ \E c \in Scope : CheckDisabled(c)
    \/ LimiterTick

LimiterSpec == LimiterInit /\ [][LimiterNext]_limiterVars

-----------------------------------------------------------------------------
(* What must hold.                                                         *)

\* The abuse prevention is no memory leak itself: whatever peers come, leave
\* and come back, there are MaxKeys buckets and one overflow bucket for each
\* scope that is limited.
TableBounded ==
    Cardinality(DOMAIN table) <= MaxKeys + Cardinality({c \in Scope : Limit[c] >= 1})

\* A full table lets nobody past the limit, but a sweep may free a key for a
\* peer whose admissions of this window are in the overflow bucket: a peer is
\* never admitted more than twice the limit in a window.
AtMostTwice ==
    \A c \in Scope, p \in Peer : Len(granted[c][p]) <= 2 * Limit[c]

(* The strengthening that makes AtMostTwice inductive.                     *)

BucketsOf(c, p) == {<<c, p>>, <<c, Overflow>>}

\* where[n]: the bucket and the place in it of the n-th admission of a list; no
\* two have one place.
IsPlacement(where, tab, list) ==
    /\ \A n \in DOMAIN list :
          /\ where[n][1] \in DOMAIN tab
          /\ where[n][2] \in DOMAIN tab[where[n][1]]
          /\ tab[where[n][1]][where[n][2]] = list[n]
    /\ \A m, n \in DOMAIN list : where[m] = where[n] => m = n

Accounted(buckets, tab, list) ==
    \E where \in [DOMAIN list -> buckets \X (Nat \ {0})] :
        IsPlacement(where, tab, list)

\* The live admissions of a peer are all in its bucket or in the overflow
\* bucket of the scope, neither of which is over the limit.
GrantsAccounted ==
    /\ \A key \in DOMAIN table : Len(table[key]) <= Limit[key[1]]
    /\ \A c \in Scope, p \in Peer :
          /\ \A n \in DOMAIN granted[c][p] : granted[c][p][n] > 0
          /\ \A m, n \in DOMAIN granted[c][p] :
                m <= n => granted[c][p][m] <= granted[c][p][n]
          /\ Accounted(BucketsOf(c, p), table, granted[c][p])

=============================================================================
