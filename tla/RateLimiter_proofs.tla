------------------------- MODULE RateLimiter_proofs -------------------------
(***************************************************************************)
(* For every limit, table size and number of peers: the table of the rate  *)
(* limiter is bounded, and no peer gets more than twice the limit.         *)
(***************************************************************************)
EXTENDS RateLimiter, FiniteSetTheorems, SequenceTheorems, TLAPS

\* The keys of single peers, and those that peers of a full table share.
Direct(keys) == {key \in keys : key[2] # Overflow}
Shared(keys) == {key \in keys : key[2] = Overflow}
LimitedScopes == {c \in Scope : Limit[c] >= 1}

\* What bounds a set of keys: single peers get no more than MaxKeys, and only a
\* scope that is limited at all has an overflow key.
KeysBounded(keys) ==
    /\ keys \subseteq Key /\ IsFiniteSet(keys)
    /\ Cardinality(Direct(keys)) <= MaxKeys
    /\ \A key \in Shared(keys) : key[1] \in LimitedScopes

\* The strengthening: how many keys there are in total says nothing of how many
\* of them are the overflow keys that a full table still adds.
LimiterIInv == KeysBounded(DOMAIN table)

LEMMA LimitedScopesFinite == IsFiniteSet(LimitedScopes)
BY RateLimiterAssumption, FS_Subset DEF LimitedScopes

\* There are as many overflow keys as scopes that have one.
LEMMA SharedBound ==
    ASSUME NEW keys, KeysBounded(keys)
    PROVE  IsFiniteSet(Shared(keys)) /\ Cardinality(Shared(keys)) <= Cardinality(LimitedScopes)
<1> DEFINE ScopeOf == [key \in Shared(keys) |-> key[1]]
<1>1. ScopeOf \in [Shared(keys) -> LimitedScopes]
  BY DEF KeysBounded
<1>2. ASSUME NEW k1 \in Shared(keys), NEW k2 \in Shared(keys), k1[1] = k2[1]
      PROVE  k1 = k2
  BY <1>2 DEF Shared, KeysBounded, Key
<1>3. ScopeOf \in Injection(Shared(keys), LimitedScopes)
  BY <1>1, <1>2 DEF Injection, IsInjective
<1> QED
  BY <1>3, LimitedScopesFinite, FS_Injection

\* So the bound on the keys of single peers bounds the table.
LEMMA TotalBound ==
    ASSUME NEW keys, KeysBounded(keys)
    PROVE  Cardinality(keys) <= MaxKeys + Cardinality(LimitedScopes)
<1>1. IsFiniteSet(Direct(keys)) /\ IsFiniteSet(Shared(keys))
  BY FS_Subset DEF KeysBounded, Direct, Shared
<1>2. keys = Direct(keys) \cup Shared(keys)
        /\ Direct(keys) \cap Shared(keys) = {}
  BY DEF Direct, Shared
<1>3. Cardinality(Direct(keys)) \in Nat /\ Cardinality(Shared(keys)) \in Nat
      /\ Cardinality(LimitedScopes) \in Nat
  BY <1>1, LimitedScopesFinite, FS_CardinalityType
<1>4. Cardinality(keys) = Cardinality(Direct(keys)) + Cardinality(Shared(keys))
  <2>1. Cardinality(Direct(keys) \cup Shared(keys))
          = Cardinality(Direct(keys)) + Cardinality(Shared(keys))
              - Cardinality(Direct(keys) \cap Shared(keys))
    BY <1>1, FS_Union
  <2>2. Cardinality({}) = 0
    BY FS_EmptySet
  <2>3. Cardinality(Direct(keys) \cap Shared(keys)) = 0
    BY <1>2, <2>2, Zenon
  <2>4. Cardinality(keys) = Cardinality(Direct(keys) \cup Shared(keys))
    BY <1>2, Zenon
  <2> QED
    BY <1>3, <2>1, <2>3, <2>4
<1> QED
  BY <1>3, <1>4, SharedBound, RateLimiterAssumption DEF KeysBounded

\* A sweep only drops keys.
LEMMA FewerKeys ==
    ASSUME NEW keys, KeysBounded(keys), NEW fewer \in SUBSET keys
    PROVE  KeysBounded(fewer)
<1>1. IsFiniteSet(fewer)
  BY FS_Subset DEF KeysBounded
<1>2. IsFiniteSet(Direct(keys)) /\ Direct(fewer) \in SUBSET Direct(keys)
  BY FS_Subset DEF KeysBounded, Direct
<1>3. Cardinality(Direct(fewer)) <= Cardinality(Direct(keys))
      /\ Cardinality(Direct(fewer)) \in Nat /\ Cardinality(Direct(keys)) \in Nat
  BY <1>2, FS_Subset, FS_CardinalityType
<1> QED
  BY <1>1, <1>3, RateLimiterAssumption DEF KeysBounded, Shared

\* One check adds one key at most: that of a peer while the table has room, or
\* the overflow key of a scope that is limited.
LEMMA BucketAdded ==
    ASSUME NEW keys, KeysBounded(keys), NEW c \in Scope, NEW p \in Peer,
           Limit[c] >= 1
    PROVE  KeysBounded(keys \cup {BucketOf(c, p, keys)})
<1> DEFINE bucket == BucketOf(c, p, keys)
           more == keys \cup {bucket}
<1>1. bucket \in Key /\ bucket \in {<<c, p>>, <<c, Overflow>>}
  BY DEF BucketOf, Key
<1>2. more \subseteq Key /\ IsFiniteSet(more)
  BY <1>1, FS_AddElement DEF KeysBounded
<1>3. \A key \in Shared(more) : key[1] \in LimitedScopes
  BY <1>1 DEF Shared, KeysBounded, LimitedScopes
<1>4. Cardinality(Direct(more)) <= MaxKeys
  <2>1. CASE <<c, p>> \in keys \/ TableFull(keys)
    <3>1. bucket \in keys \/ bucket[2] = Overflow
      BY <2>1 DEF BucketOf
    <3>2. Direct(more) = Direct(keys)
      BY <3>1 DEF Direct
    <3> QED
      BY <3>2 DEF KeysBounded
  <2>2. CASE ~TableFull(keys)
    <3>1. Direct(more) \in SUBSET more /\ IsFiniteSet(keys)
      BY DEF Direct, KeysBounded
    <3>2. Cardinality(keys) \in Nat /\ Cardinality(more) \in Nat
          /\ Cardinality(more) <= Cardinality(keys) + 1
      BY <1>2, <3>1, FS_AddElement, FS_CardinalityType
    <3>3. Cardinality(keys) < MaxKeys
      BY <2>2, <3>2, RateLimiterAssumption DEF TableFull
    <3>4. Cardinality(Direct(more)) <= Cardinality(more)
          /\ Cardinality(Direct(more)) \in Nat
      BY <1>2, <3>1, FS_Subset, FS_CardinalityType
    <3> QED
      BY <3>2, <3>3, <3>4, RateLimiterAssumption
  <2> QED
    BY <2>1, <2>2
<1> QED
  BY <1>2, <1>3, <1>4 DEF KeysBounded

-----------------------------------------------------------------------------

LEMMA LimiterInitBounded == LimiterInit => LimiterIInv
<1> SUFFICES ASSUME LimiterInit PROVE KeysBounded({})
  BY DEF LimiterInit, LimiterIInv
<1>1. Direct({}) = {} /\ Shared({}) = {}
  BY DEF Direct, Shared
<1> QED
  BY <1>1, FS_EmptySet, RateLimiterAssumption DEF KeysBounded

LEMMA LimiterStep ==
    ASSUME LimiterIInv, [LimiterNext]_limiterVars
    PROVE  LimiterIInv'
<1>1. ASSUME NEW c \in Scope, NEW p \in Peer, Check(c, p) PROVE LimiterIInv'
  <2> DEFINE keys == DOMAIN Swept
             bucket == BucketOf(c, p, keys)
  <2>1. keys \subseteq DOMAIN table
    BY DEF Swept
  <2>2. KeysBounded(keys)
    BY <2>1, FewerKeys DEF LimiterIInv
  <2>3. Limit[c] >= 1
    BY <1>1 DEF Check
  <2>4. DOMAIN table' = keys \cup {bucket}
    BY <1>1 DEF Check
  <2> HIDE DEF keys
  <2> QED
    BY <2>2, <2>3, <2>4, BucketAdded DEF LimiterIInv
<1>2. CASE LimiterTick
  BY <1>2 DEF LimiterTick, LimiterIInv
<1>3. ASSUME NEW c \in Scope, CheckDisabled(c) PROVE LimiterIInv'
  BY <1>3 DEF CheckDisabled, limiterVars, LimiterIInv
<1>4. CASE UNCHANGED limiterVars
  BY <1>4 DEF limiterVars, LimiterIInv
<1> QED
  BY <1>1, <1>2, <1>3, <1>4 DEF LimiterNext

\* However many peers come, leave and come back, the table of
\* InMemoryRateLimiter holds max_keys keys and one overflow key per limited
\* scope at most.
THEOREM TableIsBounded == LimiterSpec => []TableBounded
<1>1. LimiterIInv => TableBounded
  BY TotalBound DEF LimiterIInv, TableBounded, LimitedScopes
<1> QED
  BY <1>1, LimiterInitBounded, LimiterStep, PTL DEF LimiterSpec

-----------------------------------------------------------------------------
(* What popping from the left does.                                        *)

Lives == Seq(0..Window)

\* Gone counts the admissions in front of the first live one.
LEMMA GoneMeaning ==
    ASSUME NEW events \in Lives
    PROVE  /\ Gone(events) \in 0..Len(events)
           /\ \A n \in 1..Gone(events) : events[n] = 0
           /\ Gone(events) < Len(events) => events[Gone(events) + 1] > 0
<1> DEFINE L == Len(events)
           Dead == {n \in DOMAIN events : \A m \in 1..n : events[m] = 0}
           g == Gone(events)
<1>1. L \in Nat /\ DOMAIN events = 1..L
      /\ \A n \in 1..L : events[n] \in 0..Window
  BY LenProperties, ElementOfSeq DEF Lives
<1>2. IsFiniteSet(Dead) /\ g = Cardinality(Dead) /\ g \in 0..L
  <2>1. IsFiniteSet(1..L) /\ Cardinality(1..L) = L
    BY <1>1, FS_Interval
  <2>2. Dead \in SUBSET (1..L)
    BY <1>1
  <2>3. IsFiniteSet(Dead) /\ Cardinality(Dead) <= L
    BY <2>1, <2>2, FS_Subset
  <2>4. Cardinality(Dead) \in Nat
    BY <2>3, FS_CardinalityType
  <2> QED
    BY <1>1, <2>3, <2>4 DEF Gone
<1>3. ASSUME NEW n \in 1..L PROVE n \in Dead <=> n <= g
  <2>1. CASE n \in Dead
    <3>1. 1..n \in SUBSET Dead
      BY <1>1, <2>1
    <3>2. Cardinality(1..n) = n
      BY <1>1, FS_Interval
    <3>3. n <= g
      BY <1>2, <3>1, <3>2, FS_Subset
    <3> QED
      BY <2>1, <3>3
  <2>2. CASE n \notin Dead
    <3>1. Dead \in SUBSET (1..(n - 1))
      <4>1. ASSUME NEW k \in Dead, k >= n PROVE FALSE
        <5>1. k \in 1..L /\ \A m \in 1..k : events[m] = 0
          BY <1>1
        <5>2. \A m \in 1..n : events[m] = 0
          BY <1>1, <4>1, <5>1
        <5> QED
          BY <1>1, <2>2, <5>2
      <4> QED
        BY <1>1, <4>1
    <3>2. IsFiniteSet(1..(n - 1)) /\ Cardinality(1..(n - 1)) = n - 1
      <4>1. 1 \in Int /\ n - 1 \in Int /\ n - 1 >= 0
        BY <1>1
      <4>2. Cardinality(1..(n - 1)) = IF 1 > n - 1 THEN 0 ELSE (n - 1) - 1 + 1
        BY <4>1, FS_Interval
      <4> QED
        BY <4>1, <4>2, FS_Interval
    <3>3. g <= n - 1
      BY <1>2, <3>1, <3>2, FS_Subset
    <3> QED
      BY <1>1, <1>2, <2>2, <3>3
  <2> QED
    BY <2>1, <2>2
<1>4. ASSUME NEW n \in 1..g PROVE events[n] = 0
  <2>1. n \in 1..L /\ n <= g
    BY <1>1, <1>2
  <2>2. n \in Dead
    BY <1>3, <2>1
  <2> QED
    BY <2>1, <2>2
<1>5. ASSUME g < L PROVE events[g + 1] > 0
  <2>1. g + 1 \in 1..L /\ g + 1 \notin Dead
    BY <1>1, <1>2, <1>3, <1>5
  <2>2. PICK m \in 1..(g + 1) : events[m] # 0
    BY <1>1, <2>1
  <2>3. m = g + 1
    BY <1>2, <1>4, <2>2
  <2> QED
    BY <1>1, <2>1, <2>2, <2>3
<1> HIDE DEF g
<1> QED
  BY <1>2, <1>4, <1>5 DEF g

\* The end of a sequence from its m-th element on.
LEMMA Suffix ==
    ASSUME NEW S, NEW seq \in Seq(S), NEW m \in 1..(Len(seq) + 1),
           Len(seq) \in m - 1..Len(seq)
    PROVE  /\ SubSeq(seq, m, Len(seq)) \in Seq(S)
           /\ Len(SubSeq(seq, m, Len(seq))) = Len(seq) - m + 1
           /\ \A n \in 1..(Len(seq) - m + 1) :
                 SubSeq(seq, m, Len(seq))[n] = seq[m + n - 1]
<1>1. SubSeq(seq, m, Len(seq)) \in Seq(S)
  BY SubSeqProperties
<1>2. Len(SubSeq(seq, m, Len(seq))) = Len(seq) - m + 1
  OBVIOUS
<1>3. \A n \in 1..(Len(seq) - m + 1) :
         SubSeq(seq, m, Len(seq))[n] = seq[m + n - 1]
  OBVIOUS
<1> QED
  BY <1>1, <1>2, <1>3

\* What is left after popping: the admissions behind the leading dead ones.
LEMMA LiveMeaning ==
    ASSUME NEW events \in Lives
    PROVE  /\ Live(events) \in Lives
           /\ Len(Live(events)) = Len(events) - Gone(events)
           /\ Gone(events) \in Nat
           /\ \A n \in 1..Len(Live(events)) :
                 /\ n + Gone(events) \in 1..Len(events)
                 /\ Live(events)[n] = events[n + Gone(events)]
           /\ \A n \in 1..Len(events) : events[n] > 0 =>
                 /\ n - Gone(events) \in 1..Len(Live(events))
                 /\ Live(events)[n - Gone(events)] = events[n]
<1> DEFINE g == Gone(events)
<1>1. /\ g \in 0..Len(events) /\ \A n \in 1..g : events[n] = 0
      /\ Len(events) \in Nat
  BY GoneMeaning DEF Lives
<1> HIDE DEF g
<1>2. Live(events) = SubSeq(events, g + 1, Len(events))
  BY DEF Live, g
<1>3. /\ Live(events) \in Lives /\ Len(Live(events)) = Len(events) - g
      /\ \A n \in 1..(Len(events) - g) : Live(events)[n] = events[n + g]
  <2> DEFINE m == g + 1
  <2>1. /\ events \in Seq(0..Window) /\ m \in 1..(Len(events) + 1)
        /\ Len(events) \in m - 1..Len(events) /\ g = m - 1
    BY <1>1 DEF Lives
  <2> HIDE DEF m
  <2>2. /\ SubSeq(events, m, Len(events)) \in Seq(0..Window)
        /\ Len(SubSeq(events, m, Len(events))) = Len(events) - m + 1
        /\ \A n \in 1..(Len(events) - m + 1) :
              SubSeq(events, m, Len(events))[n] = events[m + n - 1]
    BY <2>1, Suffix
  <2>5. Live(events) = SubSeq(events, m, Len(events))
    BY <1>2 DEF m
  <2> QED
    BY <1>1, <2>1, <2>2, <2>5 DEF Lives
<1>4. ASSUME NEW n \in 1..Len(events), events[n] > 0
      PROVE  /\ n - g \in 1..Len(Live(events))
             /\ Live(events)[n - g] = events[n]
  <2>1. n > g
    BY <1>1, <1>4
  <2>2. n - g \in 1..(Len(events) - g) /\ (n - g) + g = n
    BY <1>1, <2>1
  <2> QED
    BY <1>3, <2>2
<1> QED
  BY <1>1, <1>3, <1>4 DEF g

-----------------------------------------------------------------------------
(* Where the admissions of a peer are.                                     *)

\* A table of buckets in general.
IsTable(tab) == \A key \in DOMAIN tab : tab[key] \in Lives

\* Every live admission of tab is in the same bucket of tab2, d places further
\* to the left.
Moves(tab, tab2) ==
    \A key \in DOMAIN tab : \E d \in Nat : \A n \in 1..Len(tab[key]) :
        tab[key][n] > 0 =>
            /\ key \in DOMAIN tab2 /\ n - d \in 1..Len(tab2[key])
            /\ tab2[key][n - d] = tab[key][n]

\* A list of live admissions stays accounted for when buckets are popped and
\* buckets without a live admission are dropped.
LEMMA AccountedMoves ==
    ASSUME NEW tab, NEW tab2, IsTable(tab), IsTable(tab2), Moves(tab, tab2),
           NEW buckets, NEW list, \A n \in DOMAIN list : list[n] > 0,
           Accounted(buckets, tab, list)
    PROVE  Accounted(buckets, tab2, list)
<1>1. PICK where \in [DOMAIN list -> buckets \X (Nat \ {0})] :
         IsPlacement(where, tab, list)
  BY DEF Accounted
<1> DEFINE Right(key, d) == \A n \in 1..Len(tab[key]) :
        tab[key][n] > 0 =>
            /\ key \in DOMAIN tab2 /\ n - d \in 1..Len(tab2[key])
            /\ tab2[key][n - d] = tab[key][n]
           shift == [key \in DOMAIN tab |-> CHOOSE d \in Nat : Right(key, d)]
           there == [n \in DOMAIN list |->
                       <<where[n][1], where[n][2] - shift[where[n][1]]>>]
<1>2. \A key \in DOMAIN tab : shift[key] \in Nat /\ Right(key, shift[key])
  BY DEF Moves
<1>3. \A key \in DOMAIN tab : DOMAIN tab[key] = 1..Len(tab[key])
  BY LenProperties DEF IsTable, Lives
<1>4. \A key \in DOMAIN tab2 :
         DOMAIN tab2[key] = 1..Len(tab2[key]) /\ Len(tab2[key]) \in Nat
  BY LenProperties DEF IsTable, Lives
<1> HIDE DEF shift
<1>5. ASSUME NEW n \in DOMAIN list
      PROVE  /\ there[n] = <<where[n][1], where[n][2] - shift[where[n][1]]>>
             /\ there[n] \in buckets \X (Nat \ {0})
             /\ there[n][1] \in DOMAIN tab2
             /\ there[n][2] \in DOMAIN tab2[there[n][1]]
             /\ tab2[there[n][1]][there[n][2]] = list[n]
  <2> DEFINE key == where[n][1]
             k == where[n][2]
  <2>1. /\ key \in DOMAIN tab /\ k \in DOMAIN tab[key] /\ tab[key][k] = list[n]
        /\ key \in buckets /\ k \in Nat \ {0}
    BY <1>1 DEF IsPlacement
  <2>2. k \in 1..Len(tab[key]) /\ tab[key][k] > 0
    BY <1>3, <2>1
  <2>3. /\ key \in DOMAIN tab2 /\ k - shift[key] \in 1..Len(tab2[key])
        /\ tab2[key][k - shift[key]] = tab[key][k]
    BY <1>2, <2>1, <2>2
  <2>4. there[n] = <<key, k - shift[key]>>
    OBVIOUS
  <2> HIDE DEF key, k, there
  <2>5. k - shift[key] \in Nat \ {0}
    BY <1>2, <1>4, <2>1, <2>3
  <2> QED
    BY <1>4, <2>1, <2>3, <2>4, <2>5 DEF key, k
<1>6. ASSUME NEW m \in DOMAIN list, NEW n \in DOMAIN list, there[m] = there[n]
      PROVE  m = n
  <2>1. /\ where[m][1] = where[n][1]
        /\ where[m][2] - shift[where[m][1]] = where[n][2] - shift[where[n][1]]
    BY <1>5, <1>6
  <2>2. /\ where[m] \in buckets \X (Nat \ {0})
        /\ where[n] \in buckets \X (Nat \ {0})
        /\ where[m][1] \in DOMAIN tab
    BY <1>1 DEF IsPlacement
  <2>3. shift[where[m][1]] \in Nat /\ where[m][2] \in Nat /\ where[n][2] \in Nat
    BY <1>2, <2>2
  <2>4. where[m][2] = where[n][2]
    BY <2>1, <2>3
  <2>5. where[m] = where[n]
    BY <2>1, <2>2, <2>4
  <2> QED
    BY <1>1, <2>5 DEF IsPlacement
<1>7. there \in [DOMAIN list -> buckets \X (Nat \ {0})]
  BY <1>5
<1> HIDE DEF there
<1> QED
  BY <1>5, <1>6, <1>7 DEF Accounted, IsPlacement

\* An admission that is appended to a bucket and to the list of its peer.
LEMMA AccountedAppend ==
    ASSUME NEW tab, IsTable(tab), NEW buckets, NEW bucket \in buckets,
           bucket \in DOMAIN tab, NEW x \in 1..Window, NEW list \in Lives,
           Accounted(buckets, tab, list)
    PROVE  Accounted(buckets, [key \in DOMAIN tab |->
                                 IF key = bucket THEN Append(tab[key], x) ELSE tab[key]],
                     Append(list, x))
<1> DEFINE tab2 == [key \in DOMAIN tab |->
                      IF key = bucket THEN Append(tab[key], x) ELSE tab[key]]
           L == Len(list)
           list2 == Append(list, x)
           E == Len(tab[bucket])
<1>1. PICK where \in [DOMAIN list -> buckets \X (Nat \ {0})] :
         IsPlacement(where, tab, list)
  BY DEF Accounted
<1>2. L \in Nat /\ DOMAIN list = 1..L /\ DOMAIN list2 = 1..(L + 1)
      /\ list2[L + 1] = x /\ \A n \in 1..L : list2[n] = list[n]
  BY DEF Lives
<1>3. /\ E \in Nat /\ DOMAIN tab[bucket] = 1..E
      /\ DOMAIN tab2[bucket] = 1..(E + 1) /\ tab2[bucket][E + 1] = x
      /\ \A n \in 1..E : tab2[bucket][n] = tab[bucket][n]
  <2>1. tab[bucket] \in Seq(0..Window) /\ tab2[bucket] = Append(tab[bucket], x)
    BY DEF IsTable, Lives
  <2> HIDE DEF tab2
  <2> QED
    BY <2>1
<1>4. DOMAIN tab2 = DOMAIN tab
      /\ \A key \in DOMAIN tab : key # bucket => tab2[key] = tab[key]
  OBVIOUS
<1> DEFINE there == [n \in 1..(L + 1) |-> IF n <= L THEN where[n] ELSE <<bucket, E + 1>>]
<1>5. /\ there \in [1..(L + 1) -> buckets \X (Nat \ {0})]
      /\ there[L + 1] = <<bucket, E + 1>>
      /\ \A n \in 1..L : there[n] = where[n]
  BY <1>1, <1>2, <1>3
<1> HIDE DEF there, tab2, list2, E, L
<1>6. ASSUME NEW n \in 1..(L + 1)
      PROVE  /\ there[n][1] \in DOMAIN tab2
             /\ there[n][2] \in DOMAIN tab2[there[n][1]]
             /\ tab2[there[n][1]][there[n][2]] = list2[n]
  <2>1. CASE n = L + 1
    BY <1>2, <1>3, <1>4, <1>5, <2>1
  <2>2. CASE n # L + 1
    <3>1. n \in 1..L
      BY <1>2, <2>2
    <3>2. /\ where[n][1] \in DOMAIN tab /\ where[n][2] \in DOMAIN tab[where[n][1]]
          /\ tab[where[n][1]][where[n][2]] = list[n]
      BY <1>1, <1>2, <3>1 DEF IsPlacement
    <3>3. CASE where[n][1] = bucket
      <4>1. where[n][2] \in 1..E
        BY <1>3, <3>2, <3>3
      <4> QED
        BY <1>2, <1>3, <1>4, <1>5, <3>1, <3>2, <3>3, <4>1
    <3>4. CASE where[n][1] # bucket
      BY <1>2, <1>4, <1>5, <3>1, <3>2, <3>4
    <3> QED
      BY <3>3, <3>4
  <2> QED
    BY <2>1, <2>2
<1>7. ASSUME NEW n \in 1..L PROVE where[n] # <<bucket, E + 1>>
  <2>1. where[n][1] = bucket => where[n][2] \in 1..E
    BY <1>1, <1>2, <1>3 DEF IsPlacement
  <2> QED
    BY <1>3, <2>1
<1>8. ASSUME NEW m \in 1..(L + 1), NEW n \in 1..(L + 1), there[m] = there[n]
      PROVE  m = n
  <2>1. CASE m \in 1..L /\ n \in 1..L
    BY <1>1, <1>2, <1>5, <1>8, <2>1 DEF IsPlacement
  <2>2. CASE m = L + 1 /\ n \in 1..L
    BY <1>5, <1>7, <1>8, <2>2
  <2>3. CASE n = L + 1 /\ m \in 1..L
    BY <1>5, <1>7, <1>8, <2>3
  <2>4. CASE m = L + 1 /\ n = L + 1
    BY <2>4
  <2> QED
    BY <1>2, <2>1, <2>2, <2>3, <2>4
<1>9. Accounted(buckets, tab2, list2)
  <2>1. DOMAIN list2 = 1..(L + 1)
    BY <1>2
  <2>2. IsPlacement(there, tab2, list2)
    BY <1>6, <1>8, <2>1 DEF IsPlacement
  <2>3. there \in [DOMAIN list2 -> buckets \X (Nat \ {0})]
    BY <1>5, <2>1
  <2> QED
    BY <2>2, <2>3 DEF Accounted
<1> QED
  BY <1>9 DEF tab2, list2

\* Two buckets within the limit hold twice the limit at most.
LEMMA AccountedBound ==
    ASSUME NEW tab, IsTable(tab), NEW b1, NEW b2, NEW limit \in Nat,
           \A key \in DOMAIN tab \cap {b1, b2} : Len(tab[key]) <= limit,
           NEW list \in Lives, Accounted({b1, b2}, tab, list)
    PROVE  Len(list) <= 2 * limit
<1> DEFINE L == Len(list)
           Places == {b1, b2} \X (1..limit)
<1>1. L \in Nat /\ DOMAIN list = 1..L
  BY LenProperties DEF Lives
<1>2. PICK where \in [1..L -> {b1, b2} \X (Nat \ {0})] :
         IsPlacement(where, tab, list)
  BY <1>1 DEF Accounted
<1>3. ASSUME NEW n \in 1..L PROVE where[n] \in Places
  <2>1. /\ where[n][1] \in DOMAIN tab \cap {b1, b2}
        /\ where[n][2] \in DOMAIN tab[where[n][1]]
    BY <1>1, <1>2 DEF IsPlacement
  <2>2. /\ DOMAIN tab[where[n][1]] = 1..Len(tab[where[n][1]])
        /\ Len(tab[where[n][1]]) \in Nat
    BY <2>1, LenProperties DEF IsTable, Lives
  <2>3. where[n][2] \in 1..limit
    BY <2>1, <2>2
  <2>4. where[n] \in {b1, b2} \X (Nat \ {0})
    BY <1>2
  <2> QED
    BY <2>3, <2>4
<1>4. where \in Injection(1..L, Places)
  <2>1. where \in [1..L -> Places]
    BY <1>2, <1>3
  <2>2. \A m, n \in 1..L : where[m] = where[n] => m = n
    BY <1>1, <1>2 DEF IsPlacement
  <2> QED
    BY <2>1, <2>2 DEF Injection, IsInjective
<1>5. IsFiniteSet(Places) /\ Cardinality(Places) <= 2 * limit
      /\ Cardinality(Places) \in Nat
  <2>1. IsFiniteSet(1..limit) /\ Cardinality(1..limit) = limit
    <3>1. 1 \in Int /\ limit \in Int
      OBVIOUS
    <3>2. /\ IsFiniteSet(1..limit)
          /\ Cardinality(1..limit) = IF 1 > limit THEN 0 ELSE limit - 1 + 1
      BY <3>1, FS_Interval
    <3> QED
      BY <3>2
  <2>2. IsFiniteSet({b1, b2}) /\ Cardinality({b1, b2}) \in {1, 2}
    <3>1. {b1, b2} = {b1} \cup {b2}
      OBVIOUS
    <3>2. IsFiniteSet({b1}) /\ Cardinality({b1}) = 1
      BY FS_Singleton
    <3> QED
      BY <3>1, <3>2, FS_AddElement
  <2>3. /\ IsFiniteSet(Places)
        /\ Cardinality(Places) = Cardinality({b1, b2}) * limit
    BY <2>1, <2>2, FS_Product
  <2> HIDE DEF Places
  <2> QED
    BY <2>2, <2>3
<1>6. Cardinality(1..L) = L
  <2>1. 1 \in Int /\ L \in Int
    BY <1>1
  <2>2. Cardinality(1..L) = IF 1 > L THEN 0 ELSE L - 1 + 1
    BY <2>1, FS_Interval
  <2> QED
    BY <1>1, <2>2
<1> HIDE DEF Places, L
<1>7. Cardinality(1..L) <= Cardinality(Places)
  BY <1>4, <1>5, FS_Injection
<1> QED
  BY <1>1, <1>5, <1>6, <1>7 DEF L

\* A tick: every admission has one tick less, and a list pops those with none.
TickedOff(events) == [n \in DOMAIN events |-> Left(events[n])]

LEMMA AgedMeaning ==
    ASSUME NEW events \in Lives
    PROVE  /\ TickedOff(events) \in Lives /\ Len(TickedOff(events)) = Len(events)
           /\ DOMAIN TickedOff(events) = 1..Len(events)
           /\ \A n \in 1..Len(events) : TickedOff(events)[n] = Left(events[n])
<1>1. /\ Len(events) \in Nat /\ DOMAIN events = 1..Len(events)
      /\ \A n \in 1..Len(events) : events[n] \in 0..Window
  BY LenProperties, ElementOfSeq DEF Lives
<1>2. \A n \in 1..Len(events) : Left(events[n]) \in 0..Window
  BY <1>1, RateLimiterAssumption DEF Left
<1>3. TickedOff(events) \in [1..Len(events) -> 0..Window]
  BY <1>1, <1>2 DEF TickedOff
<1>4. TickedOff(events) \in Lives /\ Len(TickedOff(events)) = Len(events)
  <2>1. \A S, n, seq : n \in Nat /\ seq \in [1..n -> S] =>
           seq \in Seq(S) /\ Len(seq) = n
    OBVIOUS
  <2> QED
    BY <1>1, <1>3, <2>1 DEF Lives
<1> QED
  BY <1>1, <1>4 DEF TickedOff

LEMMA AccountedTick ==
    ASSUME NEW tab, IsTable(tab), NEW buckets, NEW list \in Lives,
           Accounted(buckets, tab, list)
    PROVE  Accounted(buckets, [key \in DOMAIN tab |-> TickedOff(tab[key])],
                     Live(TickedOff(list)))
<1> DEFINE tab2 == [key \in DOMAIN tab |-> TickedOff(tab[key])]
           list2 == Live(TickedOff(list))
           g == Gone(TickedOff(list))
<1>1. PICK where \in [DOMAIN list -> buckets \X (Nat \ {0})] :
         IsPlacement(where, tab, list)
  BY DEF Accounted
<1>2. /\ TickedOff(list) \in Lives /\ Len(TickedOff(list)) = Len(list)
      /\ \A n \in 1..Len(list) : TickedOff(list)[n] = Left(list[n])
  BY AgedMeaning
<1>3. DOMAIN list = 1..Len(list) /\ Len(list) \in Nat
  BY LenProperties DEF Lives
<1>4. /\ list2 \in Lives /\ g \in Nat
      /\ \A n \in 1..Len(list2) :
            n + g \in 1..Len(list) /\ list2[n] = TickedOff(list)[n + g]
  BY <1>2, LiveMeaning
<1>5. DOMAIN list2 = 1..Len(list2) /\ Len(list2) \in Nat
  BY <1>4, LenProperties DEF Lives
<1> HIDE DEF list2, g
<1> DEFINE there == [n \in 1..Len(list2) |-> where[n + g]]
<1>6. /\ there \in [1..Len(list2) -> buckets \X (Nat \ {0})]
      /\ \A n \in 1..Len(list2) : there[n] = where[n + g]
  BY <1>1, <1>3, <1>4
<1> HIDE DEF there
<1>7. ASSUME NEW n \in 1..Len(list2)
      PROVE  /\ there[n][1] \in DOMAIN tab2
             /\ there[n][2] \in DOMAIN tab2[there[n][1]]
             /\ tab2[there[n][1]][there[n][2]] = list2[n]
  <2> DEFINE key == where[n + g][1]
             k == where[n + g][2]
  <2>1. n + g \in 1..Len(list) /\ there[n] = where[n + g]
    BY <1>4, <1>6
  <2>2. key \in DOMAIN tab /\ k \in DOMAIN tab[key] /\ tab[key][k] = list[n + g]
    BY <1>1, <1>3, <2>1 DEF IsPlacement
  <2>3. /\ k \in 1..Len(tab[key]) /\ tab[key] \in Lives
    BY <2>2, LenProperties DEF IsTable, Lives
  <2>4. key \in DOMAIN tab2 /\ tab2[key] = TickedOff(tab[key])
    BY <2>2
  <2>5. k \in DOMAIN tab2[key] /\ tab2[key][k] = Left(list[n + g])
    BY <2>2, <2>3, <2>4, AgedMeaning
  <2>6. list2[n] = Left(list[n + g])
    BY <1>2, <1>4, <2>1
  <2> HIDE DEF tab2
  <2> QED
    BY <2>1, <2>4, <2>5, <2>6
<1>8. ASSUME NEW m \in 1..Len(list2), NEW n \in 1..Len(list2), there[m] = there[n]
      PROVE  m = n
  <2>1. /\ m + g \in 1..Len(list) /\ n + g \in 1..Len(list)
        /\ where[m + g] = where[n + g]
    BY <1>4, <1>6, <1>8
  <2>2. m + g = n + g
    BY <1>1, <1>3, <2>1 DEF IsPlacement
  <2> QED
    BY <1>4, <2>2
<1>9. IsPlacement(there, tab2, list2)
  <2> HIDE DEF tab2
  <2> QED
    BY <1>5, <1>7, <1>8 DEF IsPlacement
<1>10. Accounted(buckets, tab2, list2)
  <2> HIDE DEF tab2
  <2> QED
    BY <1>5, <1>6, <1>9 DEF Accounted
<1> QED
  BY <1>10 DEF list2

\* The order of a list of live admissions: the oldest is the first to go.
Ordered(list) ==
    /\ \A n \in DOMAIN list : list[n] > 0
    /\ \A m, n \in DOMAIN list : m <= n => list[m] <= list[n]

LEMMA OrderedTick ==
    ASSUME NEW list \in Lives, Ordered(list)
    PROVE  Ordered(Live(TickedOff(list))) /\ Live(TickedOff(list)) \in Lives
<1> DEFINE old == TickedOff(list)
           new == Live(old)
           g == Gone(old)
<1>1. /\ old \in Lives /\ Len(old) = Len(list) /\ Len(list) \in Nat
      /\ DOMAIN list = 1..Len(list)
      /\ \A n \in 1..Len(list) : old[n] = Left(list[n]) /\ list[n] \in 0..Window
  BY AgedMeaning, LenProperties, ElementOfSeq DEF Lives
<1>2. \A m, n \in 1..Len(list) : m <= n => old[m] <= old[n]
  <2>1. \A x, y \in 0..Window : x <= y => Left(x) <= Left(y)
    BY RateLimiterAssumption DEF Left
  <2> QED
    BY <1>1, <2>1 DEF Ordered
<1> HIDE DEF old
<1>3. /\ new \in Lives /\ g \in Nat /\ Len(new) = Len(list) - g
      /\ \A n \in 1..Len(new) : n + g \in 1..Len(list) /\ new[n] = old[n + g]
      /\ \A n \in 1..Len(list) : old[n] \in 0..Window
  BY <1>1, LiveMeaning, ElementOfSeq DEF Lives
<1>4. g < Len(list) => old[g + 1] > 0
  BY <1>1, GoneMeaning
<1>5. DOMAIN new = 1..Len(new)
  BY <1>3, LenProperties DEF Lives
<1> HIDE DEF new, g
<1>6. ASSUME NEW n \in 1..Len(new) PROVE new[n] > 0
  <2>1. /\ n + g \in 1..Len(list) /\ g + 1 \in 1..Len(list) /\ g + 1 <= n + g
        /\ g < Len(list)
    BY <1>1, <1>3
  <2>2. old[g + 1] <= old[n + g] /\ old[g + 1] > 0
    BY <1>2, <1>4, <2>1
  <2> QED
    BY <1>3, <2>1, <2>2
<1>7. ASSUME NEW m \in 1..Len(new), NEW n \in 1..Len(new), m <= n
      PROVE  new[m] <= new[n]
  <2>1. m + g <= n + g /\ m + g \in 1..Len(list) /\ n + g \in 1..Len(list)
    BY <1>3, <1>7
  <2> QED
    BY <1>2, <1>3, <2>1
<1>8. Ordered(new)
  BY <1>5, <1>6, <1>7 DEF Ordered
<1> QED
  BY <1>3, <1>8 DEF new, old

LEMMA OrderedAppend ==
    ASSUME NEW list \in Lives, Ordered(list)
    PROVE  Ordered(Append(list, Window)) /\ Append(list, Window) \in Lives
<1> DEFINE L == Len(list)
           list2 == Append(list, Window)
<1>1. /\ L \in Nat /\ DOMAIN list = 1..L /\ DOMAIN list2 = 1..(L + 1)
      /\ list2[L + 1] = Window /\ \A n \in 1..L : list2[n] = list[n]
  BY DEF Lives
<1>2. \A n \in 1..L : list[n] \in 0..Window
  BY ElementOfSeq DEF Lives
<1>3. list2 \in Lives
  BY RateLimiterAssumption DEF Lives
<1> HIDE DEF list2, L
<1>4. ASSUME NEW n \in 1..(L + 1)
      PROVE  list2[n] > 0 /\ list2[n] <= Window
  <2>1. CASE n \in 1..L
    BY <1>1, <1>2, <2>1, RateLimiterAssumption DEF Ordered
  <2>2. CASE n = L + 1
    BY <1>1, <2>2, RateLimiterAssumption
  <2> QED
    BY <1>1, <2>1, <2>2
<1>5. ASSUME NEW m \in 1..(L + 1), NEW n \in 1..(L + 1), m <= n
      PROVE  list2[m] <= list2[n]
  <2>1. CASE n \in 1..L
    <3>1. m \in 1..L
      BY <1>1, <1>5, <2>1
    <3> QED
      BY <1>1, <1>5, <2>1, <3>1 DEF Ordered
  <2>2. CASE n = L + 1
    BY <1>1, <1>4, <2>2
  <2> QED
    BY <1>1, <2>1, <2>2
<1>6. Ordered(list2)
  BY <1>1, <1>4, <1>5 DEF Ordered
<1> QED
  BY <1>3, <1>6 DEF list2

-----------------------------------------------------------------------------
(* The steps of the limiter.                                               *)

\* No bucket is over the limit of its scope.
WithinLimits(tab) == \A key \in DOMAIN tab : Len(tab[key]) <= Limit[key[1]]

LEMMA KeyLimit == ASSUME NEW key \in Key PROVE Limit[key[1]] \in Nat
  BY RateLimiterAssumption DEF Key

\* The sweep pops and drops, and loses no live admission.
LEMMA SweptTable ==
    ASSUME LimiterTypeOK, WithinLimits(table)
    PROVE  /\ IsTable(table) /\ IsTable(Swept) /\ Moves(table, Swept)
           /\ WithinLimits(Swept) /\ DOMAIN Swept \subseteq Key
<1>1. IsTable(table) /\ DOMAIN table \subseteq Key
  BY DEF LimiterTypeOK, IsTable, Lives
<1>2. \A key \in DOMAIN table : Len(table[key]) \in Nat /\ Limit[key[1]] \in Nat
  BY <1>1, LenProperties, KeyLimit DEF IsTable, Lives
<1>3. CASE Swept = table
  <2>1. Moves(table, table)
    <3>1. ASSUME NEW key \in DOMAIN table
          PROVE  \A n \in 1..Len(table[key]) :
                    n - 0 \in 1..Len(table[key]) /\ table[key][n - 0] = table[key][n]
      BY <1>2
    <3> QED
      BY <3>1 DEF Moves
  <2> QED
    BY <1>1, <1>3, <2>1
<1>4. CASE Swept = [key \in {k \in DOMAIN table : Live(table[k]) # <<>>} |->
                      Live(table[key])]
  <2> DEFINE alive == {k \in DOMAIN table : Live(table[k]) # <<>>}
  <2>1. /\ DOMAIN Swept = alive
        /\ \A key \in alive : Swept[key] = Live(table[key])
    BY <1>4
  <2>2. \A key \in DOMAIN table :
           /\ Live(table[key]) \in Lives /\ Gone(table[key]) \in Nat
           /\ Len(Live(table[key])) = Len(table[key]) - Gone(table[key])
           /\ \A n \in 1..Len(table[key]) : table[key][n] > 0 =>
                 /\ n - Gone(table[key]) \in 1..Len(Live(table[key]))
                 /\ Live(table[key])[n - Gone(table[key])] = table[key][n]
    BY <1>1, LiveMeaning DEF IsTable
  <2>3. IsTable(Swept) /\ DOMAIN Swept \subseteq Key
    BY <1>1, <2>1, <2>2 DEF IsTable
  <2>4. WithinLimits(Swept)
    BY <1>2, <2>1, <2>2 DEF WithinLimits
  <2>5. Moves(table, Swept)
    <3>1. ASSUME NEW key \in DOMAIN table, NEW n \in 1..Len(table[key]),
                 table[key][n] > 0
          PROVE  /\ key \in DOMAIN Swept
                 /\ n - Gone(table[key]) \in 1..Len(Swept[key])
                 /\ Swept[key][n - Gone(table[key])] = table[key][n]
      <4>1. Len(Live(table[key])) # 0
        BY <2>2, <3>1
      <4>2. Live(table[key]) # <<>>
        BY <4>1, EmptySeq
      <4> QED
        BY <2>1, <2>2, <3>1, <4>2
    <3> QED
      BY <2>2, <3>1 DEF Moves
  <2> QED
    BY <1>1, <2>3, <2>4, <2>5
<1> QED
  BY <1>3, <1>4 DEF Swept

\* The bucket of a check, popped or set to an empty one.
Popped(tab, bucket) ==
    [key \in DOMAIN tab \cup {bucket} |->
        IF key = bucket
          THEN (IF bucket \in DOMAIN tab THEN Live(tab[bucket]) ELSE <<>>)
          ELSE tab[key]]

LEMMA PoppedTable ==
    ASSUME NEW tab, IsTable(tab), WithinLimits(tab), DOMAIN tab \subseteq Key,
           NEW bucket \in Key
    PROVE  /\ IsTable(Popped(tab, bucket)) /\ Moves(tab, Popped(tab, bucket))
           /\ WithinLimits(Popped(tab, bucket))
           /\ DOMAIN Popped(tab, bucket) = DOMAIN tab \cup {bucket}
<1> DEFINE popped == Popped(tab, bucket)
<1>1. \A key \in DOMAIN tab :
         /\ tab[key] \in Lives /\ Len(tab[key]) \in Nat /\ Limit[key[1]] \in Nat
         /\ Len(tab[key]) <= Limit[key[1]]
  BY LenProperties, KeyLimit DEF IsTable, Lives, WithinLimits
<1>2. /\ DOMAIN popped = DOMAIN tab \cup {bucket}
      /\ \A key \in DOMAIN tab : key # bucket => popped[key] = tab[key]
      /\ popped[bucket] = IF bucket \in DOMAIN tab THEN Live(tab[bucket]) ELSE <<>>
  BY DEF Popped
<1>3. bucket \in DOMAIN tab =>
         /\ Live(tab[bucket]) \in Lives /\ Gone(tab[bucket]) \in Nat
         /\ Len(Live(tab[bucket])) = Len(tab[bucket]) - Gone(tab[bucket])
         /\ \A n \in 1..Len(tab[bucket]) : tab[bucket][n] > 0 =>
               /\ n - Gone(tab[bucket]) \in 1..Len(Live(tab[bucket]))
               /\ Live(tab[bucket])[n - Gone(tab[bucket])] = tab[bucket][n]
  BY <1>1, LiveMeaning
<1>4. <<>> \in Lives /\ Len(<<>>) = 0 /\ Limit[bucket[1]] \in Nat
  BY KeyLimit, EmptySeq DEF Lives
<1> HIDE DEF popped
<1>5. IsTable(popped)
  BY <1>1, <1>2, <1>3, <1>4 DEF IsTable
<1>6. WithinLimits(popped)
  <2>1. ASSUME NEW key \in DOMAIN tab, key # bucket
        PROVE  Len(popped[key]) <= Limit[key[1]]
    BY <1>1, <1>2, <2>1
  <2>2. Len(popped[bucket]) <= Limit[bucket[1]]
    <3>1. CASE bucket \in DOMAIN tab
      BY <1>1, <1>2, <1>3, <3>1
    <3>2. CASE bucket \notin DOMAIN tab
      BY <1>2, <1>4, <3>2
    <3> QED
      BY <3>1, <3>2
  <2> QED
    BY <1>2, <2>1, <2>2 DEF WithinLimits
<1>7. Moves(tab, popped)
  <2>1. ASSUME NEW key \in DOMAIN tab, key # bucket, NEW n \in 1..Len(tab[key])
        PROVE  n - 0 \in 1..Len(popped[key]) /\ popped[key][n - 0] = tab[key][n]
    BY <1>1, <1>2, <2>1
  <2>2. \A key \in DOMAIN tab : key \in DOMAIN popped
    BY <1>2
  <2>3. ASSUME bucket \in DOMAIN tab, NEW n \in 1..Len(tab[bucket]), tab[bucket][n] > 0
        PROVE  /\ n - Gone(tab[bucket]) \in 1..Len(popped[bucket])
               /\ popped[bucket][n - Gone(tab[bucket])] = tab[bucket][n]
    BY <1>2, <1>3, <2>3
  <2> QED
    BY <1>3, <2>1, <2>2, <2>3 DEF Moves
<1> QED
  BY <1>2, <1>5, <1>6, <1>7 DEF popped

\* Appending to one bucket moves nothing.
LEMMA GrownTable ==
    ASSUME NEW tab, IsTable(tab), NEW bucket \in DOMAIN tab
    PROVE  LET tab2 == [key \in DOMAIN tab |->
                          IF key = bucket THEN Append(tab[key], Window) ELSE tab[key]]
           IN  IsTable(tab2) /\ Moves(tab, tab2) /\ DOMAIN tab2 = DOMAIN tab
               /\ Len(tab2[bucket]) = Len(tab[bucket]) + 1
               /\ \A key \in DOMAIN tab : key # bucket => tab2[key] = tab[key]
<1> DEFINE tab2 == [key \in DOMAIN tab |->
                      IF key = bucket THEN Append(tab[key], Window) ELSE tab[key]]
<1>1. \A key \in DOMAIN tab : tab[key] \in Lives /\ Len(tab[key]) \in Nat
  BY LenProperties DEF IsTable, Lives
<1>2. /\ Append(tab[bucket], Window) \in Lives
      /\ Len(Append(tab[bucket], Window)) = Len(tab[bucket]) + 1
      /\ \A n \in 1..Len(tab[bucket]) : Append(tab[bucket], Window)[n] = tab[bucket][n]
  BY <1>1, RateLimiterAssumption DEF Lives
<1>3. /\ DOMAIN tab2 = DOMAIN tab /\ tab2[bucket] = Append(tab[bucket], Window)
      /\ \A key \in DOMAIN tab : key # bucket => tab2[key] = tab[key]
  OBVIOUS
<1> HIDE DEF tab2
<1>4. IsTable(tab2)
  BY <1>1, <1>2, <1>3 DEF IsTable
<1>5. ASSUME NEW key \in DOMAIN tab, NEW n \in 1..Len(tab[key])
      PROVE  n - 0 \in 1..Len(tab2[key]) /\ tab2[key][n - 0] = tab[key][n]
  BY <1>1, <1>2, <1>3
<1>6. Moves(tab, tab2)
  BY <1>3, <1>5 DEF Moves
<1> QED
  BY <1>2, <1>3, <1>4, <1>6 DEF tab2

TwiceInv == LimiterTypeOK /\ GrantsAccounted

LEMMA CheckKeepsGrants ==
    ASSUME TwiceInv, NEW c \in Scope, NEW p \in Peer, Check(c, p)
    PROVE  TwiceInv'
<1> DEFINE keys == DOMAIN Swept
           bucket == BucketOf(c, p, keys)
           popped == Popped(Swept, bucket)
           grown == [key \in DOMAIN popped |->
                       IF key = bucket THEN Append(popped[key], Window) ELSE popped[key]]
           admitted == HasRoom(popped[bucket], c)
<1>1. /\ LimiterTypeOK /\ WithinLimits(table)
      /\ \A s \in Scope, q \in Peer :
            /\ granted[s][q] \in Lives /\ Ordered(granted[s][q])
            /\ Accounted(BucketsOf(s, q), table, granted[s][q])
  BY DEF TwiceInv, GrantsAccounted, WithinLimits, Ordered, LimiterTypeOK, Lives
<1>2. bucket \in BucketsOf(c, p) /\ bucket \in Key
  BY DEF BucketOf, BucketsOf, Key
<1>3. /\ IsTable(table) /\ IsTable(Swept) /\ Moves(table, Swept)
      /\ WithinLimits(Swept) /\ DOMAIN Swept \subseteq Key
  BY <1>1, SweptTable
<1>4. /\ IsTable(popped) /\ Moves(Swept, popped) /\ WithinLimits(popped)
      /\ DOMAIN popped = keys \cup {bucket} /\ DOMAIN popped \subseteq Key
  BY <1>2, <1>3, PoppedTable
<1>5. ASSUME NEW s \in Scope, NEW q \in Peer
      PROVE  Accounted(BucketsOf(s, q), popped, granted[s][q])
  <2>1. Accounted(BucketsOf(s, q), Swept, granted[s][q])
    BY <1>1, <1>3, AccountedMoves DEF Ordered
  <2> HIDE DEF popped
  <2> QED
    BY <1>1, <1>3, <1>4, <2>1, AccountedMoves DEF Ordered
<1>6. /\ checks' \in 0..(SweepEvery - 1)
      /\ table' = IF admitted THEN grown ELSE popped
      /\ granted' = IF admitted
           THEN [granted EXCEPT ![c][p] = Append(granted[c][p], Window)]
           ELSE granted
  <2>1. checks' = (checks + 1) % SweepEvery
    BY DEF Check
  <2>2. checks' \in 0..(SweepEvery - 1)
    BY <2>1, <1>1, RateLimiterAssumption DEF LimiterTypeOK
  <2>3. popped[bucket] = IF bucket \in keys THEN Live(Swept[bucket]) ELSE <<>>
    BY DEF Popped
  <2>4. CASE admitted
    <3>1. table' = [key \in keys \cup {bucket} |->
                      IF key = bucket THEN Append(popped[bucket], Window)
                                      ELSE Swept[key]]
      BY <2>3, <2>4 DEF Check
    <3>2. \A key \in keys : key # bucket => popped[key] = Swept[key]
      BY DEF Popped
    <3>3. table' = grown
      BY <1>4, <3>1, <3>2
    <3>4. granted' = [granted EXCEPT ![c][p] = Append(@, Window)]
      BY <2>3, <2>4 DEF Check
    <3> QED
      BY <2>2, <2>4, <3>3, <3>4
  <2>5. CASE ~admitted
    <3>1. table' = [key \in keys \cup {bucket} |->
                      IF key = bucket THEN popped[bucket] ELSE Swept[key]]
      BY <2>3, <2>5 DEF Check
    <3>2. table' = popped
      BY <3>1 DEF Popped
    <3>3. granted' = [granted EXCEPT ![c][p] = @]
      BY <2>3, <2>5 DEF Check
    <3>4. granted' = granted
      BY <1>1, <3>3 DEF LimiterTypeOK
    <3> QED
      BY <2>2, <2>5, <3>2, <3>4
  <2> QED
    BY <2>4, <2>5
<1> HIDE DEF keys, bucket, popped
<1>7. CASE ~admitted
  <2>1. table' = popped /\ granted' = granted
    BY <1>6, <1>7
  <2>2. LimiterTypeOK'
    BY <1>1, <1>4, <1>6, <2>1 DEF LimiterTypeOK, IsTable, Lives
  <2>3. GrantsAccounted'
    BY <1>1, <1>4, <1>5, <2>1
       DEF GrantsAccounted, WithinLimits, Ordered
  <2> QED
    BY <2>2, <2>3 DEF TwiceInv
<1>8. CASE admitted
  <2>1. /\ table' = grown
        /\ granted' = [granted EXCEPT ![c][p] = Append(granted[c][p], Window)]
    BY <1>6, <1>8
  <2>2. /\ IsTable(grown) /\ Moves(popped, grown) /\ DOMAIN grown = DOMAIN popped
        /\ Len(grown[bucket]) = Len(popped[bucket]) + 1
        /\ \A key \in DOMAIN popped : key # bucket => grown[key] = popped[key]
    <3>1. bucket \in DOMAIN popped
      BY <1>4
    <3> QED
      BY <1>4, <3>1, GrownTable
  <2>3. Window \in 1..Window
    BY RateLimiterAssumption
  <2>4. Accounted(BucketsOf(c, p), grown, Append(granted[c][p], Window))
    <3>1. bucket \in DOMAIN popped /\ granted[c][p] \in Lives
      BY <1>1, <1>4
    <3> QED
      BY <1>2, <1>4, <1>5, <2>3, <3>1, AccountedAppend
  <2> HIDE DEF grown
  <2>5. WithinLimits(grown)
    <3>1. bucket[1] = c
      BY <1>2 DEF BucketsOf
    <3>2. Len(popped[bucket]) < Limit[c]
      BY <1>8 DEF HasRoom
    <3>3. Len(popped[bucket]) \in Nat /\ Limit[c] \in Nat
      BY <1>4, LenProperties, RateLimiterAssumption DEF IsTable, Lives
    <3> QED
      BY <1>4, <2>2, <3>1, <3>2, <3>3 DEF WithinLimits
  <2>6. ASSUME NEW s \in Scope, NEW q \in Peer
        PROVE  /\ granted'[s][q] \in Lives /\ Ordered(granted'[s][q])
               /\ Accounted(BucketsOf(s, q), grown, granted'[s][q])
    <3>1. CASE s = c /\ q = p
      <4>1. granted'[c][p] = Append(granted[c][p], Window)
        BY <1>1, <2>1 DEF LimiterTypeOK
      <4>2. /\ Append(granted[c][p], Window) \in Lives
            /\ Ordered(Append(granted[c][p], Window))
        BY <1>1, OrderedAppend
      <4> QED
        BY <2>4, <3>1, <4>1, <4>2
    <3>2. CASE ~(s = c /\ q = p)
      <4>1. granted'[s][q] = granted[s][q]
        BY <1>1, <2>1, <3>2 DEF LimiterTypeOK
      <4>2. Accounted(BucketsOf(s, q), grown, granted[s][q])
        BY <1>1, <1>4, <1>5, <2>2, AccountedMoves DEF Ordered
      <4> QED
        BY <1>1, <4>1, <4>2
    <3> QED
      BY <3>1, <3>2
  <2>7. granted' \in [Scope -> [Peer -> Lives]]
    <3>1. Append(granted[c][p], Window) \in Lives
      BY <1>1, OrderedAppend
    <3> QED
      BY <1>1, <2>1, <3>1 DEF LimiterTypeOK, Lives
  <2>8. LimiterTypeOK'
    BY <1>4, <1>6, <2>1, <2>2, <2>7 DEF LimiterTypeOK, IsTable, Lives
  <2>9. GrantsAccounted'
    BY <2>1, <2>5, <2>6 DEF GrantsAccounted, WithinLimits, Ordered
  <2> QED
    BY <2>8, <2>9 DEF TwiceInv
<1> QED
  BY <1>7, <1>8

LEMMA TickKeepsGrants ==
    ASSUME TwiceInv, LimiterTick
    PROVE  TwiceInv'
<1> DEFINE aged == [key \in DOMAIN table |-> TickedOff(table[key])]
<1>1. /\ LimiterTypeOK /\ WithinLimits(table) /\ IsTable(table)
      /\ \A s \in Scope, q \in Peer :
            /\ granted[s][q] \in Lives /\ Ordered(granted[s][q])
            /\ Accounted(BucketsOf(s, q), table, granted[s][q])
  BY DEF TwiceInv, GrantsAccounted, WithinLimits, Ordered, LimiterTypeOK, Lives,
         IsTable
<1>2. /\ table' = aged
      /\ granted' = [s \in Scope |-> [q \in Peer |-> Live(TickedOff(granted[s][q]))]]
      /\ checks' = checks
  BY DEF LimiterTick, TickedOff
<1>3. \A key \in DOMAIN table :
         TickedOff(table[key]) \in Lives /\ Len(TickedOff(table[key])) = Len(table[key])
  BY <1>1, AgedMeaning DEF IsTable
<1>4. ASSUME NEW s \in Scope, NEW q \in Peer
      PROVE  /\ granted'[s][q] = Live(TickedOff(granted[s][q]))
             /\ granted'[s][q] \in Lives /\ Ordered(granted'[s][q])
             /\ Accounted(BucketsOf(s, q), aged, granted'[s][q])
  <2>1. granted'[s][q] = Live(TickedOff(granted[s][q]))
    BY <1>2
  <2>2. Accounted(BucketsOf(s, q), aged, Live(TickedOff(granted[s][q])))
    BY <1>1, AccountedTick
  <2>3. /\ Live(TickedOff(granted[s][q])) \in Lives
        /\ Ordered(Live(TickedOff(granted[s][q])))
    BY <1>1, OrderedTick
  <2> QED
    BY <2>1, <2>2, <2>3
<1>5. granted' \in [Scope -> [Peer -> Lives]]
  BY <1>2, <1>4
<1>6. LimiterTypeOK'
  BY <1>1, <1>2, <1>3, <1>5 DEF LimiterTypeOK, Lives
<1>7. GrantsAccounted'
  <2>1. WithinLimits(aged)
    BY <1>1, <1>3 DEF WithinLimits
  <2> HIDE DEF aged
  <2>2. WithinLimits(table')
    BY <1>2, <2>1
  <2>3. \A s \in Scope, q \in Peer :
          Ordered(granted'[s][q]) /\ Accounted(BucketsOf(s, q), table', granted'[s][q])
    BY <1>2, <1>4
  <2> QED
    BY <2>2, <2>3 DEF GrantsAccounted, WithinLimits, Ordered
<1> QED
  BY <1>6, <1>7 DEF TwiceInv

LEMMA TwiceInit == LimiterInit => TwiceInv
<1> SUFFICES ASSUME LimiterInit PROVE TwiceInv
  OBVIOUS
<1>1. DOMAIN table = {} /\ checks = 0
      /\ \A s \in Scope, q \in Peer : granted[s][q] = <<>>
  BY DEF LimiterInit
<1>2. LimiterTypeOK
  BY RateLimiterAssumption DEF LimiterInit, LimiterTypeOK
<1>3. DOMAIN <<>> = {}
  OBVIOUS
<1>4. \A buckets : Accounted(buckets, table, <<>>)
  <2> DEFINE nowhere == [n \in {} |-> 0]
  <2>1. ASSUME NEW buckets PROVE nowhere \in [{} -> buckets \X (Nat \ {0})]
    OBVIOUS
  <2> QED
    BY <1>3, <2>1 DEF Accounted, IsPlacement
<1>5. GrantsAccounted
  BY <1>1, <1>3, <1>4 DEF GrantsAccounted
<1> QED
  BY <1>2, <1>5 DEF TwiceInv

LEMMA TwiceStep == TwiceInv /\ [LimiterNext]_limiterVars => TwiceInv'
<1>1. ASSUME TwiceInv, UNCHANGED limiterVars PROVE TwiceInv'
  BY <1>1 DEF TwiceInv, LimiterTypeOK, GrantsAccounted, limiterVars
<1>2. ASSUME TwiceInv, NEW c \in Scope, CheckDisabled(c) PROVE TwiceInv'
  BY <1>1, <1>2 DEF CheckDisabled
<1> QED
  BY <1>1, <1>2, CheckKeepsGrants, TickKeepsGrants DEF LimiterNext

LEMMA TwiceInvAlways == LimiterSpec => []TwiceInv
  BY TwiceInit, TwiceStep, PTL DEF LimiterSpec

\* Whatever peers come, leave and come back, and whenever a sweep frees a key
\* for a peer whose admissions are in the overflow bucket: no peer is admitted
\* more than twice the limit of a scope in a window.
THEOREM NeverMoreThanTwice == LimiterSpec => []AtMostTwice
<1>1. TwiceInv => AtMostTwice
  <2> SUFFICES ASSUME TwiceInv, NEW c \in Scope, NEW p \in Peer
               PROVE  Len(granted[c][p]) <= 2 * Limit[c]
    BY DEF AtMostTwice
  <2>1. /\ IsTable(table) /\ Limit[c] \in Nat /\ granted[c][p] \in Lives
        /\ Accounted({<<c, p>>, <<c, Overflow>>}, table, granted[c][p])
    BY RateLimiterAssumption
       DEF TwiceInv, GrantsAccounted, LimiterTypeOK, IsTable, Lives, BucketsOf
  <2>2. \A key \in DOMAIN table \cap {<<c, p>>, <<c, Overflow>>} :
           Len(table[key]) <= Limit[c]
    BY DEF TwiceInv, GrantsAccounted
  <2> QED
    BY <2>1, <2>2, AccountedBound
<1> QED
  BY <1>1, TwiceInvAlways, PTL

=============================================================================
