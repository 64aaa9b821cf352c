--------------------------- MODULE ArtifactPurger ---------------------------
(***************************************************************************)
(* The sidecar that removes expired cloud originals (artifact_purger.py)   *)
(* from the object store that API workers write to and delete from.        *)
(*                                                                         *)
(* A pass takes the time once, lists the prefix, and then heads and        *)
(* deletes one key after the other while uploads and case deletions go on. *)
(* A failed key does not stop the pass; it makes the process exit in the   *)
(* end, without a heartbeat, and the container restarts it.                *)
(*                                                                         *)
(* Time is relative, as in LeasedCase: age[a] counts from the moment the   *)
(* upload fixed the expiry of a, beat from the last heartbeat.  Both stop  *)
(* at Cap, which is beyond every threshold the properties compare with.    *)
(***************************************************************************)
EXTENDS Naturals

CONSTANTS Original,    \* object keys (uuid4, each written once)
          Unreadable,  \* those without a readable expires-at
          AccessTTL,   \* access_ttl_seconds: from upload to expires-at
          Margin,      \* OCDD_ARTIFACT_EXPIRY_SAFETY_MARGIN_SECONDS
          Interval,    \* OCDD_ARTIFACT_PURGE_INTERVAL_SECONDS
          HealthAge,   \* OCDD_ARTIFACT_PURGER_HEALTH_MAX_AGE_SECONDS
          PutLag,      \* longest time from fixing the expiry to the write
          PassHold,    \* longest time a pass takes
          Cap          \* where the counters stop

ASSUME ArtifactPurgerAssumption ==
    /\ AccessTTL \in Nat \ {0} /\ Interval \in Nat \ {0}
    /\ Margin \in Nat /\ HealthAge \in Nat /\ PutLag \in Nat /\ PassHold \in Nat
    /\ Margin >= Interval
    /\ PutLag < AccessTTL
    /\ Cap \in Nat /\ Cap > HealthAge
    /\ Cap > AccessTTL + Margin /\ Cap >= AccessTTL + PassHold
    /\ Unreadable \subseteq Original

VARIABLES place,   \* place[a]: unborn, stored or gone
          age,     \* age[a]: ticks since the expiry of a was fixed
          pc,      \* the purger: down, list, visit or sleep
          keys,    \* the listed keys this pass has still to visit
          failed,  \* some key of this pass failed
          took,    \* ticks since this pass took the time
          rest,    \* ticks left to sleep
          beat     \* age of the heartbeat file; Cap when there is none

vars == <<place, age, pc, keys, failed, took, rest, beat>>
store == <<place, age>>

TypeOK ==
    /\ place \in [Original -> {"unborn", "stored", "gone"}]
    /\ age \in [Original -> 0..Cap]
    /\ pc \in {"down", "list", "visit", "sleep"}
    /\ keys \in SUBSET Original
    /\ failed \in BOOLEAN
    /\ took \in 0..PassHold
    /\ rest \in 0..Interval
    /\ beat \in 0..Cap

Init ==
    /\ place = [a \in Original |-> "unborn"]
    /\ age = [a \in Original |-> 0]
    /\ pc = "down"
    /\ keys = {}
    /\ failed = FALSE
    /\ took = 0
    /\ rest = 0
    /\ beat = Cap

Stored == {a \in Original : place[a] = "stored"}

(* Plausible mistakes, substituted for the definition of the same          *)
(* parameters to see that a property notices.                              *)
SleepWithoutFloor(t) == Interval - t
AlwaysClean(f) == f \in BOOLEAN
OnlyAfterSleep(step) == step = "sleep" /\ rest = 0

-----------------------------------------------------------------------------
(* The API workers.                                                        *)

\* An upload fixes the expiry, extracts the document, then writes the object.
Put(a) ==
    /\ place[a] = "unborn"
    /\ place' = [place EXCEPT ![a] = "stored"]
    /\ \E lag \in 0..PutLag : age' = [age EXCEPT ![a] = lag]
    /\ UNCHANGED <<pc, keys, failed, took, rest, beat>>

\* A case deletion, or the rollback of an upload.
Withdraw(a) ==
    /\ place[a] = "stored"
    /\ place' = [place EXCEPT ![a] = "gone"]
    /\ UNCHANGED <<age, pc, keys, failed, took, rest, beat>>

-----------------------------------------------------------------------------
(* The purger process.                                                     *)

\* The restart policy starts it again whenever it has exited.
Startable(step) == step = "down" \/ (step = "sleep" /\ rest = 0)

\* The pass takes the time; keys are the objects there are at this moment.
StartPass ==
    /\ Startable(pc)
    /\ pc' = "list"
    /\ keys' = Stored
    /\ failed' = FALSE
    /\ took' = 0
    /\ UNCHANGED <<store, rest, beat>>

\* The listing is paginated: it has every object that is there throughout,
\* and any of those that came or went meanwhile.
List ==
    /\ pc = "list"
    /\ pc' = "visit"
    /\ \E listed \in SUBSET (Stored \cup keys) :
          /\ Stored \cap keys \subseteq listed
          /\ keys' = listed
    /\ UNCHANGED <<store, failed, took, rest, beat>>

\* No readable expiry, or one that is not after the start of the pass.
Expired(a) == a \in Unreadable \/ age[a] >= AccessTTL + took

Purged(a) == [place EXCEPT ![a] = "gone"]

\* Head of an object that was withdrawn after the listing is a failure too.
Visit(a) ==
    /\ pc = "visit"
    /\ a \in keys
    /\ keys' = keys \ {a}
    /\ failed' = (failed \/ place[a] = "gone")
    /\ place' = IF place[a] = "stored" /\ Expired(a) THEN Purged(a) ELSE place
    /\ UNCHANGED <<age, pc, took, rest, beat>>

\* The head or the delete raises; the delete may have happened all the same.
VisitFails(a) ==
    /\ pc = "visit"
    /\ a \in keys
    /\ keys' = keys \ {a}
    /\ failed' = TRUE
    /\ \/ place' = place
       \/ place[a] = "stored" /\ Expired(a) /\ place' = Purged(a)
    /\ UNCHANGED <<age, pc, took, rest, beat>>

Clean(f) == f = FALSE

\* time.sleep(max(0.1, interval - elapsed)); a tenth is less than a tick.
Remaining(t) == IF t < Interval THEN Interval - t ELSE 0

EndPass ==
    /\ pc = "visit"
    /\ keys = {}
    /\ IF Clean(failed)
         THEN pc' = "sleep" /\ beat' = 0 /\ rest' = Remaining(took)
         ELSE pc' = "down" /\ UNCHANGED <<beat, rest>>
    /\ UNCHANGED <<store, keys, failed, took>>

\* The listing raises, or the process dies.
Exit ==
    /\ pc # "down"
    /\ pc' = "down"
    /\ keys' = {}
    /\ UNCHANGED <<store, failed, took, rest, beat>>

-----------------------------------------------------------------------------
Passing == pc \in {"list", "visit"}
Aged(n) == IF n < Cap THEN n + 1 ELSE n

\* A pass ends within PassHold; only stored objects need an age.
Tick ==
    /\ Passing => took < PassHold
    /\ age' = [a \in Original |-> IF place[a] = "stored" THEN Aged(age[a]) ELSE 0]
    /\ took' = IF Passing THEN took + 1 ELSE 0
    /\ rest' = IF pc = "sleep" /\ rest > 0 THEN rest - 1 ELSE rest
    /\ beat' = Aged(beat)
    /\ UNCHANGED <<place, pc, keys, failed>>

Purge == StartPass \/ List \/ (\E a \in Original : Visit(a)) \/ EndPass

StoreFault == Exit \/ \E a \in Original : VisitFails(a)

Next ==
    \/ \E a \in Original : Put(a) \/ Withdraw(a)
    \/ Purge
    \/ StoreFault
    \/ Tick

Spec == Init /\ [][Next]_vars

\* The container is restarted, the process keeps running and time passes.
FairSpec == Spec /\ WF_vars(Purge) /\ WF_vars(Tick)

-----------------------------------------------------------------------------
(* What must hold.                                                         *)

\* heartbeat_is_fresh.
Healthy == beat <= HealthAge

\* OCDD_ARTIFACT_TTL_SECONDS, the ceiling that every upload records.
Ceiling == AccessTTL + Margin

\* The buffer between the end of access and the ceiling covers a heartbeat
\* that is as old as the healthcheck allows, plus one pass.
BufferSuffices == HealthAge + PassHold <= Margin

\* While the healthcheck of the sidecar passes, no original is stored beyond
\* the ceiling, whatever failed, died or was deleted concurrently: it is right
\* to alert on the healthcheck alone.
HealthyMeansCompliant ==
    Healthy => \A a \in Stored : age[a] <= Ceiling

\* Once the store stops failing, the originals whose access is over disappear,
\* also when earlier passes failed halfway and the process was restarted.
\* (No original is stored twice: one that never went would be in the way of
\* the moments without an expired original.)
ExpiredGoesAway ==
    <>[][~StoreFault]_vars =>
        []<>(\A a \in Original : place[a] = "stored" => age[a] < AccessTTL)

(* The strengthening.  What this pass need not visit was not expired when  *)
(* the pass began; what is left after a clean pass is hardly older than    *)
(* the pass.                                                               *)

PassCovers ==
    Passing /\ ~failed =>
        \A a \in Stored : a \in keys \/ age[a] < AccessTTL + took

BeatCovers ==
    beat < Cap => \A a \in Stored : age[a] < AccessTTL + beat + PassHold

IInv == TypeOK /\ PassCovers /\ BeatCovers

=============================================================================
