-------------------------- MODULE FeedCacheProofs --------------------------
(***************************************************************************)
(* Theorems about FeedCache, for any number of attempts, any maximum ages, *)
(* any answers of the upstream, any modes and any faults.                  *)
(***************************************************************************)
EXTENDS FeedCache, TLAPS

USE RetryAssumption, AgeAssumption, AnswerAssumption, ModeAssumption,
    FaultAssumption

(* The data a cycle goes on with is within CacheMaxAge, and from the       *)
(* success of an applying cycle on it ages as fast as the marker of that   *)
(* success.  A cycle in the FRR part has already changed the sets, unless  *)
(* it is one that skips them.                                              *)
AgeInv ==
  /\ TypeOK
  /\ pc = "wait" => attempt < RetryAttempts
  /\ pc = "fed" => hand <= CacheMaxAge
  /\ pc = "frr" /\ mode = "apply" => dataAge <= CacheMaxAge
  /\ by = "apply" => dataAge <= CacheMaxAge + markerAge

(* What Finish does, the context apart.                                    *)
LEMMA FinishResets ==
  ASSUME Finish
  PROVE  /\ pc' = "idle" /\ mode' = "none" /\ attempt' = 0 /\ hand' = 0
         /\ lastErr' = "none" /\ heard' = "none"
BY DEF Finish

LEMMA FinishContext ==
  ASSUME Finish
  PROVE  ctxDone' \in BOOLEAN
BY Zenon DEF Finish

(* What a cycle that returns nil does to the marker.                       *)
LEMMA SuccessStamps ==
  ASSUME Succeeds
  PROVE  /\ Finish
         /\ (markerAge' = 0 /\ by' = mode) \/ UNCHANGED ready
BY DEF Succeeds

(* A cycle that ends before it has changed the sets.                       *)
Ends ==
  /\ Finish
  /\ UNCHANGED <<cacheAge, fedAge, dataAge>>
  /\ UNCHANGED <<markerAge, by>>

LEMMA EndingSteps ==
  ASSUME SurfaceClientError \/ CacheUnusable \/ ExtrasFail \/ TargetFails \/ FRRFails
  PROVE  Ends
BY DEF Ends, SurfaceClientError, CacheUnusable, ExtrasFail, TargetFails, FRRFails,
       Fails, feeds, ready, ages

(* A cycle that returns nil after everything it does, if anything.         *)
LEMMA SucceedingSteps ==
  ASSUME EndsWithoutNft \/ FRRSucceeds
  PROVE  /\ (pc = "fed" /\ mode # "apply") \/ pc = "frr"
         /\ Succeeds
         /\ UNCHANGED <<cacheAge, fedAge, dataAge>>
BY DEF EndsWithoutNft, FRRSucceeds, feeds

LEMMA AgeStep == AgeInv /\ [Next]_vars => AgeInv'
<1> SUFFICES ASSUME AgeInv, [Next]_vars PROVE AgeInv'
  OBVIOUS
<1> USE DEF AgeInv, TypeOK, Top, Mode
<1>1. CASE UNCHANGED vars
  BY <1>1 DEF vars, cycle, ages, feeds, ready
<1>2. CASE TimePasses
  BY <1>2 DEF TimePasses, Older, cycle
<1>3. CASE Cancel
  BY <1>3 DEF Cancel, ages, feeds, ready
<1>4. CASE StartCycle
  BY <1>4 DEF StartCycle, ages, feeds, ready
<1>5. CASE FetchSucceeds
  BY <1>5 DEF FetchSucceeds, ages, feeds, ready, Answer
<1>6. CASE FetchFails
  BY <1>6 DEF FetchFails, ages, feeds, ready, Answer
<1>7. CASE Retry \/ RetryCancelled
  BY <1>7 DEF Retry, RetryCancelled, ages, feeds, ready
<1>8. CASE WriteCachedFeed
  BY <1>8 DEF WriteCachedFeed, ready
<1>9. CASE SurfaceClientError \/ CacheUnusable \/ ExtrasFail \/ TargetFails \/ FRRFails
  <2>1. Ends
    BY <1>9, EndingSteps
  <2> QED
    BY <2>1, FinishResets, FinishContext DEF Ends
<1>10. CASE ReadCachedFeed
  BY <1>10 DEF ReadCachedFeed, ages, feeds, ready
<1>11. CASE EndsWithoutNft \/ FRRSucceeds
  <2>1. /\ (pc = "fed" /\ mode # "apply") \/ pc = "frr"
        /\ Succeeds
        /\ UNCHANGED <<cacheAge, fedAge, dataAge>>
    BY <1>11, SucceedingSteps
  <2>2. /\ Finish
        /\ (markerAge' = 0 /\ by' = mode) \/ (markerAge' = markerAge /\ by' = by)
    BY <2>1, SuccessStamps DEF ready
  <2> QED
    BY <2>1, <2>2, FinishResets, FinishContext
<1>12. CASE NftSkipped
  BY <1>12 DEF NftSkipped, cycle, ages, feeds, ready
<1>13. CASE NftApplied
  BY <1>13 DEF NftApplied, cycle, feeds, ready
<1>14. CASE NftFails
  <2>1. /\ pc = "fed" /\ (dataAge' = dataAge \/ dataAge' = hand)
        /\ UNCHANGED <<cacheAge, fedAge, markerAge, by>>
    BY <1>14 DEF NftFails, Fails, feeds, ready
  <2>2. Finish
    BY <1>14 DEF NftFails, Fails
  <2> QED
    BY <2>1, <2>2, FinishResets, FinishContext
<1> QED
  BY <1>1, <1>2, <1>3, <1>4, <1>5, <1>6, <1>7, <1>8, <1>9, <1>10, <1>11,
     <1>12, <1>13, <1>14
     DEF Next

LEMMA AgeInit == Init => AgeInv
<1> SUFFICES ASSUME Init PROVE AgeInv
  OBVIOUS
<1>1. /\ pc = "idle" /\ mode = "none" /\ attempt = 0 /\ lastErr = "none"
      /\ heard = "none" /\ hand = 0 /\ by = "none"
      /\ cacheAge = Top /\ fedAge = Top /\ dataAge = Top /\ markerAge = Top
  BY DEF Init
<1>2. ctxDone \in BOOLEAN
  BY Zenon DEF Init
<1> QED
  BY <1>1, <1>2 DEF AgeInv, TypeOK, Top

(* The inductive invariant of the fetch and the ages holds at every step.  *)
THEOREM AgeInvariant == Spec => []AgeInv
BY AgeInit, AgeStep, PTL DEF Spec

(* The ages stay within the top of their range, and a cycle makes no more  *)
(* than RetryAttempts attempts (fetchWithRetry).                           *)
THEOREM TypeCorrect == Spec => []TypeOK
<1>1. AgeInv => TypeOK
  BY DEF AgeInv
<1> QED
  BY <1>1, AgeInvariant, PTL

(* The nft sets of a host that answers ready on the marker of an applying  *)
(* cycle hold data no older than the cache's and the marker's maximum ages *)
(* together, whatever the two flags say, whichever cycles of the four      *)
(* modes take turns on the host, and whatever fails (readCachedFeed, run,  *)
(* writeLastSuccess and the last-success check of newHealthServer).        *)
THEOREM ReadyDataIsBounded == Spec => []ReadyBoundsAge
<1>1. AgeInv => ReadyBoundsAge
  BY DEF AgeInv, TypeOK, Top, ReadyBoundsAge, Ready
<1> QED
  BY <1>1, AgeInvariant, PTL

-----------------------------------------------------------------------------
(* When the cache is written, it holds the newest feed that a cycle went   *)
(* on with, which is no older than what the sets hold.                     *)
LatestInv ==
  /\ cacheAge = fedAge
  /\ fedAge <= dataAge
  /\ pc = "fed" => hand = fedAge

(* A step keeps LatestInv, and only the passing of time makes the data of  *)
(* the sets older.                                                         *)
LEMMA LatestStep ==
  ASSUME "cacheWrite" \notin Faults, TypeOK, LatestInv, [Next]_vars
  PROVE  LatestInv' /\ (dataAge' > dataAge => pc' = pc)
<1> USE DEF LatestInv, TypeOK, Top
<1>1. CASE UNCHANGED vars
  BY <1>1 DEF vars, cycle, ages, feeds, ready
<1>2. CASE TimePasses
  BY <1>2 DEF TimePasses, Older, cycle
<1>3. CASE Cancel \/ StartCycle \/ FetchSucceeds \/ Retry \/ RetryCancelled
  BY <1>3 DEF Cancel, StartCycle, FetchSucceeds, Retry, RetryCancelled, ages, feeds
<1>4. CASE FetchFails
  BY <1>4 DEF FetchFails, ages, feeds
<1>5. CASE WriteCachedFeed
  BY <1>5 DEF WriteCachedFeed
<1>6. CASE SurfaceClientError \/ CacheUnusable \/ ExtrasFail \/ TargetFails \/ FRRFails
  <2>1. Ends
    BY <1>6, EndingSteps
  <2> QED
    BY <2>1, FinishResets DEF Ends
<1>7. CASE ReadCachedFeed
  BY <1>7 DEF ReadCachedFeed, ages, feeds
<1>8. CASE EndsWithoutNft \/ FRRSucceeds
  <2>1. Succeeds /\ UNCHANGED <<cacheAge, fedAge, dataAge>>
    BY <1>8, SucceedingSteps
  <2> QED
    BY <2>1, SuccessStamps, FinishResets
<1>9. CASE NftSkipped
  BY <1>9 DEF NftSkipped, ages, feeds
<1>10. CASE NftApplied
  BY <1>10 DEF NftApplied, feeds
<1>11. CASE NftFails
  <2>1. /\ pc = "fed" /\ (dataAge' = dataAge \/ dataAge' = hand)
        /\ UNCHANGED <<cacheAge, fedAge>>
    BY <1>11 DEF NftFails, feeds
  <2>2. pc' = "idle"
    BY <1>11, FinishResets DEF NftFails, Fails
  <2> QED
    BY <2>1, <2>2
<1> QED
  BY <1>1, <1>2, <1>3, <1>4, <1>5, <1>6, <1>7, <1>8, <1>9, <1>10, <1>11 DEF Next

(* As long as the cache file is written, it is the newest feed.            *)
LEMMA LatestInvariant == "cacheWrite" \notin Faults /\ Spec => []LatestInv
<1> SUFFICES ASSUME "cacheWrite" \notin Faults PROVE Spec => []LatestInv
  OBVIOUS
<1>1. Init => LatestInv
  BY DEF Init, LatestInv, Top
<1>2. AgeInv => TypeOK
  BY DEF AgeInv
<1>3. TypeOK /\ LatestInv /\ [Next]_vars => LatestInv'
  BY LatestStep
<1> QED
  BY <1>1, <1>2, <1>3, AgeInvariant, PTL DEF Spec

(* The sets never get older data than they have, as long as the cache file *)
(* is written: fetchWithCache falls back to the last feed that was         *)
(* fetched.                                                                *)
THEOREM DataNeverGoesBack == "cacheWrite" \notin Faults /\ Spec => NeverGoesBack
<1> SUFFICES ASSUME "cacheWrite" \notin Faults PROVE Spec => NeverGoesBack
  OBVIOUS
<1>1. AgeInv => TypeOK
  BY DEF AgeInv
<1>2. TypeOK /\ LatestInv /\ [Next]_vars => [dataAge' > dataAge => pc' = pc]_vars
  BY LatestStep
<1> QED
  BY <1>1, <1>2, AgeInvariant, LatestInvariant, PTL DEF Spec, NeverGoesBack

-----------------------------------------------------------------------------
(* What becomes of a cycle whose fetch failed.                             *)
Bridged ==
  pc = "failed" /\ pc' # "failed" =>
    IF pc' = "fed" THEN hand' = fedAge /\ fedAge <= CacheMaxAge
    ELSE fedAge > CacheMaxAge \/ SeemsClientError

LEMMA FailedSteps ==
  ASSUME Next, pc = "failed", pc' # "failed"
  PROVE  SurfaceClientError \/ CacheUnusable \/ ReadCachedFeed
BY DEF Next, TimePasses, Cancel, StartCycle, FetchSucceeds, FetchFails, Retry,
  RetryCancelled, WriteCachedFeed, ExtrasFail, EndsWithoutNft, TargetFails,
  NftSkipped, NftApplied, NftFails, FRRSucceeds, FRRFails

(* An outage of the upstream costs no cycle its feed before the newest     *)
(* feed of all cycles is older than CacheMaxAge, and never brings back     *)
(* another one, for any number of attempts and any mix of their answers,   *)
(* when the cache file can be written and read; what the code takes for a  *)
(* client error is the exception (fetchWithCache).                         *)
THEOREM OutagesAreBridged ==
  "cacheRead" \notin Faults /\ "cacheWrite" \notin Faults /\ Spec => OutageBridged
<1> SUFFICES ASSUME "cacheRead" \notin Faults, "cacheWrite" \notin Faults
             PROVE  Spec => OutageBridged
  OBVIOUS
<1>1. TypeOK /\ LatestInv /\ [Next]_vars => [Bridged]_vars
  <2> SUFFICES ASSUME TypeOK, LatestInv, Next, pc = "failed", pc' # "failed"
               PROVE  IF pc' = "fed" THEN hand' = fedAge /\ fedAge <= CacheMaxAge
                      ELSE fedAge > CacheMaxAge \/ SeemsClientError
    BY DEF Bridged
  <2>1. cacheAge = fedAge
    BY DEF LatestInv
  <2>2. CASE SurfaceClientError
    <3>1. pc' = "idle"
      BY <2>2, FinishResets DEF SurfaceClientError
    <3>2. SeemsClientError
      BY <2>2 DEF SurfaceClientError, IsClientError, SeemsClientError
    <3> QED
      BY <3>1, <3>2
  <2>3. CASE CacheUnusable
    <3>1. pc' = "idle"
      BY <2>3, FinishResets DEF CacheUnusable
    <3>2. cacheAge > CacheMaxAge
      BY <2>3 DEF CacheUnusable
    <3> QED
      BY <2>1, <3>1, <3>2
  <2>4. CASE ReadCachedFeed
    BY <2>1, <2>4 DEF ReadCachedFeed
  <2> QED
    BY <2>2, <2>3, <2>4, FailedSteps
<1>2. AgeInv => TypeOK
  BY DEF AgeInv
<1>3. [][Bridged]_vars => OutageBridged
  BY PTL DEF OutageBridged, Bridged
<1> QED
  BY <1>1, <1>2, <1>3, AgeInvariant, LatestInvariant, PTL DEF Spec
=============================================================================
