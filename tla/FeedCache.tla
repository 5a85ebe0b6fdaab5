----------------------------- MODULE FeedCache -----------------------------
(***************************************************************************)
(* Where a cycle gets its feed: fetchWithRetry (main.go), fetchWithCache   *)
(* with its cache file and isClientError (cache.go), what run() does with  *)
(* it under the flags that decide whether the nft sets are touched, and    *)
(* how old the data is that a ready host routes by (the last-success       *)
(* marker, health.go).  The cache, the marker and the sets are the host's: *)
(* the cycles may be those of a daemon, of timer runs and of manual runs   *)
(* with other flags, one at a time (the lock file).                        *)
(*                                                                         *)
(* One unit of time is short against the maximum ages and long against a   *)
(* cycle, so that time passes between cycles.  An age of Top or more is    *)
(* Top: older than anything the code compares with, or no file at all.     *)
(*                                                                         *)
(* A process killed in a cycle leaves what a step that fails there leaves. *)
(***************************************************************************)
EXTENDS Naturals

CONSTANTS
  RetryAttempts,  \* --retry-attempts
  CacheMaxAge,    \* --cache-max-age
  ReadyMaxAge,    \* --ready-max-age
  Answers,        \* what RIPE Stat may answer, a subset of Answer
  Modes,          \* how the processes are started, a subset of Mode
  Faults          \* what else may go wrong, a subset of Fault

\* A feed; no connection, a timeout or a done context; HTTP statuses, one of
\* them a 5xx whose body has the text "status=4.."; a 200 that is no feed.
Answer == {"feed", "net", "5xx", "5xx citing 4xx", "429", "404", "no feed"}

\* The nft sets and frr.conf; with --nft=false; a dry run; a --target other
\* than frr.
Mode == {"apply", "noNft", "dryRun", "target"}

Fault == {"cacheWrite", "cacheRead", "cancel", "apply", "marker"}

ASSUME RetryAssumption  == RetryAttempts \in Nat \ {0}
ASSUME AgeAssumption    == CacheMaxAge \in Nat /\ ReadyMaxAge \in Nat
ASSUME AnswerAssumption == Answers \subseteq Answer
ASSUME ModeAssumption   == Modes \subseteq Mode
ASSUME FaultAssumption  == Faults \subseteq Fault

VARIABLES
  pc,         \* where the cycle is
  mode,       \* how the process of the cycle was started
  attempt,    \* the number of the current fetch
  lastErr,    \* the error of the last fetch, or of the wait after it
  heard,      \* history: the last answer of the upstream in this cycle
  ctxDone,    \* the context of the cycle is done
  hand,       \* age of the feed the cycle goes on with
  cacheAge,   \* age of the cache file
  fedAge,     \* history: age of the newest feed that a cycle went on with
  dataAge,    \* age of the feed that is in the nft sets
  markerAge,  \* age of the last-success marker
  by          \* history: the mode of the cycle that wrote the marker

cycle == <<mode, attempt, lastErr, heard, ctxDone, hand>>
feeds == <<cacheAge, fedAge>>
ready == <<markerAge, by>>
ages  == <<feeds, dataAge, ready>>
vars  == <<pc, cycle, ages>>

Top == CacheMaxAge + ReadyMaxAge + 1     \* bound of every age

TypeOK ==
  /\ pc \in {"idle", "fetch", "wait", "fresh", "failed", "fed", "frr"}
  /\ mode \in Modes \cup {"none"}
  /\ attempt \in 0 .. RetryAttempts
  /\ lastErr \in Answer \cup {"none", "cancelled"}
  /\ heard \in Answer \cup {"none"}
  /\ ctxDone \in BOOLEAN
  /\ hand \in 0 .. Top
  /\ cacheAge \in 0 .. Top
  /\ fedAge \in 0 .. Top
  /\ dataAge \in 0 .. Top
  /\ markerAge \in 0 .. Top
  /\ by \in Modes \cup {"none"}

Init ==
  /\ pc = "idle"
  /\ mode = "none" /\ attempt = 0 /\ lastErr = "none" /\ heard = "none"
  /\ ctxDone = FALSE
  /\ hand = 0
  /\ cacheAge = Top /\ fedAge = Top /\ dataAge = Top /\ markerAge = Top
  /\ by = "none"

-----------------------------------------------------------------------------

Older(age) == IF age < Top THEN age + 1 ELSE Top

TimePasses ==
  /\ pc = "idle"
  /\ cacheAge' = Older(cacheAge)
  /\ fedAge' = Older(fedAge)
  /\ dataAge' = Older(dataAge)
  /\ markerAge' = Older(markerAge)
  /\ UNCHANGED <<pc, cycle, by>>

Cancel ==
  /\ "cancel" \in Faults
  /\ pc # "idle"
  /\ ctxDone' = TRUE
  /\ UNCHANGED <<pc, mode, attempt, lastErr, heard, hand, ages>>

(* The cycle returns from run(), and its locals go.                        *)
Finish ==
  /\ pc' = "idle"
  /\ mode' = "none" /\ attempt' = 0 /\ lastErr' = "none" /\ heard' = "none"
  /\ ctxDone' = FALSE
  /\ hand' = 0

StartCycle ==
  /\ pc = "idle"
  /\ pc' = "fetch"
  /\ mode' \in Modes
  /\ attempt' = 1
  /\ UNCHANGED <<lastErr, heard, ctxDone, hand, ages>>

-----------------------------------------------------------------------------
(* fetchWithRetry                                                          *)

FetchSucceeds ==
  /\ pc = "fetch"
  /\ ~ctxDone
  /\ "feed" \in Answers
  /\ pc' = "fresh"
  /\ heard' = "feed"
  /\ UNCHANGED <<mode, attempt, lastErr, ctxDone, hand, ages>>

\* Mutant of FetchFails: off by one, it tries once more than it should.
FetchFailsOnceMore ==
  /\ pc = "fetch"
  /\ \E a \in Answers \ {"feed"} : lastErr' = a /\ heard' = a
  /\ pc' = IF attempt <= RetryAttempts THEN "wait" ELSE "failed"
  /\ UNCHANGED <<mode, attempt, ctxDone, hand, ages>>

(* Every error is tried again, a 4xx too; the last one is what returns.    *)
FetchFails ==
  /\ pc = "fetch"
  /\ \E a \in (Answers \ {"feed"}) \cup (IF ctxDone THEN {"net"} ELSE {}) :
       /\ lastErr' = a
       /\ heard' = IF a = "net" THEN heard ELSE a
  /\ pc' = IF attempt < RetryAttempts THEN "wait" ELSE "failed"
  /\ UNCHANGED <<mode, attempt, ctxDone, hand, ages>>

Retry ==
  /\ pc = "wait"
  /\ pc' = "fetch"
  /\ attempt' = attempt + 1
  /\ UNCHANGED <<mode, lastErr, heard, ctxDone, hand, ages>>

(* "retry wait: %w" wraps the context's error alone, not lastErr.          *)
RetryCancelled ==
  /\ pc = "wait"
  /\ ctxDone
  /\ pc' = "failed"
  /\ lastErr' = "cancelled"
  /\ UNCHANGED <<mode, attempt, heard, ctxDone, hand, ages>>

-----------------------------------------------------------------------------
(* fetchWithCache                                                          *)

\* Mutant of WriteCachedFeed: a cache that is there is not replaced.
WriteFirstFeedOnly ==
  /\ pc = "fresh"
  /\ pc' = "fed"
  /\ hand' = 0
  /\ fedAge' = 0
  /\ cacheAge' = IF cacheAge = Top THEN 0 ELSE cacheAge
  /\ UNCHANGED <<mode, attempt, lastErr, heard, ctxDone, dataAge, ready>>

(* A failed write of the cache is logged only.                             *)
WriteCachedFeed ==
  /\ pc = "fresh"
  /\ pc' = "fed"
  /\ hand' = 0
  /\ fedAge' = 0
  /\ cacheAge' \in {0} \cup (IF "cacheWrite" \in Faults THEN {cacheAge} ELSE {})
  /\ UNCHANGED <<mode, attempt, lastErr, heard, ctxDone, dataAge, ready>>

\* Mutant of IsClientError: every HTTP status is taken for a client error.
IsHTTPError(err) == err \in {"404", "429", "5xx", "5xx citing 4xx"}

(* Any HTTP error whose text, body included, has "status=4..".             *)
IsClientError(err) == err \in {"404", "429", "5xx citing 4xx"}

SurfaceClientError ==
  /\ pc = "failed"
  /\ IsClientError(lastErr)
  /\ Finish
  /\ UNCHANGED ages

\* Mutant of ReadCachedFeed: the age of the file is not looked at.
ReadAnyCachedFeed ==
  /\ pc = "failed"
  /\ ~IsClientError(lastErr)
  /\ pc' = "fed"
  /\ hand' = cacheAge
  /\ UNCHANGED <<mode, attempt, lastErr, heard, ctxDone, ages>>

ReadCachedFeed ==
  /\ pc = "failed"
  /\ ~IsClientError(lastErr)
  /\ cacheAge <= CacheMaxAge
  /\ pc' = "fed"
  /\ hand' = cacheAge
  /\ UNCHANGED <<mode, attempt, lastErr, heard, ctxDone, ages>>

(* No file, too old a file, or one that does not decode.                   *)
CacheUnusable ==
  /\ pc = "failed"
  /\ ~IsClientError(lastErr)
  /\ cacheAge > CacheMaxAge \/ "cacheRead" \in Faults
  /\ Finish
  /\ UNCHANGED ages

-----------------------------------------------------------------------------
(* The rest of run(), and the closure around it.                           *)

(* run() returned nil: writeLastSuccess, whatever the cycle was for; its   *)
(* error is logged only.                                                   *)
Succeeds ==
  /\ \/ markerAge' = 0 /\ by' = mode
     \/ "marker" \in Faults /\ UNCHANGED ready
  /\ Finish

Fails ==
  /\ Finish
  /\ UNCHANGED ready

(* loadExtras, before any of the modes parts from the others.              *)
ExtrasFail ==
  /\ pc = "fed"
  /\ "apply" \in Faults
  /\ Fails
  /\ UNCHANGED <<feeds, dataAge>>

(* A dry run, or runTarget without an error: no nft set is touched.        *)
EndsWithoutNft ==
  /\ pc = "fed"
  /\ mode \in {"dryRun", "target"}
  /\ Succeeds
  /\ UNCHANGED <<feeds, dataAge>>

(* runTarget fails: a file to write, or the router.                        *)
TargetFails ==
  /\ pc = "fed"
  /\ mode = "target"
  /\ "apply" \in Faults \/ ctxDone
  /\ Fails
  /\ UNCHANGED <<feeds, dataAge>>

NftSkipped ==
  /\ pc = "fed"
  /\ mode = "noNft"
  /\ pc' = "frr"
  /\ UNCHANGED <<cycle, ages>>

(* applyNft; a command is not started under a done context.                *)
NftApplied ==
  /\ pc = "fed"
  /\ mode = "apply"
  /\ ~ctxDone
  /\ pc' = "frr"
  /\ dataAge' = hand
  /\ UNCHANGED <<cycle, feeds, ready>>

(* Refused, or killed: before or after the transaction.                    *)
NftFails ==
  /\ pc = "fed"
  /\ mode = "apply"
  /\ "apply" \in Faults \/ ctxDone
  /\ dataAge' \in {dataAge, hand}
  /\ Fails
  /\ UNCHANGED feeds

(* The FRR part: skipped, written only, or reloaded.  What is skipped and  *)
(* what is only written does not look at the context.                      *)
FRRSucceeds ==
  /\ pc = "frr"
  /\ Succeeds
  /\ UNCHANGED <<feeds, dataAge>>

FRRFails ==
  /\ pc = "frr"
  /\ "apply" \in Faults \/ ctxDone
  /\ Fails
  /\ UNCHANGED <<feeds, dataAge>>

Next ==
  \/ TimePasses \/ Cancel \/ StartCycle
  \/ FetchSucceeds \/ FetchFails \/ Retry \/ RetryCancelled
  \/ WriteCachedFeed \/ SurfaceClientError \/ ReadCachedFeed \/ CacheUnusable
  \/ ExtrasFail \/ EndsWithoutNft \/ TargetFails
  \/ NftSkipped \/ NftApplied \/ NftFails \/ FRRSucceeds \/ FRRFails

Spec == Init /\ [][Next]_vars

-----------------------------------------------------------------------------
(* Properties.                                                             *)

(* lastSuccessAge against ReadyMaxAge: what /ready answers 200 to.         *)
Ready == markerAge <= ReadyMaxAge

(* The nft sets of a ready host whose marker an applying cycle wrote hold  *)
(* data no older than the two maximum ages together: the cache may be      *)
(* CacheMaxAge old when a cycle falls back to it, that cycle counts as a   *)
(* success, and its marker stays fresh for ReadyMaxAge.  Neither limit     *)
(* alone bounds the age.  Failed and cancelled cycles in between, and      *)
(* cycles of other modes, do not weaken the bound; but a marker that a dry *)
(* run, --nft=false or another target wrote vouches for nothing (see       *)
(* AnyReadyBoundsAge), and neither says what FRR was given.                *)
ReadyBoundsAge ==
  Ready /\ by = "apply" => dataAge <= CacheMaxAge + ReadyMaxAge

(* The same of every ready host.  A dry run breaks it: run() returns nil,  *)
(* and the marker is "written after each successful run".                  *)
AnyReadyBoundsAge == Ready => dataAge <= CacheMaxAge + ReadyMaxAge

(* The nft sets never get older data than they have: a fallback brings     *)
(* back the last feed that was fetched, not an earlier one.  It needs that *)
(* the cache write, whose failure is only logged, does not fail.           *)
NeverGoesBack == [][dataAge' > dataAge => pc' = pc]_vars

(* The fetch failed with one of these errors and took the cycle with it,   *)
(* although the cache was young enough.                                    *)
Lost(errors) ==
  pc = "failed" /\ pc' = "idle" /\ lastErr \in errors
  /\ cacheAge <= CacheMaxAge

(* What the code takes for a client error: a 4xx, and a server error whose *)
(* body has such a text.                                                   *)
SeemsClientError == lastErr \in {"404", "429", "5xx citing 4xx"}

(* A cycle whose fetch failed goes on with the newest feed that any cycle  *)
(* ever got, exactly as long as that feed is within CacheMaxAge, whatever  *)
(* the attempts of this cycle and the fate of the cycles since then were;  *)
(* it ends for lack of a feed only when there is none so young, or when    *)
(* the last attempt was answered by what seems a client error (see         *)
(* ServerErrorFallsBack for the server error among these).                 *)
OutageBridged ==
  [][pc = "failed" /\ pc' # "failed" =>
       IF pc' = "fed" THEN hand' = fedAge /\ fedAge <= CacheMaxAge
       ELSE fedAge > CacheMaxAge \/ SeemsClientError]_vars

(* 503 and 429 are transient, and do not cost a cycle.                     *)
RateLimitFallsBack == [][~Lost({"429"})]_vars

(* Every error that is not a 4xx is eligible for the cache.                *)
ServerErrorFallsBack == [][~Lost({"5xx", "5xx citing 4xx"})]_vars

(* A client error is surfaced, not masked by the cache.                    *)
ClientErrorSurfaces ==
  [][pc = "failed" /\ pc' = "fed" => heard \notin {"404", "429"}]_vars

(* "RIPE Stat unreachable.  Run exits with code 1."                        *)
UnreachableFails == [][~(pc = "failed" /\ lastErr = "net" /\ pc' = "fed")]_vars
=============================================================================
