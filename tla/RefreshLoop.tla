---------------------------- MODULE RefreshLoop ----------------------------
(***************************************************************************)
(* refreshLoop of refresh.go: the goroutine that selects between the ticks *)
(* of a time.Ticker and the end of its context, the goroutines it          *)
(* dispatches, the mutex they try, and the WaitGroup it drains.            *)
(*                                                                         *)
(* A cycle is seen here as the sequence of the external calls it makes,    *)
(* each of which may hang; what the calls do is in module RunCycle.        *)
(***************************************************************************)
CONSTANTS
  Worker,     \* bound: the runOnce goroutines alive at one time
  MayHang     \* the external calls that may never answer

\* Those of run(), and of a session of iosxe_ssh.go (the save's is another one
\* of the same kind).
Call == {"fetch", "nft", "check", "reload", "resync", "dial", "setup", "shell"}

ASSUME WorkerAssumption  == Worker # {}
ASSUME MayHangAssumption == MayHang \subseteq Call

VARIABLES
  oneshot,    \* the interval is 0
  target,     \* --target: "frr", or "iosxe" in apply mode
  loop,       \* where refreshLoop is
  ctxDone,    \* its context is done
  tick,       \* the ticker's channel, which buffers one tick
  mu,         \* the goroutine that holds the mutex, or Free
  st,         \* what each goroutine is doing: "none" when there is none
  hung        \* the call it is in will not answer

flags == <<oneshot, target>>
vars == <<flags, loop, ctxDone, tick, mu, st, hung>>

\* Nobody: the mutex is held by the set of its holders.
Free == {}

TypeOK ==
  /\ oneshot \in BOOLEAN
  /\ target \in {"frr", "iosxe"}
  /\ loop \in {"start", "oneshot", "select", "drain", "returned"}
  /\ ctxDone \in BOOLEAN
  /\ tick \in BOOLEAN
  /\ mu \in SUBSET Worker
  /\ st \in [Worker -> Call \cup {"none", "spawned", "unlock"}]
  /\ hung \in [Worker -> BOOLEAN]
  /\ tick => loop \in {"select", "drain"}
  /\ \A w \in Worker : hung[w] => st[w] \in MayHang

Init ==
  /\ oneshot \in BOOLEAN
  /\ target \in {"frr", "iosxe"}
  /\ loop = "start"
  /\ ctxDone = FALSE
  /\ tick = FALSE
  /\ mu = Free
  /\ st = [w \in Worker |-> "none"]
  /\ hung = [w \in Worker |-> FALSE]

-----------------------------------------------------------------------------
(* The loop.                                                               *)

(* wg.Go(runOnce): a goroutine that the WaitGroup counts.                  *)
Dispatch ==
  \E w \in Worker : st[w] = "none" /\ st' = [st EXCEPT ![w] = "spawned"]

LoopStarts ==
  /\ loop = "start"
  /\ loop' = IF oneshot THEN "oneshot" ELSE "select"
  /\ Dispatch
  /\ UNCHANGED <<flags, ctxDone, tick, mu, hung>>

(* interval 0: runOnce is called, and the loop returns when it does.  (The *)
(* realMain of today calls work itself in this mode, to the same effect.)  *)
OneshotReturns ==
  /\ loop = "oneshot"
  /\ \A w \in Worker : st[w] = "none"
  /\ loop' = "returned"
  /\ UNCHANGED <<flags, ctxDone, tick, mu, st, hung>>

(* With a tick waiting and the context done, select picks either.          *)
SelectTick ==
  /\ loop = "select"
  /\ tick
  /\ tick' = FALSE
  /\ Dispatch
  /\ UNCHANGED <<flags, loop, ctxDone, mu, hung>>

SelectDone ==
  /\ loop = "select"
  /\ ctxDone
  /\ loop' = "drain"
  /\ UNCHANGED <<flags, ctxDone, tick, mu, st, hung>>

\* Mutant of Drained: no wg.Wait().
DrainedAtOnce ==
  /\ loop = "drain"
  /\ loop' = "returned"
  /\ tick' = FALSE
  /\ UNCHANGED <<flags, ctxDone, mu, st, hung>>

\* Mutant of Drained: the ticker is not stopped.
DrainedTicking ==
  /\ loop = "drain"
  /\ \A w \in Worker : st[w] = "none"
  /\ loop' = "returned"
  /\ UNCHANGED <<flags, ctxDone, tick, mu, st, hung>>

(* wg.Wait(), then the deferred stop of the ticker.                        *)
Drained ==
  /\ loop = "drain"
  /\ \A w \in Worker : st[w] = "none"
  /\ loop' = "returned"
  /\ tick' = FALSE
  /\ UNCHANGED <<flags, ctxDone, mu, st, hung>>

-----------------------------------------------------------------------------
(* A goroutine: runOnce.                                                   *)

(* It enters the call f, which answers or hangs.                           *)
Enter(w, f) ==
  /\ st' = [st EXCEPT ![w] = f]
  /\ \E h \in BOOLEAN : (h => f \in MayHang) /\ hung' = [hung EXCEPT ![w] = h]

\* Mutant of TryLock: its result is ignored.
TryLockIgnored(w) ==
  /\ st[w] = "spawned"
  /\ mu' = mu \cup {w}
  /\ Enter(w, "fetch")
  /\ UNCHANGED <<flags, loop, ctxDone, tick>>

TryLock(w) ==
  /\ st[w] = "spawned"
  /\ mu = Free
  /\ mu' = mu \cup {w}
  /\ Enter(w, "fetch")
  /\ UNCHANGED <<flags, loop, ctxDone, tick>>

(* The mutex is taken: the tick is counted as skipped and dropped.         *)
SkipOverlap(w) ==
  /\ st[w] = "spawned"
  /\ mu # Free
  /\ st' = [st EXCEPT ![w] = "none"]
  /\ UNCHANGED <<flags, loop, ctxDone, tick, mu, hung>>

(* The calls that run under a deadline of their own: http.Client.Timeout,  *)
(* nftTimeout, frrReloadTimeout, iosxeSSHTimeout.  vtysh -C has only the   *)
(* loop's context, and from the handshake to the shell of an SSH session   *)
(* nothing is looked at.                                                   *)
Bounded == {"fetch", "nft", "reload", "resync", "dial", "shell"}

\* Mutant of Answers: the programs are started without the loop's context.
AnswersWithoutContext(w) ==
  /\ st[w] \in Call
  /\ ~hung[w] \/ st[w] \in Bounded

Answers(w) ==
  /\ st[w] \in Call
  /\ ~hung[w] \/ st[w] \in Bounded \/ (ctxDone /\ st[w] # "setup")

\* The order run() makes its calls in; the resync is the rollback's reload.
After ==
  IF target = "frr"
    THEN [fetch |-> "nft", nft |-> "check", check |-> "reload", reload |-> "resync"]
    ELSE [fetch |-> "dial", dial |-> "setup", setup |-> "shell"]

NextCall(w) ==
  /\ Answers(w)
  /\ st[w] \in DOMAIN After
  /\ Enter(w, After[st[w]])
  /\ UNCHANGED <<flags, loop, ctxDone, tick, mu>>

(* work() returns: done, nothing to do, or an error.                       *)
WorkReturns(w) ==
  /\ Answers(w)
  /\ st' = [st EXCEPT ![w] = "unlock"]
  /\ hung' = [hung EXCEPT ![w] = FALSE]
  /\ UNCHANGED <<flags, loop, ctxDone, tick, mu>>

\* Mutant of Unlock: an early return forgets the mutex.
NoUnlock(w) ==
  /\ st[w] = "unlock"
  /\ st' = [st EXCEPT ![w] = "none"]
  /\ UNCHANGED <<flags, loop, ctxDone, tick, mu, hung>>

(* The deferred Unlock, and the goroutine ends: wg counts it out.          *)
Unlock(w) ==
  /\ st[w] = "unlock"
  /\ mu' = mu \ {w}
  /\ st' = [st EXCEPT ![w] = "none"]
  /\ UNCHANGED <<flags, loop, ctxDone, tick, hung>>

-----------------------------------------------------------------------------
(* The environment.                                                        *)

(* A ticker drops a tick that finds its channel full.                      *)
Tick ==
  /\ loop \in {"select", "drain"}
  /\ tick' = TRUE
  /\ UNCHANGED <<flags, loop, ctxDone, mu, st, hung>>

\* Mutant of Cancel: the oneshot context has no deadline.
CancelDaemon ==
  /\ ~ctxDone
  /\ ~oneshot
  /\ ctxDone' = TRUE
  /\ UNCHANGED <<flags, loop, tick, mu, st, hung>>

(* SIGTERM for the daemon; the outer deadline of five minutes for oneshot. *)
Cancel ==
  /\ ~ctxDone
  /\ ctxDone' = TRUE
  /\ UNCHANGED <<flags, loop, tick, mu, st, hung>>

-----------------------------------------------------------------------------

Loop == LoopStarts \/ OneshotReturns \/ SelectTick \/ SelectDone \/ Drained

Step(w) == TryLock(w) \/ SkipOverlap(w) \/ NextCall(w) \/ WorkReturns(w)
           \/ Unlock(w)

HangsIn(calls) == \E w \in Worker : st[w] \in calls /\ hung[w]

\* The process has exited, or waits for a silent router for ever.
Done == (loop = "returned" \/ HangsIn({"setup"})) /\ UNCHANGED vars

Next == Loop \/ (\E w \in Worker : Step(w)) \/ Tick \/ Cancel \/ Done

Spec == Init /\ [][Next]_vars

(* The Go scheduler runs every goroutine; select is random, so a loop that *)
(* finds its context done at every turn takes that case; a call answers    *)
(* unless it hangs, and the ticker ticks.  In oneshot mode the outer       *)
(* deadline passes; nothing says that SIGTERM ever comes.                  *)
Fairness ==
  /\ WF_vars(LoopStarts \/ OneshotReturns \/ Drained)
  /\ WF_vars(SelectTick) /\ WF_vars(SelectDone)
  /\ \A w \in Worker : WF_vars(Step(w))
  /\ WF_vars(Tick)
  /\ WF_vars(oneshot /\ Cancel)

FairSpec == Spec /\ Fairness

-----------------------------------------------------------------------------
(* Properties.                                                             *)

Working(w) == st[w] \in Call

(* The cycles of the process never overlap, whatever the ticks do while    *)
(* one is slow (mu.TryLock in runOnce).                                    *)
OneAtATime == \A v, w \in Worker : Working(v) /\ Working(w) => v = w

(* Seen from its caller, refreshLoop runs its cycles one after another and *)
(* returns only when the last of them is over; none starts later, not even *)
(* one that was dispatched for a tick that select preferred to the end of  *)
(* the context (dispatch, TryLock and the drain together).                 *)
Serial == INSTANCE SerialCycles WITH
  running <- \E w \in Worker : Working(w),
  over    <- loop = "returned"

RunsSerially == Serial!Spec

(* A stop takes effect, whatever call hangs.                              *)
SigtermReturns == ctxDone ~> (loop = "returned")

(* Once its context is done the loop returns, even with a call that hangs  *)
(* without a deadline of its own: its context kills it (exec.CommandContext*)
(* and NewRequestWithContext get the loop's context).  The one exception   *)
(* is a router that falls silent between the connection and the shell.     *)
StopsWhenDone == SigtermReturns \/ <>[]HangsIn({"setup"})

(* While it is not told to stop, the daemon starts cycles for ever: no     *)
(* call that hangs makes every later tick a skipped one, as long as the    *)
(* calls have deadlines.                                                   *)
KeepsRefreshing ==
  <>(ctxDone \/ oneshot) \/ []<><<\E w \in Worker : TryLock(w)>>_vars

(* Of all calls that may hang, the syntax check and the SSH setup alone    *)
(* can stop the cycles of a daemon: after any other the mutex is free      *)
(* again, and a later tick starts a cycle.                                 *)
OnlyCheckStalls == KeepsRefreshing \/ <>[]HangsIn({"check", "setup"})

(* A oneshot process never hangs, whatever call does, the SSH setup apart. *)
OneshotEnds == oneshot => <>(loop = "returned") \/ <>[]HangsIn({"setup"})
=============================================================================
