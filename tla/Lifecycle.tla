----------------------------- MODULE Lifecycle -----------------------------
(***************************************************************************)
(* The processes of one country: realMain of main.go from the lock to the  *)
(* exit code, its work closure, and the two ways it goes on after a cycle  *)
(* (refresh loop, park).  What a cycle does is in RunCycle, what the loop  *)
(* does in RefreshLoop, the marker behind /ready in FeedCache.             *)
(***************************************************************************)
CONSTANTS
  Proc,     \* the processes there may be at a time: timer, manual runs
  Modes,    \* the command lines they are started with, a subset of Mode
  Faults    \* what may go wrong, a subset of Fault

\* --refresh-interval, --http-addr, and --target=iosxe with its SSH session.
Mode == [refresh : BOOLEAN, http : BOOLEAN, iosxe : BOOLEAN]

Fault == {"lock", "bind", "run", "hang", "kill"}

ASSUME ProcAssumption   == Proc # {}
ASSUME ModesAssumption  == Modes \subseteq Mode /\ Modes # {}
ASSUME FaultsAssumption == Faults \subseteq Fault

VARIABLES
  pc,         \* where each process is
  mode,       \* its command line
  lock,       \* the processes that hold the flock of the lock file
  term,       \* it has caught SIGTERM
  lastRunOK,  \* the success bit of its last cycle
  hung,       \* its cycle waits for a call that does not return by itself
  code        \* how its last incarnation ended

vars == <<pc, mode, lock, term, lastRunOK, hung, code>>

Stage == {"off", "lock", "bind", "work", "loop", "park", "shutdown", "exit"}

TypeOK ==
  /\ pc \in [Proc -> Stage]
  /\ mode \in [Proc -> Modes]
  /\ lock \in SUBSET Proc
  /\ term \in [Proc -> BOOLEAN]
  /\ lastRunOK \in [Proc -> BOOLEAN]
  /\ hung \in [Proc -> BOOLEAN]
  /\ code \in [Proc -> {"none", "0", "1", "killed"}]
  /\ \A p \in Proc :
       /\ pc[p] \in {"bind", "park", "shutdown"} => mode[p].http
       /\ pc[p] = "loop" => mode[p].refresh
       /\ hung[p] => pc[p] = "work"

Init ==
  /\ pc = [p \in Proc |-> "off"]
  /\ mode \in [Proc -> Modes]
  /\ lock = {}
  /\ term = [p \in Proc |-> FALSE]
  /\ lastRunOK = [p \in Proc |-> FALSE]
  /\ hung = [p \in Proc |-> FALSE]
  /\ code = [p \in Proc |-> "none"]

-----------------------------------------------------------------------------

Goto(p, from, to) == pc[p] = from /\ pc' = [pc EXCEPT ![p] = to]

\* Mutant of Exit: a lock file that exists, instead of a flock, is the lock.
ExitKeepsLock(p, how) ==
  /\ pc' = [pc EXCEPT ![p] = "off"]
  /\ code' = [code EXCEPT ![p] = how]
  /\ term' = [term EXCEPT ![p] = FALSE]
  /\ lastRunOK' = [lastRunOK EXCEPT ![p] = FALSE]
  /\ hung' = [hung EXCEPT ![p] = FALSE]
  /\ UNCHANGED <<mode, lock>>

(* The process is gone: the kernel closes its files, and with them the     *)
(* flock (realMain defers the Close, too).                                 *)
Exit(p, how) ==
  /\ pc' = [pc EXCEPT ![p] = "off"]
  /\ code' = [code EXCEPT ![p] = how]
  /\ lock' = lock \ {p}
  /\ term' = [term EXCEPT ![p] = FALSE]
  /\ lastRunOK' = [lastRunOK EXCEPT ![p] = FALSE]
  /\ hung' = [hung EXCEPT ![p] = FALSE]
  /\ UNCHANGED mode

(* The timer fires, or an operator starts georoute by hand.                *)
Start(p) ==
  /\ Goto(p, "off", "lock")
  /\ \E m \in Modes : mode' = [mode EXCEPT ![p] = m]
  /\ code' = [code EXCEPT ![p] = "none"]
  /\ UNCHANGED <<lock, term, lastRunOK, hung>>

\* Mutant of AcquireLock: LOCK_SH instead of LOCK_EX.
AcquireShared(p) ==
  /\ Goto(p, "lock", IF mode[p].http THEN "bind" ELSE "work")
  /\ lock' = lock \cup {p}
  /\ UNCHANGED <<mode, term, lastRunOK, hung, code>>

(* acquireLock: LOCK_EX | LOCK_NB.                                         *)
AcquireLock(p) ==
  /\ lock = {}
  /\ Goto(p, "lock", IF mode[p].http THEN "bind" ELSE "work")
  /\ lock' = lock \cup {p}
  /\ UNCHANGED <<mode, term, lastRunOK, hung, code>>

LockBusy(p) ==
  /\ pc[p] = "lock"
  /\ lock # {} \/ "lock" \in Faults
  /\ Exit(p, "1")

(* preBind before any work, then the server's goroutine.                   *)
PreBind(p) ==
  /\ Goto(p, "bind", "work")
  /\ UNCHANGED <<mode, lock, term, lastRunOK, hung, code>>

BindFails(p) ==
  /\ pc[p] = "bind"
  /\ "bind" \in Faults
  /\ Exit(p, "1")

-----------------------------------------------------------------------------
(* work(): the closure around run().                                       *)

\* Mutant of AfterCycle: every oneshot process parks, with no server too.
AfterCycleParks(m) == IF m.refresh THEN "loop" ELSE "park"

\* A refresh interval makes a daemon; else the server makes it park.
AfterCycle(m) ==
  IF m.refresh THEN "loop" ELSE IF m.http THEN "park" ELSE "exit"

(* Two calls have no limit of their own: vtysh -C, which only the end of   *)
(* the context kills, and the SSH setup, which does not look at it.        *)
(* Neither is begun under a context that is done.                          *)
Hangs(p) ==
  /\ "hang" \in Faults
  /\ pc[p] = "work"
  /\ ~hung[p] /\ ~term[p]
  /\ hung' = [hung EXCEPT ![p] = TRUE]
  /\ UNCHANGED <<pc, mode, lock, term, lastRunOK, code>>

\* The context ends by SIGTERM in a daemon, after five minutes in a oneshot
\* process.
Stuck(p) == hung[p] /\ (mode[p].iosxe \/ (mode[p].refresh /\ ~term[p]))

CycleSucceeds(p) ==
  /\ Goto(p, "work", AfterCycle(mode[p]))
  /\ ~hung[p]
  /\ lastRunOK' = [lastRunOK EXCEPT ![p] = TRUE]
  /\ UNCHANGED <<mode, lock, term, hung, code>>

CycleFails(p) ==
  /\ Goto(p, "work", AfterCycle(mode[p]))
  /\ "run" \in Faults \/ term[p] \/ hung[p]
  /\ ~Stuck(p)
  /\ lastRunOK' = [lastRunOK EXCEPT ![p] = FALSE]
  /\ hung' = [hung EXCEPT ![p] = FALSE]
  /\ UNCHANGED <<mode, lock, term, code>>

-----------------------------------------------------------------------------
(* What comes after.                                                       *)

(* A tick, also one that select prefers to the end of its context.         *)
Tick(p) ==
  /\ Goto(p, "loop", "work")
  /\ UNCHANGED <<mode, lock, term, lastRunOK, hung, code>>

\* Mutant of Released: a parked process waits for no signal.
ReleasedLoopOnly(p) ==
  /\ pc[p] = "loop"
  /\ term[p]
  /\ pc' = [pc EXCEPT ![p] = IF mode[p].http THEN "shutdown" ELSE "exit"]
  /\ UNCHANGED <<mode, lock, term, lastRunOK, hung, code>>

(* The loop has drained, or the parked process is released.                *)
Released(p) ==
  /\ \/ pc[p] = "loop"
     \/ pc[p] = "park"
  /\ term[p]
  /\ pc' = [pc EXCEPT ![p] = IF mode[p].http THEN "shutdown" ELSE "exit"]
  /\ UNCHANGED <<mode, lock, term, lastRunOK, hung, code>>

(* hs.shutdown(): the listener is closed while the lock is still held.     *)
Shutdown(p) ==
  /\ Goto(p, "shutdown", "exit")
  /\ UNCHANGED <<mode, lock, term, lastRunOK, hung, code>>

(* A daemon exits 0 whatever its cycles did.                               *)
Return(p) ==
  /\ pc[p] = "exit"
  /\ Exit(p, IF mode[p].refresh \/ lastRunOK[p] THEN "0" ELSE "1")

\* SIGTERM is caught by the loop's NotifyContext and by parkContext only.
Catches(p) ==
  \/ pc[p] = "park"
  \/ mode[p].refresh /\ pc[p] \in {"work", "loop"}

Sigterm(p) ==
  /\ Catches(p)
  /\ term' = [term EXCEPT ![p] = TRUE]
  /\ UNCHANGED <<pc, mode, lock, lastRunOK, hung, code>>

(* SIGTERM where nothing catches it, SIGKILL, a panic, a reset.            *)
Killed(p) ==
  /\ "kill" \in Faults
  /\ pc[p] # "off"
  /\ Exit(p, "killed")

-----------------------------------------------------------------------------

Proceed(p) ==
  \/ AcquireLock(p) \/ LockBusy(p) \/ PreBind(p) \/ BindFails(p)
  \/ CycleSucceeds(p) \/ CycleFails(p)
  \/ Released(p) \/ Shutdown(p) \/ Return(p)

Next ==
  \E p \in Proc :
    Start(p) \/ Proceed(p) \/ Hangs(p) \/ Tick(p) \/ Sigterm(p) \/ Killed(p)

Spec == Init /\ [][Next]_vars

(* A process goes on by itself, unless it hangs in a call (module          *)
(* RefreshLoop: all other calls end), ticks come, and the timer starts a   *)
(* process that is not running.  Nothing says that anybody sends SIGTERM.  *)
(* select, offered a tick and the end of its context again and again,      *)
(* takes each of them again and again.                                     *)
Fairness ==
  \A p \in Proc : /\ WF_vars(Proceed(p)) /\ WF_vars(Start(p)) /\ WF_vars(Tick(p))
                  /\ SF_vars(Released(p))

FairSpec == Spec /\ Fairness

-----------------------------------------------------------------------------
(* Properties.                                                             *)

Running(p) == pc[p] \notin {"off", "lock"}

(* Of all processes of the country, whatever started them, at most one is  *)
(* past acquireLock, so that their cycles never overlap (RunCycle takes    *)
(* this for granted).                                                      *)
OneRuns == \A p, q \in Proc : Running(p) /\ Running(q) => p = q

(* A process that catches SIGTERM ends and lets the lock go, also from     *)
(* a cycle that hangs; the exception is one that hangs in the SSH setup.   *)
SigtermEnds ==
  \A p \in Proc :
    term[p] ~> \/ pc[p] = "off" /\ p \notin lock
               \/ mode[p].iosxe /\ hung[p]

(* Cycles are run for ever: no process that exits, fails to bind or fails  *)
(* its cycle leaves the lock behind for the next one.                      *)
CyclesGoOn == []<><<\E p \in Proc : CycleSucceeds(p) \/ CycleFails(p)>>_vars

(* A process whose start, or whose run, goes wrong.                        *)
Mishap(p) == BindFails(p) \/ Killed(p) \/ (lock = {} /\ LockBusy(p))

(* Unless there are such mishaps for ever, nothing but a parked process,   *)
(* or one stuck in a call without a limit (vtysh -C in a daemon, the SSH   *)
(* setup in any process), can keep the others from running cycles:         *)
(* whatever else ends a process, and however, frees the lock.              *)
OnlyParkedOrStuck ==
  \/ CyclesGoOn
  \/ []<><<\E p \in Proc : Mishap(p)>>_vars
  \/ <>[](\E p \in Proc : pc[p] = "park" \/ Stuck(p))

(* Cycles are run for ever unless a process parks: stuck ones break it.    *)
OnlyParkingStops ==
  \/ CyclesGoOn
  \/ []<><<\E p \in Proc : Mishap(p)>>_vars
  \/ <>[](\E p \in Proc : pc[p] = "park")
=============================================================================
