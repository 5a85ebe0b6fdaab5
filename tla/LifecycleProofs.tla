--------------------------- MODULE LifecycleProofs ---------------------------
(* Of all processes of a country at most one is past the lock, for any set *)
(* of processes, command lines and faults (TLAPS).                         *)
EXTENDS Lifecycle, TLAPS

(* Who runs holds the lock, and the lock has at most one holder.  The      *)
(* second half is inductive because AcquireLock needs a free lock, the     *)
(* first because a process only leaves the lock behind when it is off.     *)
LockInv ==
  /\ pc \in [Proc -> Stage]
  /\ lock \subseteq Proc
  /\ \A p \in Proc : Running(p) => p \in lock
  /\ \A p, q \in lock : p = q

(* An exit, of whatever kind, keeps LockInv: the holder is off before the  *)
(* lock is free (the deferred Close of realMain, or the kernel).           *)
LEMMA ExitKeeps ==
  ASSUME LockInv, NEW p \in Proc, NEW how, Exit(p, how)
  PROVE  LockInv'
<1>1. pc' \in [Proc -> Stage] /\ lock' \subseteq Proc
  BY DEF LockInv, Exit, Stage
<1>2. \A q \in Proc : Running(q)' => q \in lock'
  <2> SUFFICES ASSUME NEW q \in Proc, Running(q)' PROVE q \in lock'
    OBVIOUS
  <2>1. q # p
    BY DEF Running, Exit, LockInv
  <2>2. Running(q)
    BY <2>1 DEF Running, Exit, LockInv
  <2> QED
    BY <2>1, <2>2 DEF LockInv, Exit
<1>3. \A r, q \in lock' : r = q
  BY DEF LockInv, Exit
<1> QED
  BY <1>1, <1>2, <1>3 DEF LockInv

(* A step that moves a process which holds the lock already, or that does  *)
(* not make it run, keeps LockInv when it leaves the lock alone.           *)
LEMMA MoveKeeps ==
  ASSUME LockInv, NEW p \in Proc, NEW to \in Stage,
         pc' = [pc EXCEPT ![p] = to], UNCHANGED lock,
         p \in lock \/ to \in {"off", "lock"}
  PROVE  LockInv'
<1>1. pc' \in [Proc -> Stage] /\ lock' \subseteq Proc
  BY DEF LockInv
<1>2. \A q \in Proc : Running(q)' => q \in lock'
  BY DEF LockInv, Running
<1> QED
  BY <1>1, <1>2 DEF LockInv

(* Every step keeps LockInv.                                               *)
LEMMA LockStep == ASSUME LockInv, [Next]_vars PROVE LockInv'
<1>1. CASE UNCHANGED vars
  BY <1>1 DEF vars, LockInv, Running
<1>2. ASSUME NEW p \in Proc, Hangs(p) PROVE LockInv'
  BY <1>2 DEF Hangs, LockInv, Running
<1>3. ASSUME NEW p \in Proc, Start(p) PROVE LockInv'
  BY <1>3, MoveKeeps DEF Start, Goto, Stage
<1>4. ASSUME NEW p \in Proc, AcquireLock(p) PROVE LockInv'
  <2>1. pc' \in [Proc -> Stage] /\ lock' = {p}
    BY <1>4 DEF AcquireLock, Goto, LockInv, Stage
  <2>2. \A q \in Proc : Running(q)' => q \in lock'
    BY <1>4, <2>1 DEF AcquireLock, Goto, LockInv, Running
  <2> QED
    BY <2>1, <2>2 DEF LockInv
<1>5. ASSUME NEW p \in Proc, NEW from \in Stage \ {"off", "lock"},
             NEW to \in Stage, Goto(p, from, to), UNCHANGED lock
      PROVE  LockInv'
  <2>1. p \in lock
    BY <1>5 DEF Goto, LockInv, Running
  <2> QED
    BY <1>5, <2>1, MoveKeeps DEF Goto
<1>6. ASSUME NEW p \in Proc, PreBind(p) \/ Tick(p) \/ Shutdown(p)
      PROVE  LockInv'
  BY <1>5, <1>6 DEF PreBind, Tick, Shutdown, Stage
<1>7. ASSUME NEW p \in Proc, CycleSucceeds(p) \/ CycleFails(p) PROVE LockInv'
  <2>1. AfterCycle(mode[p]) \in Stage
    BY DEF AfterCycle, Stage
  <2> QED
    BY <1>5, <1>7, <2>1 DEF CycleSucceeds, CycleFails, Stage
<1>8. ASSUME NEW p \in Proc, Released(p) PROVE LockInv'
  <2> DEFINE to == IF mode[p].http THEN "shutdown" ELSE "exit"
  <2>1. to \in Stage /\ pc' = [pc EXCEPT ![p] = to] /\ UNCHANGED lock
    BY <1>8 DEF Released, Stage
  <2>2. p \in lock
    BY <1>8 DEF Released, LockInv, Running
  <2> QED
    BY <2>1, <2>2, MoveKeeps
<1>9. ASSUME NEW p \in Proc,
             LockBusy(p) \/ BindFails(p) \/ Return(p) \/ Killed(p)
      PROVE  LockInv'
  BY <1>9, ExitKeeps DEF LockBusy, BindFails, Return, Killed
<1>10. ASSUME NEW p \in Proc, Sigterm(p) PROVE LockInv'
  BY <1>10 DEF Sigterm, LockInv, Running
<1> QED
  BY <1>1, <1>2, <1>3, <1>4, <1>6, <1>7, <1>8, <1>9, <1>10 DEF Next, Proceed

(* Two cycles of one country never overlap, whatever starts, fails, parks  *)
(* or is killed (acquireLock, main.go).                                    *)
THEOREM OneProcessRuns == Spec => []OneRuns
<1>1. Init => LockInv
  BY DEF Init, LockInv, Running, Stage
<1>2. LockInv => OneRuns
  BY DEF LockInv, OneRuns
<1>3. LockInv /\ [Next]_vars => LockInv'
  BY LockStep
<1> QED
  BY <1>1, <1>2, <1>3, PTL DEF Spec

-----------------------------------------------------------------------------
(* The stages a command line cannot lead to, and where a process hangs.    *)
Stages ==
  \A p \in Proc :
    /\ pc[p] \in {"bind", "park", "shutdown"} => mode[p].http
    /\ pc[p] = "loop" => mode[p].refresh
    /\ hung[p] => pc[p] = "work"

Types ==
  /\ pc \in [Proc -> Stage]
  /\ mode \in [Proc -> Modes]
  /\ lock \in SUBSET Proc
  /\ term \in [Proc -> BOOLEAN]
  /\ lastRunOK \in [Proc -> BOOLEAN]
  /\ hung \in [Proc -> BOOLEAN]
  /\ code \in [Proc -> {"none", "0", "1", "killed"}]

LEMMA TypeParts == TypeOK <=> Types /\ Stages
BY DEF TypeOK, Types, Stages

(* A step of one process to a stage that its command line leads to, from   *)
(* which it may hang only if it works, keeps Stages.                       *)
LEMMA StageKeeps ==
  ASSUME Types, Stages, NEW p \in Proc, NEW to \in Stage,
         pc' = [pc EXCEPT ![p] = to], UNCHANGED mode,
         hung' = hung \/ hung' = [hung EXCEPT ![p] = FALSE],
         to \in {"bind", "park", "shutdown"} => mode[p].http,
         to = "loop" => mode[p].refresh,
         to # "work" => ~hung'[p]
  PROVE  Stages'
<1> SUFFICES ASSUME NEW q \in Proc
             PROVE  /\ pc'[q] \in {"bind", "park", "shutdown"} => mode[q].http
                    /\ pc'[q] = "loop" => mode[q].refresh
                    /\ hung'[q] => pc'[q] = "work"
  BY DEF Stages
<1>1. CASE q = p
  BY <1>1 DEF Types
<1>2. CASE q # p
  <2>1. pc'[q] = pc[q]
    BY <1>2 DEF Types
  <2>2. hung'[q] => hung[q]
    BY <1>2 DEF Types
  <2> QED
    BY <2>1, <2>2 DEF Stages
<1> QED
  BY <1>1, <1>2

(* A process that is not at work does not hang.                            *)
LEMMA Awake ==
  ASSUME Stages, NEW p \in Proc, pc[p] # "work"
  PROVE  ~hung[p]
BY DEF Stages

LEMMA ExitType ==
  ASSUME Types, Stages, NEW p \in Proc, NEW how \in {"0", "1", "killed"}, Exit(p, how)
  PROVE  Types' /\ Stages'
<1>1. Types'
  BY DEF Types, Exit, Stage
<1>2. ~hung'[p]
  BY DEF Types, Exit
<1>3. "off" \in Stage
  BY DEF Stage
<1>4. Stages'
  BY <1>2, <1>3, StageKeeps DEF Exit
<1> QED
  BY <1>1, <1>4

(* Every step keeps the types and the stages.                              *)
LEMMA TypeStep == ASSUME Types, Stages, [Next]_vars PROVE Types' /\ Stages'
<1>1. CASE UNCHANGED vars
  BY <1>1 DEF vars, Types, Stages
<1>2. ASSUME NEW p \in Proc, Hangs(p) PROVE Types' /\ Stages'
  <2>1. Types'
    BY <1>2 DEF Hangs, Types
  <2>2. ASSUME NEW q \in Proc, hung'[q] PROVE pc[q] = "work"
    BY <1>2, <2>2 DEF Hangs, Types, Stages
  <2> QED
    BY <1>2, <2>1, <2>2 DEF Hangs, Stages
<1>3. ASSUME NEW p \in Proc, Start(p) PROVE Types' /\ Stages'
  <2>1. Types'
    BY <1>3 DEF Start, Goto, Types, Stage
  <2>2. ASSUME NEW q \in Proc
        PROVE  /\ pc'[q] \in {"bind", "park", "shutdown"} => mode'[q].http
               /\ pc'[q] = "loop" => mode'[q].refresh
               /\ hung'[q] => pc'[q] = "work"
    <3>1. CASE q = p
      <4>1. pc'[q] = "lock" /\ hung'[q] = hung[q]
        BY <1>3, <3>1 DEF Start, Goto, Types
      <4>2. ~hung[q]
        BY <1>3, <3>1, Awake DEF Start, Goto
      <4> QED
        BY <4>1, <4>2
    <3>2. CASE q # p
      <4>1. pc'[q] = pc[q] /\ mode'[q] = mode[q] /\ hung'[q] = hung[q]
        BY <1>3, <3>2 DEF Start, Goto, Types
      <4> QED
        BY <4>1 DEF Stages
    <3> QED
      BY <3>1, <3>2
  <2> QED
    BY <2>1, <2>2 DEF Stages
<1>4. ASSUME NEW p \in Proc, AcquireLock(p) PROVE Types' /\ Stages'
  <2> DEFINE to == IF mode[p].http THEN "bind" ELSE "work"
  <2>1. to \in Stage /\ (to = "bind" => mode[p].http) /\ to \in {"bind", "work"}
    BY DEF Stage
  <2>2. pc[p] = "lock" /\ pc' = [pc EXCEPT ![p] = to] /\ UNCHANGED <<mode, hung>>
    BY <1>4 DEF AcquireLock, Goto
  <2>3. Types'
    BY <1>4, <2>1, <2>2 DEF AcquireLock, Types
  <2>4. ~hung'[p]
    BY <2>2, Awake
  <2> HIDE DEF to
  <2> QED
    BY <2>1, <2>2, <2>3, <2>4, StageKeeps
<1>5. ASSUME NEW p \in Proc, PreBind(p) \/ Tick(p) \/ Shutdown(p)
      PROVE  Types' /\ Stages'
  <2>1. PICK to \in {"work", "exit"} :
          pc' = [pc EXCEPT ![p] = to] /\ pc[p] # "work" /\ UNCHANGED <<mode, hung>>
    BY <1>5 DEF PreBind, Tick, Shutdown, Goto
  <2>2. Types'
    BY <1>5 DEF PreBind, Tick, Shutdown, Goto, Types, Stage
  <2>3. ~hung'[p] /\ to \in Stage
    BY <2>1, Awake DEF Stage
  <2> QED
    BY <2>1, <2>2, <2>3, StageKeeps
<1>6. ASSUME NEW p \in Proc, CycleSucceeds(p) \/ CycleFails(p)
      PROVE  Types' /\ Stages'
  <2> DEFINE to == AfterCycle(mode[p])
  <2>1. /\ to \in Stage /\ to \notin {"bind", "shutdown", "work"}
        /\ to = "park" => mode[p].http
        /\ to = "loop" => mode[p].refresh
    BY DEF AfterCycle, Stage
  <2>2. pc' = [pc EXCEPT ![p] = to] /\ UNCHANGED mode
    BY <1>6 DEF CycleSucceeds, CycleFails, Goto
  <2>3. /\ hung' = hung \/ hung' = [hung EXCEPT ![p] = FALSE]
        /\ ~hung'[p]
    BY <1>6 DEF CycleSucceeds, CycleFails, Types
  <2> HIDE DEF to
  <2>4. Types'
    BY <1>6, <2>1, <2>2 DEF CycleSucceeds, CycleFails, Types
  <2> QED
    BY <2>1, <2>2, <2>3, <2>4, StageKeeps
<1>7. ASSUME NEW p \in Proc, Released(p) PROVE Types' /\ Stages'
  <2> DEFINE to == IF mode[p].http THEN "shutdown" ELSE "exit"
  <2>1. to \in Stage /\ to \in {"shutdown", "exit"} /\ (to = "shutdown" => mode[p].http)
    BY DEF Stage
  <2>2. /\ pc[p] # "work" /\ pc' = [pc EXCEPT ![p] = to]
        /\ UNCHANGED <<mode, hung>>
    BY <1>7 DEF Released
  <2>3. ~hung'[p]
    BY <2>2, Awake
  <2> HIDE DEF to
  <2>4. Types'
    BY <1>7, <2>1, <2>2 DEF Released, Types
  <2> QED
    BY <2>1, <2>2, <2>3, <2>4, StageKeeps
<1>8. ASSUME NEW p \in Proc,
             LockBusy(p) \/ BindFails(p) \/ Return(p) \/ Killed(p)
      PROVE  Types' /\ Stages'
  BY <1>8, ExitType DEF LockBusy, BindFails, Return, Killed
<1>9. ASSUME NEW p \in Proc, Sigterm(p) PROVE Types' /\ Stages'
  BY <1>9 DEF Sigterm, Types, Stages
<1> QED
  BY <1>1, <1>2, <1>3, <1>4, <1>5, <1>6, <1>7, <1>8, <1>9 DEF Next, Proceed

(* A process is only in those stages of realMain that its command line     *)
(* leads to: only a daemon loops, only one with a server parks, and only a *)
(* cycle hangs; the lock is held by processes only.                        *)
THEOREM TypeCorrect == Spec => []TypeOK
<1>1. Init => Types /\ Stages
  BY DEF Init, Types, Stages, Stage
<1>2. Types /\ Stages /\ [Next]_vars => (Types /\ Stages)'
  BY TypeStep
<1> QED
  BY <1>1, <1>2, TypeParts, PTL DEF Spec
=============================================================================
