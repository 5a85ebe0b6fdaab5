------------------------ MODULE RefreshLoopProofs ------------------------
(***************************************************************************)
(* Theorems about RefreshLoop, for any number of goroutines and any calls  *)
(* that hang.                                                              *)
(***************************************************************************)
EXTENDS RefreshLoop, TLAPS

(* Between Lock and Unlock a goroutine is the one holder of the mutex; a   *)
(* loop that has not started or has returned has no goroutine.             *)
Holds(w) == st[w] \in Call \cup {"unlock"}

LoopInv ==
  /\ TypeOK
  /\ \A w \in Worker : Holds(w) <=> w \in mu
  /\ \A v, w \in mu : v = w
  /\ loop \in {"start", "returned"} => \A w \in Worker : st[w] = "none"

(* The type of a goroutine that enters a call.                             *)
LEMMA EnterType ==
  ASSUME TypeOK, NEW w \in Worker, NEW f \in Call, Enter(w, f)
  PROVE  /\ st' \in [Worker -> Call \cup {"none", "spawned", "unlock"}]
         /\ hung' \in [Worker -> BOOLEAN]
         /\ st'[w] = f
         /\ \A v \in Worker \ {w} : st'[v] = st[v]
         /\ \A v \in Worker : hung'[v] => st'[v] \in MayHang
<1>1. PICK h \in BOOLEAN : (h => f \in MayHang) /\ hung' = [hung EXCEPT ![w] = h]
  BY DEF Enter
<1>2. st' = [st EXCEPT ![w] = f]
  BY DEF Enter
<1>3. ASSUME NEW v \in Worker, hung'[v] PROVE st'[v] \in MayHang
  <2>1. CASE v = w
    BY <1>1, <1>2, <1>3, <2>1 DEF TypeOK
  <2>2. CASE v # w
    BY <1>1, <1>2, <1>3, <2>2 DEF TypeOK
  <2> QED
    BY <2>1, <2>2
<1> QED
  BY <1>1, <1>2, <1>3 DEF TypeOK

(* A goroutine that is in no call does not hang, and moves on.             *)
LEMMA MoveType ==
  ASSUME TypeOK, NEW w \in Worker, st[w] \notin Call, UNCHANGED hung,
         NEW x \in {"none", "spawned", "unlock"}, st' = [st EXCEPT ![w] = x]
  PROVE  /\ st' \in [Worker -> Call \cup {"none", "spawned", "unlock"}]
         /\ \A v \in Worker : hung'[v] => st'[v] \in MayHang
<1>1. ~hung[w]
  BY MayHangAssumption DEF TypeOK
<1> QED
  BY <1>1 DEF TypeOK

LEMMA AfterType ==
  ASSUME NEW f \in DOMAIN After
  PROVE  After[f] \in Call
BY DEF After, Call

LEMMA LoopStep == LoopInv /\ [Next]_vars => LoopInv'
<1> SUFFICES ASSUME LoopInv, [Next]_vars PROVE LoopInv'
  OBVIOUS
<1> USE DEF LoopInv, flags
<1>1. CASE UNCHANGED vars
  BY <1>1 DEF vars, TypeOK, Holds
<1>2. CASE LoopStarts
  <2>1. PICK w \in Worker : st[w] = "none" /\ st' = [st EXCEPT ![w] = "spawned"]
    BY <1>2 DEF LoopStarts, Dispatch
  <2>2. /\ st' \in [Worker -> Call \cup {"none", "spawned", "unlock"}]
        /\ \A v \in Worker : hung'[v] => st'[v] \in MayHang
    BY <1>2, <2>1, MoveType DEF LoopStarts, Call
  <2> QED
    BY <1>2, <2>1, <2>2 DEF LoopStarts, TypeOK, Holds, Call
<1>3. CASE OneshotReturns
  BY <1>3 DEF OneshotReturns, TypeOK, Holds
<1>4. CASE SelectTick
  <2>1. PICK w \in Worker : st[w] = "none" /\ st' = [st EXCEPT ![w] = "spawned"]
    BY <1>4 DEF SelectTick, Dispatch
  <2>2. /\ st' \in [Worker -> Call \cup {"none", "spawned", "unlock"}]
        /\ \A v \in Worker : hung'[v] => st'[v] \in MayHang
    BY <1>4, <2>1, MoveType DEF SelectTick, Call
  <2> QED
    BY <1>4, <2>1, <2>2 DEF SelectTick, TypeOK, Holds, Call
<1>5. CASE SelectDone
  BY <1>5 DEF SelectDone, TypeOK, Holds
<1>6. CASE Drained
  BY <1>6 DEF Drained, TypeOK, Holds
<1>7. ASSUME NEW w \in Worker, TryLock(w) PROVE LoopInv'
  <2>1. mu = {} /\ mu' = {w} /\ st[w] = "spawned"
    BY <1>7 DEF TryLock, Free
  <2>2. /\ st' \in [Worker -> Call \cup {"none", "spawned", "unlock"}]
        /\ hung' \in [Worker -> BOOLEAN]
        /\ st'[w] = "fetch"
        /\ \A v \in Worker \ {w} : st'[v] = st[v]
        /\ \A v \in Worker : hung'[v] => st'[v] \in MayHang
    BY <1>7, EnterType DEF TryLock, Call
  <2> QED
    BY <1>7, <2>1, <2>2 DEF TryLock, TypeOK, Holds, Call
<1>8. ASSUME NEW w \in Worker, SkipOverlap(w) PROVE LoopInv'
  <2>1. /\ st' \in [Worker -> Call \cup {"none", "spawned", "unlock"}]
        /\ \A v \in Worker : hung'[v] => st'[v] \in MayHang
    BY <1>8, MoveType DEF SkipOverlap, Call
  <2> QED
    BY <1>8, <2>1 DEF SkipOverlap, TypeOK, Holds, Call
<1>9. ASSUME NEW w \in Worker, NextCall(w) PROVE LoopInv'
  <2>1. st[w] \in Call /\ After[st[w]] \in Call
    BY <1>9, AfterType DEF NextCall, Answers
  <2>2. /\ st' \in [Worker -> Call \cup {"none", "spawned", "unlock"}]
        /\ hung' \in [Worker -> BOOLEAN]
        /\ st'[w] \in Call
        /\ \A v \in Worker \ {w} : st'[v] = st[v]
        /\ \A v \in Worker : hung'[v] => st'[v] \in MayHang
    BY <1>9, <2>1, EnterType DEF NextCall
  <2> QED
    BY <1>9, <2>1, <2>2 DEF NextCall, TypeOK, Holds, Call
<1>10. ASSUME NEW w \in Worker, WorkReturns(w) PROVE LoopInv'
  BY <1>10 DEF WorkReturns, Answers, TypeOK, Holds, Call
<1>11. ASSUME NEW w \in Worker, Unlock(w) PROVE LoopInv'
  <2>1. /\ st' \in [Worker -> Call \cup {"none", "spawned", "unlock"}]
        /\ \A v \in Worker : hung'[v] => st'[v] \in MayHang
    BY <1>11, MoveType DEF Unlock, Call
  <2> QED
    BY <1>11, <2>1 DEF Unlock, TypeOK, Holds, Call
<1>12. CASE Tick
  BY <1>12 DEF Tick, TypeOK, Holds
<1>13. CASE Cancel
  BY <1>13 DEF Cancel, TypeOK, Holds
<1> QED
  BY <1>1, <1>2, <1>3, <1>4, <1>5, <1>6, <1>7, <1>8, <1>9, <1>10, <1>11,
     <1>12, <1>13 DEF Next, Loop, Step, Done

LEMMA LoopInit == Init => LoopInv
BY DEF Init, LoopInv, TypeOK, Holds, Free, Call

(* The inductive invariant of refreshLoop holds at every step.             *)
THEOREM LoopInvariant == Spec => []LoopInv
BY LoopInit, LoopStep, PTL DEF Spec

(* The state of refreshLoop, its goroutines and mutex stays in its types:  *)
(* no tick is left when it has returned, and only calls that may hang do.  *)
THEOREM TypeCorrect == Spec => []TypeOK
<1>1. LoopInv => TypeOK
  BY DEF LoopInv
<1> QED
  BY <1>1, LoopInvariant, PTL

(* The cycles of a process never overlap, however many goroutines the      *)
(* ticks have dispatched (mu.TryLock in runOnce).                          *)
THEOREM CyclesExclude == Spec => []OneAtATime
<1>1. LoopInv => OneAtATime
  BY DEF LoopInv, OneAtATime, Working, Holds
<1> QED
  BY <1>1, LoopInvariant, PTL

(* refreshLoop implements SerialCycles: cycles one after another, and none *)
(* under way or yet to come when it has returned (the drain of wg).        *)
THEOREM LoopRunsSerially == Spec => RunsSerially
<1>1. Init => Serial!Init
  BY DEF Init, Serial!Init, Working, Call
<1>2. LoopInv /\ [Next]_vars => [Serial!Next]_(Serial!vars)
  <2> SUFFICES ASSUME LoopInv, [Next]_vars
               PROVE  Serial!Next \/ UNCHANGED Serial!vars
    BY DEF Serial!vars
  <2> DEFINE Run  == \E w \in Worker : Working(w)
             Over == loop = "returned"
  <2> USE DEF LoopInv
  <2>1. CASE UNCHANGED vars \/ Tick \/ Cancel
    <3>1. UNCHANGED <<st, loop>>
      BY <2>1 DEF vars, Tick, Cancel
    <3> QED
      BY <3>1 DEF Serial!vars, Working
  <2>2. CASE LoopStarts \/ SelectTick
    <3>1. PICK w \in Worker :
            st[w] = "none" /\ st' = [st EXCEPT ![w] = "spawned"]
      BY <2>2 DEF LoopStarts, SelectTick, Dispatch
    <3>2. Run' = Run
      BY <3>1 DEF Working, TypeOK, Call
    <3>3. ~Over /\ ~Over'
      BY <2>2 DEF LoopStarts, SelectTick
    <3> QED
      BY <3>2, <3>3 DEF Serial!vars
  <2>3. CASE SelectDone
    BY <2>3 DEF SelectDone, Serial!vars, Working
  <2>4. CASE OneshotReturns \/ Drained
    <3>1. ~Run /\ Run' = Run
      BY <2>4 DEF OneshotReturns, Drained, Working, Call
    <3>2. ~Over /\ Over'
      BY <2>4 DEF OneshotReturns, Drained
    <3> QED
      BY <3>1, <3>2 DEF Serial!Next, Serial!Stop
  <2>5. ASSUME NEW w \in Worker, TryLock(w)
        PROVE  Serial!Next \/ UNCHANGED Serial!vars
    <3>1. mu = {} /\ st[w] = "spawned" /\ UNCHANGED loop
      BY <2>5 DEF TryLock, Free
    <3>2. ~Run
      BY <3>1 DEF Holds, Working
    <3>3. ~Over /\ ~Over'
      BY <3>1
    <3>4. st'[w] = "fetch"
      BY <2>5 DEF TryLock, Enter, TypeOK
    <3>5. Run'
      BY <3>4 DEF Working, Call
    <3> QED
      BY <3>2, <3>3, <3>5 DEF Serial!Next, Serial!Begin
  <2>6. ASSUME NEW w \in Worker, SkipOverlap(w) \/ Unlock(w)
        PROVE  Serial!Next \/ UNCHANGED Serial!vars
    <3>1. st[w] \notin Call /\ st' = [st EXCEPT ![w] = "none"]
          /\ UNCHANGED loop
      BY <2>6 DEF SkipOverlap, Unlock, Call
    <3>2. Run' = Run
      BY <3>1 DEF Working, TypeOK, Call
    <3> QED
      BY <3>1, <3>2 DEF Serial!vars
  <2>7. ASSUME NEW w \in Worker, NextCall(w)
        PROVE  Serial!Next \/ UNCHANGED Serial!vars
    <3>1. st[w] \in Call /\ After[st[w]] \in Call /\ UNCHANGED loop
      BY <2>7, AfterType DEF NextCall, Answers
    <3>2. st'[w] \in Call
      BY <2>7, <3>1 DEF NextCall, Enter, TypeOK
    <3>3. Run /\ Run'
      BY <3>1, <3>2 DEF Working
    <3> QED
      BY <3>1, <3>3 DEF Serial!vars
  <2>8. ASSUME NEW w \in Worker, WorkReturns(w)
        PROVE  Serial!Next \/ UNCHANGED Serial!vars
    <3>1. st[w] \in Call /\ st' = [st EXCEPT ![w] = "unlock"]
          /\ UNCHANGED loop
      BY <2>8 DEF WorkReturns, Answers
    <3>2. Run
      BY <3>1 DEF Working
    <3>3. \A v \in Worker : v # w => st[v] \notin Call
      BY <3>1 DEF Holds
    <3>4. ~Run'
      BY <3>1, <3>3 DEF Working, TypeOK, Call
    <3> QED
      BY <3>1, <3>2, <3>4 DEF Serial!Next, Serial!End
  <2> QED
    BY <2>1, <2>2, <2>3, <2>4, <2>5, <2>6, <2>7, <2>8
       DEF Next, Loop, Step, Done
<1> QED
  BY <1>1, <1>2, LoopInvariant, PTL DEF Spec, RunsSerially, Serial!Spec
=============================================================================
