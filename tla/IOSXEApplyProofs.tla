-------------------------- MODULE IOSXEApplyProofs --------------------------
(* What IOSXEApply promises, for every list, limit and combination of      *)
(* flags.                                                                  *)
EXTENDS IOSXEApply, TLAPS

(* The router's configurations stay configurations.                        *)
LEMMA EffectType ==
  ASSUME TypeOK, NEW dev \in Config
  PROVE  Effect(dev) \in Config
<1>1. want \in Seq(Prefix) /\ P \in Nat /\ line \in Nat
  BY DEF TypeOK, P, ShowLine, PolicyLine
<1>2. dev.list \subseteq [seq : Nat, entry : Prefix \cup {Deny}]
      /\ dev.routes \subseteq Prefix
      /\ dev.policy \subseteq {Policy[n] : n \in 1 .. 5}
  BY DEF Config
<1>3. \A i \in 1 .. P : want[i] \in Prefix /\ SeqNo(i) \in Nat
  BY <1>1, NumbersAssumption DEF SeqNo, P
<1>4. Effect(dev).list \subseteq [seq : Nat, entry : Prefix \cup {Deny}]
  BY <1>2, <1>3, NumbersAssumption DEF Effect, Enter
<1>5. Effect(dev).routes \subseteq Prefix
  BY <1>2, <1>3 DEF Effect
<1>6. Effect(dev).policy \subseteq {Policy[n] : n \in 1 .. 5}
  BY <1>2 DEF Effect
<1> QED BY <1>4, <1>5, <1>6 DEF Effect, Config

LEMMA TypeInit == Init => TypeOK
<1> SUFFICES ASSUME Init
             PROVE  TypeOK
  OBVIOUS
<1>1. want \in Seq(Prefix) /\ line \in 0 .. ShowLine + 1
  BY DEF Init, ShowLine, PolicyLine, P
<1>2. running \in Config /\ startup \in Config
  BY DEF Init, Config
<1> QED BY <1>1, <1>2 DEF Init, TypeOK

LEMMA EndType ==
  ASSUME TypeOK, NEW o \in {"ok", "error", "crashed"}, End(o)
  PROVE  TypeOK'
BY DEF TypeOK, End, device, ShowLine, PolicyLine, P

LEMMA OpenType ==
  ASSUME TypeOK, NEW s \in BOOLEAN, OpenSession(s)
  PROVE  TypeOK'
<1>1. want' \in Seq(Prefix) /\ Len(want') \in Nat
  BY DEF OpenSession, TypeOK
<1>2. line' \in 0 .. ShowLine' + 1
  BY <1>1 DEF OpenSession, ShowLine, PolicyLine, P
<1> QED BY <1>1, <1>2 DEF TypeOK, OpenSession, device

LEMMA TypeStep == TypeOK /\ [Next]_vars => TypeOK'
<1> SUFFICES ASSUME TypeOK, [Next]_vars
             PROVE  TypeOK'
  OBVIOUS
<1>0. want \in Seq(Prefix) /\ P \in Nat /\ line \in 0 .. ShowLine + 1
  BY DEF TypeOK, P, ShowLine, PolicyLine
<1>1. CASE Begin
  <2>1. want' \in Seq(Prefix) /\ Len(want') \in Nat
    BY <1>1, ListsAssumption DEF Begin
  <2>2. line' \in 0 .. ShowLine' + 1
    BY <1>1, <2>1 DEF Begin, ShowLine, PolicyLine, P
  <2> QED BY <1>1, <2>1, <2>2 DEF Begin, TypeOK, device
<1>2. CASE StayLocal
  BY <1>2, EndType DEF StayLocal
<1>3. CASE Apply
  BY <1>3, OpenType DEF Apply
<1>4. CASE DialFails \/ SetupFails \/ SessionLost \/ TimesOut \/ Crash \/ VerifySave
  BY <1>4, EndType DEF DialFails, SetupFails, SessionLost, TimesOut, Crash, VerifySave
<1>5. CASE Connect \/ ShellStarts \/ SessionEnds
  BY <1>5 DEF Connect, ShellStarts, SessionEnds, TypeOK, proc, device,
              ShowLine, PolicyLine, P
<1>6. CASE ExecuteLine
  <2>1. line <= ShowLine /\ line + 1 \in 0 .. ShowLine + 1
    BY <1>0, <1>6 DEF ExecuteLine, Executes, ShowLine, PolicyLine
  <2>2. running' \in Config
    BY <1>6, <2>1, EffectType DEF ExecuteLine, TypeOK
  <2>3. heard' \subseteq {"rejected", "names"}
    BY <1>6 DEF ExecuteLine, TypeOK
  <2> QED BY <1>6, <2>1, <2>2, <2>3 DEF ExecuteLine, TypeOK, proc, ShowLine, PolicyLine, P
<1>7. CASE RefuseLine
  <2>1. line + 1 \in 0 .. ShowLine + 1
    BY <1>0, <1>7 DEF RefuseLine, ShowLine, PolicyLine
  <2>2. heard' \subseteq {"rejected", "names"}
    BY <1>7 DEF RefuseLine, Refusals, TypeOK
  <2> QED BY <1>7, <2>1, <2>2 DEF RefuseLine, TypeOK, proc, device, ShowLine, PolicyLine, P
<1>8. CASE WriteMemory
  <2>1. 1 \in 0 .. ShowLine + 1
    BY <1>0 DEF ShowLine, PolicyLine
  <2>2. heard' \subseteq {"rejected", "names"} /\ startup' \in Config
    BY <1>8 DEF WriteMemory, Refusals, TypeOK
  <2> QED BY <1>8, <2>1, <2>2 DEF WriteMemory, TypeOK, proc, ShowLine, PolicyLine, P
<1>9. CASE VerifyApply
  BY <1>9, EndType, OpenType DEF VerifyApply
<1>10. CASE Timeout \/ Cancel \/ FallSilent
  BY <1>10 DEF Timeout, Cancel, FallSilent, TypeOK, proc, device, ShowLine, PolicyLine, P
<1>11. CASE UNCHANGED vars
  BY <1>11 DEF vars, TypeOK, ShowLine, PolicyLine, P
<1> QED BY <1>1, <1>2, <1>3, <1>4, <1>5, <1>6, <1>7, <1>8, <1>9, <1>10, <1>11
        DEF Next, Proceed

(* Type correctness of the apply.                                          *)
THEOREM TypeCorrect == Spec => []TypeOK
BY TypeInit, TypeStep, PTL DEF Spec

-----------------------------------------------------------------------------
(* What a nil return is evidence of.                                       *)

(* The router marks what it refuses with a marker the code looks for, and  *)
(* does not end a save early as if it were done; the limit keeps the list  *)
(* in front of its deny.                                                   *)
TellsRefusals == "mutter" \notin Faults /\ "cutSave" \notin Faults
TailStaysLast == MaxPrefixes > 0 /\ SeqNo(MaxPrefixes) < DenySeq

(* The last line of the candidate has the last of the required names; it   *)
(* has not when there is a next-hop and no BGP AS.                         *)
LastLineIsNamed == \A f \in Flags : f.nextHop => f.bgp

DenyAtTail == \A x \in running.list : x.entry = Deny => x.seq = DenySeq

InSession == pc \in {"dial", "setup", "shell", "verify"}

GuardInv ==
  /\ InSession => fl.mode = "apply" /\ P <= MaxPrefixes
  /\ pc \in {"dial", "setup"} => line = 0 /\ heard = {}

Entry(i) == [seq |-> SeqNo(i), entry |-> want[i]]

\* What the lines so far have done to the router.
Executed ==
  /\ fl.replace /\ line > 0 =>
       \A x \in running.list : x.entry = Deny \/ \E i \in 1 .. P : x.entry = want[i]
  /\ \A i \in 1 .. P : i < line => Entry(i) \in running.list
  /\ fl.nextHop => \A i \in 1 .. P : P + 1 + i < line => want[i] \in running.routes
  /\ \A n \in 1 .. 5 :
       PolicyLine(n) < line /\ Policy[n] \in PolicySent => Policy[n] \in running.policy
  /\ "names" \in heard => line > LastNamed

\* A session that was not refused a line has executed those before line.
ScriptInv ==
  pc \in {"shell", "verify"} /\ ~saving /\ P > 0 /\ "rejected" \notin heard =>
    IF fl.iosxe THEN Executed ELSE line <= 1 /\ "names" \notin heard

\* A save follows a verified apply.
SaveInv ==
  InSession /\ saving /\ P > 0 =>
    /\ Loaded(running)
    /\ line \in {0, 1}
    /\ pc = "verify" => line = 1
    /\ pc \in {"shell", "verify"} /\ line = 1 /\ "rejected" \notin heard => Loaded(startup)

LoadInv == TypeOK /\ DenyAtTail /\ GuardInv /\ ScriptInv /\ SaveInv /\ SuccessMeansLoaded

(* The numbers of the entries ascend.                                      *)
LEMMA SeqNoAscends ==
  \A i, j \in Nat : i < j => SeqNo(i) \in Nat /\ SeqNo(i) < SeqNo(j)
<1> SUFFICES ASSUME NEW i \in Nat, NEW j \in Nat, i < j
             PROVE  SeqNo(i) \in Nat /\ SeqNo(i) < SeqNo(j)
  OBVIOUS
<1>1. j - i \in Nat \ {0} /\ SeqStep \in Nat \ {0}
  BY NumbersAssumption
<1>2. (j - i) * SeqStep \in Nat /\ (j - i) * SeqStep > 0
  BY <1>1
<1>3. j * SeqStep = i * SeqStep + (j - i) * SeqStep
  BY <1>1
<1>4. i * SeqStep \in Nat /\ j * SeqStep \in Nat
  BY <1>1
<1> QED BY <1>2, <1>3, <1>4 DEF SeqNo

(* Each permit comes before the deny.                                      *)
LEMMA PermitsComeFirst ==
  ASSUME TailStaysLast, TypeOK, P <= MaxPrefixes
  PROVE  \A i \in 1 .. P : SeqNo(i) \in Nat /\ SeqNo(i) < DenySeq
<1> SUFFICES ASSUME NEW i \in 1 .. P
             PROVE  SeqNo(i) \in Nat /\ SeqNo(i) < DenySeq
  OBVIOUS
<1>1. i \in Nat /\ i <= MaxPrefixes /\ MaxPrefixes \in Nat
  BY NumbersAssumption DEF TypeOK, P
<1>2. SeqNo(i) \in Nat /\ SeqNo(MaxPrefixes) \in Nat /\ DenySeq \in Nat
  BY <1>1, NumbersAssumption DEF SeqNo
<1>3. i = MaxPrefixes \/ SeqNo(i) < SeqNo(MaxPrefixes)
  BY <1>1, SeqNoAscends
<1> QED BY <1>2, <1>3 DEF TailStaysLast

(* A script that was executed as far as the last name has loaded the list. *)
LEMMA ScriptLoads ==
  ASSUME TailStaysLast, LastLineIsNamed, TypeOK, DenyAtTail, P <= MaxPrefixes, P > 0,
         Executed, line > LastNamed
  PROVE  Loaded(running)
<1> DEFINE wanted == {want[i] : i \in 1 .. P}
<1>0. line > PolicyLine(4) /\ (fl.bgp => line > PolicyLine(5))
  <2>1. fl.nextHop => fl.bgp
    BY DEF TypeOK, LastLineIsNamed
  <2> QED BY <2>1 DEF TypeOK, LastNamed, PolicyLine, ShowLine, P
<1>1. /\ P \in Nat /\ line \in Nat /\ running \in Config
      /\ \A i \in 1 .. P : want[i] \in Prefix /\ i < line /\ P + 1 + i < line
      /\ line > 0
  BY <1>0 DEF TypeOK, P, PolicyLine, ShowLine
<1>2. \A i \in 1 .. P : want[i] \in Permits(running.list)
  <2> SUFFICES ASSUME NEW i \in 1 .. P
               PROVE  want[i] \in Permits(running.list)
    OBVIOUS
  <2>1. Entry(i) \in running.list
    BY <1>1 DEF Executed
  <2>2. \A y \in running.list : y.entry = Deny => SeqNo(i) < y.seq
    BY PermitsComeFirst DEF DenyAtTail
  <2> QED BY <1>1, <2>1, <2>2 DEF Permits, Entry
<1>3. fl.replace => Permits(running.list) \subseteq wanted
  <2> SUFFICES ASSUME fl.replace, NEW p \in Permits(running.list)
               PROVE  p \in wanted
    OBVIOUS
  <2>1. running.list # {}
    BY <1>1 DEF Executed
  <2>2. PICK x \in running.list : x.entry = p /\ p \in Prefix
    BY <2>1 DEF Permits
  <2>3. p # Deny
    BY <2>2, DenyAssumption
  <2> QED BY <1>1, <2>2, <2>3 DEF Executed
<1>4. fl.nextHop => wanted \subseteq running.routes
  BY <1>1 DEF Executed
<1>5. PolicySent \subseteq running.policy
  <2> SUFFICES ASSUME NEW x \in PolicySent
               PROVE  x \in running.policy
    OBVIOUS
  <2>1. PICK n \in 1 .. 5 : Policy[n] = x /\ (n = 5 => fl.bgp)
    <3>1. CASE x = "redistribute"
      BY <3>1 DEF PolicySent, Policy
    <3>2. CASE x = "staticMap"
      <4>1. Policy[1] = x /\ 1 \in 1 .. 5
        BY <3>2 DEF Policy
      <4> QED BY <4>1
    <3>3. CASE x = "staticMatch"
      <4>1. Policy[2] = x /\ 2 \in 1 .. 5
        BY <3>3 DEF Policy
      <4> QED BY <4>1
    <3>4. CASE x = "map"
      <4>1. Policy[3] = x /\ 3 \in 1 .. 5
        BY <3>4 DEF Policy
      <4> QED BY <4>1
    <3>5. CASE x = "match"
      <4>1. Policy[4] = x /\ 4 \in 1 .. 5
        BY <3>5 DEF Policy
      <4> QED BY <4>1
    <3> QED BY <3>1, <3>2, <3>3, <3>4, <3>5 DEF PolicySent
  <2>2. PolicyLine(n) < line
    BY <1>0, <1>1, <2>1 DEF PolicyLine
  <2> QED BY <2>1, <2>2 DEF Executed
<1> QED BY <1>2, <1>3, <1>4, <1>5 DEF Loaded

(* One more line keeps the record of what was executed.                    *)
LEMMA LineExecutes ==
  ASSUME TailStaysLast, TypeOK, TypeOK', P <= MaxPrefixes, P > 0, fl.iosxe,
         Executed, ExecuteLine
  PROVE  Executed'
<1>1. /\ P \in Nat /\ line \in Nat /\ line' = line + 1
      /\ P' = P /\ want' = want /\ fl' = fl /\ LastNamed' = LastNamed
      /\ PolicySent' = PolicySent /\ LastNamed \in Nat
      /\ \A n : PolicyLine(n)' = PolicyLine(n)
      /\ \A i : Entry(i)' = Entry(i)
  BY DEF ExecuteLine, TypeOK, P, ShowLine, PolicyLine, LastNamed, PolicySent, proc, Entry
<1>2. running' = IF Sent THEN Effect(running) ELSE running
  BY DEF ExecuteLine
<1>3. \A i \in 1 .. P : SeqNo(i) # DenySeq /\ (i < line => SeqNo(i) # SeqNo(line))
  <2>1. \A i \in 1 .. P : SeqNo(i) \in Nat /\ SeqNo(i) < DenySeq
    BY PermitsComeFirst
  <2>2. \A i \in 1 .. P : i < line => SeqNo(i) < SeqNo(line)
    BY <1>1, SeqNoAscends
  <2>3. SeqNo(line) \in Nat /\ DenySeq \in Nat
    BY <1>1, NumbersAssumption DEF SeqNo
  <2> QED BY <2>1, <2>2, <2>3
<1>4. ASSUME fl.replace, NEW x \in running'.list
      PROVE  x.entry = Deny \/ \E i \in 1 .. P : x.entry = want[i]
  <2>1. CASE line = 0
    <3>1. Sent
      BY <1>1, <1>4, <2>1 DEF Sent, PolicyLine
    <3>2. running'.list = {}
      BY <1>2, <2>1, <3>1 DEF Effect
    <3> QED BY <1>4, <3>2
  <2>2. CASE line \in 1 .. P
    <3>1. x \in running.list \/ x = Entry(line)
      BY <1>1, <1>2, <1>4, <2>2 DEF Effect, Enter, Entry
    <3> QED BY <1>1, <1>4, <2>2, <3>1 DEF Executed, Entry
  <2>3. CASE line > P
    <3>1. x \in running.list \/ x = [seq |-> DenySeq, entry |-> Deny]
      BY <1>1, <1>2, <1>4, <2>3 DEF Effect, Enter
    <3> QED BY <1>1, <1>4, <2>3, <3>1 DEF Executed
  <2> QED BY <1>1, <2>1, <2>2, <2>3
<1>5. ASSUME NEW i \in 1 .. P, i < line'
      PROVE  Entry(i) \in running'.list
  <2>1. CASE i < line
    <3>1. Entry(i) \in running.list /\ line > 0
      BY <1>1, <2>1 DEF Executed
    <3> QED BY <1>1, <1>2, <1>3, <2>1, <3>1 DEF Effect, Enter, Entry
  <2>2. CASE i = line
    <3>1. Sent
      BY <1>1, <2>2 DEF Sent, PolicyLine
    <3> QED BY <1>1, <1>2, <2>2, <3>1 DEF Effect, Enter, Entry
  <2> QED BY <1>1, <1>5, <2>1, <2>2
<1>6. ASSUME fl.nextHop, NEW i \in 1 .. P, P + 1 + i < line'
      PROVE  want[i] \in running'.routes
  <2>1. CASE P + 1 + i < line
    BY <1>1, <1>2, <1>6, <2>1 DEF Executed, Effect
  <2>2. CASE P + 1 + i = line
    <3>1. Sent
      BY <1>1, <1>6, <2>2 DEF Sent, PolicyLine
    <3> QED BY <1>1, <1>2, <2>2, <3>1 DEF Effect
  <2> QED BY <1>1, <1>6, <2>1, <2>2
<1>7. ASSUME NEW n \in 1 .. 5, PolicyLine(n) < line', Policy[n] \in PolicySent
      PROVE  Policy[n] \in running'.policy
  <2>1. CASE PolicyLine(n) = line
    <3>1. \A m \in 1 .. 5 : line = PolicyLine(m) => m = n
      BY <1>1, <2>1 DEF PolicyLine
    <3>2. Sent
      BY <1>1, <1>7, <2>1, <3>1 DEF Sent, PolicyLine
    <3> QED BY <1>2, <1>7, <2>1, <3>2 DEF Effect
  <2>2. CASE PolicyLine(n) < line
    BY <1>2, <1>7, <2>2 DEF Executed, Effect
  <2>3. PolicyLine(n) \in Nat
    BY <1>1 DEF PolicyLine
  <2> QED BY <1>1, <1>7, <2>1, <2>2, <2>3
<1>8. "names" \in heard' => line' > LastNamed'
  <2>1. "names" \in heard' => "names" \in heard \/ line >= LastNamed
    BY DEF ExecuteLine
  <2> QED BY <1>1, <2>1 DEF Executed
<1> QED BY <1>1, <1>4, <1>5, <1>6, <1>7, <1>8 DEF Executed

-----------------------------------------------------------------------------
(* The invariant, step by step.                                            *)

LEMMA LoadInit == Init => LoadInv
BY TypeInit DEF Init, LoadInv, DenyAtTail, GuardInv, InSession, ScriptInv, SaveInv,
                SuccessMeansLoaded

(* Whether a configuration is the wanted one depends on the list only.     *)
LEMMA LoadedFrame ==
  ASSUME fl' = fl, want' = want, running' = running
  PROVE  /\ Loaded(running)' = Loaded(running)
         /\ startup' = startup => Loaded(startup)' = Loaded(startup)
         /\ startup' = running => Loaded(startup)' = Loaded(running)
<1>1. \A l : Permits(l)' = Permits(l)
  BY DEF Permits
<1>2. PolicySent' = PolicySent
  BY DEF PolicySent
<1> QED BY <1>1, <1>2 DEF Loaded, P

(* A return in which success, if it is one, is deserved.                   *)
LEMMA EndKeeps ==
  ASSUME LoadInv, NEW o \in {"ok", "error", "crashed"}, End(o),
         o = "ok" /\ Applies => Loaded(running) /\ (fl.save => Loaded(startup))
  PROVE  LoadInv'
<1>1. TypeOK'
  BY EndType DEF LoadInv
<1>2. DenyAtTail' /\ GuardInv' /\ ScriptInv' /\ SaveInv'
  BY DEF LoadInv, DenyAtTail, GuardInv, ScriptInv, SaveInv, InSession, End, device
<1>3. SuccessMeansLoaded'
  BY LoadedFrame DEF SuccessMeansLoaded, Applies, End, device
<1> QED BY <1>1, <1>2, <1>3 DEF LoadInv

(* A session for the save is opened over a loaded list.                    *)
LEMMA OpenKeeps ==
  ASSUME LoadInv, NEW s \in BOOLEAN, OpenSession(s),
         fl.mode = "apply" /\ P <= MaxPrefixes,
         s /\ P > 0 => Loaded(running)
  PROVE  LoadInv'
<1>1. TypeOK'
  BY OpenType DEF LoadInv
<1>2. DenyAtTail' /\ GuardInv' /\ ScriptInv' /\ SuccessMeansLoaded'
  BY DEF LoadInv, DenyAtTail, GuardInv, ScriptInv, SuccessMeansLoaded, InSession,
         OpenSession, device, P
<1>3. SaveInv'
  BY LoadedFrame DEF SaveInv, InSession, OpenSession, device, P
<1> QED BY <1>1, <1>2, <1>3 DEF LoadInv

(* Steps that leave the lists, the script and the router as they are.      *)
LEMMA FrameKeeps ==
  ASSUME LoadInv, TypeOK', UNCHANGED <<proc, saving, line, heard, outcome, device>>,
         \/ pc' = pc
         \/ pc = "dial" /\ pc' = "setup"
         \/ pc = "setup" /\ pc' = "shell"
         \/ pc = "shell" /\ pc' = "verify" /\ (saving => line > 0)
  PROVE  LoadInv'
<1>1. DenyAtTail' /\ GuardInv' /\ SuccessMeansLoaded'
  BY LoadedFrame DEF LoadInv, DenyAtTail, GuardInv, InSession, SuccessMeansLoaded,
                     Applies, P, proc, device
<1>2. ScriptInv'
  <2>1. /\ fl' = fl /\ P' = P /\ want' = want /\ line' = line /\ heard' = heard
        /\ running' = running /\ saving' = saving
    BY DEF P, proc, device
  <2>2. Executed' = Executed
    <3>1. \A n : PolicyLine(n)' = PolicyLine(n)
      BY <2>1 DEF PolicyLine
    <3>2. PolicySent' = PolicySent /\ LastNamed' = LastNamed /\ \A i : Entry(i)' = Entry(i)
      BY <2>1, <3>1 DEF PolicySent, LastNamed, ShowLine, PolicyLine, Entry
    <3> QED BY <2>1, <3>1, <3>2 DEF Executed
  <2>3. pc = "setup" /\ P > 0 =>
          IF fl.iosxe THEN Executed ELSE line <= 1 /\ "names" \notin heard
    BY DEF LoadInv, GuardInv, InSession, TypeOK, Executed, PolicyLine, P
  <2> QED BY <2>1, <2>2, <2>3 DEF LoadInv, ScriptInv
<1>3. SaveInv'
  BY LoadedFrame DEF LoadInv, GuardInv, SaveInv, InSession, P, proc, device
<1> QED BY <1>1, <1>2, <1>3 DEF LoadInv

LEMMA LoadStep ==
  ASSUME TellsRefusals, TailStaysLast, LastLineIsNamed, LoadInv, [Next]_vars
  PROVE  LoadInv'
<1>0. TypeOK /\ TypeOK' /\ P \in Nat /\ line \in Nat /\ Sent \in BOOLEAN
  BY TypeStep DEF LoadInv, TypeOK, P, ShowLine, PolicyLine, Sent
<1>1. CASE Begin
  BY <1>0, <1>1 DEF Begin, LoadInv, DenyAtTail, GuardInv, InSession, ScriptInv, SaveInv,
                    SuccessMeansLoaded, device
<1>2. CASE StayLocal
  BY <1>2, EndKeeps DEF StayLocal, Applies
<1>3. CASE Apply
  <2>1. fl.mode = "apply" /\ P <= MaxPrefixes
    BY <1>3 DEF Apply, GuardPasses, WithinLimit, TailStaysLast
  <2> QED BY <1>3, <2>1, OpenKeeps DEF Apply
<1>4. CASE DialFails \/ SetupFails \/ SessionLost \/ TimesOut \/ Crash
  BY <1>4, EndKeeps DEF DialFails, SetupFails, SessionLost, TimesOut, Crash
<1>5. CASE Connect \/ ShellStarts \/ Timeout \/ Cancel \/ FallSilent
  <2>1. UNCHANGED <<proc, saving, line, heard, outcome, device>>
    BY <1>5 DEF Connect, ShellStarts, Timeout, Cancel, FallSilent
  <2>2. \/ pc' = pc
        \/ pc = "dial" /\ pc' = "setup"
        \/ pc = "setup" /\ pc' = "shell"
    BY <1>5 DEF Connect, ShellStarts, Timeout, Cancel, FallSilent
  <2> QED BY <1>0, <2>1, <2>2, FrameKeeps
<1>6. CASE SessionEnds
  <2>1. UNCHANGED <<proc, saving, line, heard, outcome, device>>
    BY <1>6 DEF SessionEnds
  <2>2. pc = "shell" /\ pc' = "verify" /\ (saving => line > 0)
    BY <1>6 DEF SessionEnds, InShell, TellsRefusals
  <2> QED BY <1>0, <2>1, <2>2, FrameKeeps
<1>7. CASE ExecuteLine
  <2>1. pc = "shell" /\ pc' = "shell" /\ ~saving /\ ~saving' /\ line' = line + 1
        /\ want' = want /\ fl' = fl /\ P' = P /\ heard \subseteq heard'
        /\ P <= MaxPrefixes /\ fl.mode = "apply"
    BY <1>7 DEF ExecuteLine, Executes, InShell, proc, P, LoadInv, GuardInv, InSession
  <2>2. DenyAtTail'
    <3>1. \A i \in 1 .. P : want[i] # Deny
      BY <1>0, DenyAssumption DEF TypeOK, P
    <3> QED BY <1>0, <1>7, <3>1 DEF ExecuteLine, Effect, Enter, LoadInv, DenyAtTail
  <2>3. GuardInv' /\ SaveInv' /\ SuccessMeansLoaded'
    BY <2>1 DEF GuardInv, SaveInv, SuccessMeansLoaded, InSession
  <2>4. ASSUME P > 0, "rejected" \notin heard'
        PROVE  IF fl.iosxe THEN Executed' ELSE line' <= 1 /\ "names" \notin heard'
    <3>1. IF fl.iosxe THEN Executed ELSE line <= 1 /\ "names" \notin heard
      BY <2>1, <2>4 DEF LoadInv, ScriptInv
    <3>2. CASE fl.iosxe
      BY <1>0, <1>7, <2>1, <2>4, <3>1, <3>2, LineExecutes DEF LoadInv
    <3>3. CASE ~fl.iosxe
      <4>1. line = 0
        BY <1>0, <1>7, <2>4, <3>1, <3>3 DEF ExecuteLine
      <4> QED BY <1>0, <1>7, <2>1, <3>1, <3>3, <4>1
              DEF ExecuteLine, ShowLine, PolicyLine
    <3> QED BY <3>2, <3>3
  <2>5. ScriptInv'
    BY <2>1, <2>4 DEF ScriptInv
  <2> QED BY <1>0, <2>2, <2>3, <2>5 DEF LoadInv
<1>8. CASE RefuseLine
  <2>1. pc = "shell" /\ pc' = "shell" /\ ~saving' /\ running' = running
        /\ "rejected" \in heard' /\ P' = P /\ fl' = fl
    BY <1>8 DEF RefuseLine, Executes, InShell, Refusals, TellsRefusals, proc, device, P
  <2> QED BY <1>0, <2>1 DEF LoadInv, DenyAtTail, GuardInv, ScriptInv, SaveInv,
                            SuccessMeansLoaded, InSession
<1>9. CASE WriteMemory
  <2>1. pc = "shell" /\ pc' = "shell" /\ saving /\ saving' /\ line' = 1 /\ want' = want
        /\ fl' = fl /\ running' = running /\ P' = P
    BY <1>9 DEF WriteMemory, InShell, proc, P
  <2>2. startup' = running \/ "rejected" \in heard'
    BY <1>9 DEF WriteMemory, Refusals, TellsRefusals
  <2>3. SaveInv'
    BY <2>1, <2>2, LoadedFrame DEF LoadInv, SaveInv, InSession
  <2> QED BY <1>0, <2>1, <2>3 DEF LoadInv, DenyAtTail, GuardInv, ScriptInv,
                                  SuccessMeansLoaded, InSession
<1>10. CASE VerifyApply
  <2>1. pc = "verify" /\ ~saving /\ fl.mode = "apply" /\ P <= MaxPrefixes
    BY <1>10 DEF VerifyApply, LoadInv, GuardInv, InSession
  <2>2. Verified /\ P > 0 => Loaded(running)
    <3>1. ASSUME Verified, P > 0
          PROVE  fl.iosxe /\ Executed /\ line > LastNamed
      BY <2>1, <3>1 DEF LoadInv, ScriptInv, Verified, Executed
    <3> QED BY <1>0, <2>1, <3>1, ScriptLoads DEF LoadInv
  <2>3. Applies => P > 0
    BY <1>0 DEF Applies, P, TypeOK
  <2> QED BY <1>10, <2>1, <2>2, <2>3, EndKeeps, OpenKeeps DEF VerifyApply
<1>11. CASE VerifySave
  <2>1. Applies => P > 0
    BY <1>0 DEF Applies, P, TypeOK
  <2>2. "rejected" \notin heard /\ P > 0 => Loaded(running) /\ Loaded(startup)
    BY <1>11 DEF VerifySave, LoadInv, SaveInv, InSession
  <2> QED BY <1>11, <2>1, <2>2, EndKeeps DEF VerifySave
<1>12. CASE UNCHANGED vars
  BY <1>0, <1>12, FrameKeeps DEF vars, proc, device
<1> QED BY <1>1, <1>2, <1>3, <1>4, <1>5, <1>6, <1>7, <1>8, <1>9, <1>10, <1>11, <1>12
        DEF Next, Proceed

(* A cycle that returns nil has loaded its list, and saved it if it was to.*)
THEOREM SuccessLoads ==
  ASSUME TellsRefusals, TailStaysLast, LastLineIsNamed
  PROVE  Spec => []SuccessMeansLoaded
<1>1. LoadInv => SuccessMeansLoaded
  BY DEF LoadInv
<1> QED BY LoadInit, LoadStep, <1>1, PTL DEF Spec

(* The startup configuration changes to a verified state only.             *)
THEOREM SavesAreVerified ==
  ASSUME TellsRefusals, TailStaysLast, LastLineIsNamed
  PROVE  Spec => SavedIsVerified
<1>1. LoadInv /\ [Next]_vars => [startup' # startup => want = <<>> \/ Loaded(startup')]_vars
  <2> SUFFICES ASSUME LoadInv, [Next]_vars, startup' # startup
               PROVE  want = <<>> \/ Loaded(startup')
    BY DEF vars
  <2>1. WriteMemory
    BY DEF Next, Proceed, Begin, StayLocal, Apply, OpenSession, End, DialFails, Connect,
           SetupFails, ShellStarts, ExecuteLine, RefuseLine, SessionEnds, SessionLost,
           TimesOut, VerifyApply, VerifySave, Timeout, Cancel, FallSilent, Crash,
           device, vars
  <2>2. startup' = running
    BY <2>1 DEF WriteMemory
  <2>3. P > 0 => Loaded(running)
    BY <2>1 DEF WriteMemory, InShell, LoadInv, SaveInv, InSession
  <2>4. want = <<>> \/ P > 0
    BY DEF LoadInv, TypeOK, P
  <2> QED BY <2>2, <2>3, <2>4
<1> QED BY LoadInit, LoadStep, <1>1, PTL DEF Spec, SavedIsVerified
=============================================================================
