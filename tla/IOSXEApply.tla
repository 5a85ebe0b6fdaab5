----------------------------- MODULE IOSXEApply -----------------------------
(***************************************************************************)
(* runTarget of target.go, which run() calls instead of the FRR steps, and *)
(* the apply over SSH of iosxe_ssh.go: the candidate is typed into a shell *)
(* of the router, which executes it line by line, and what the shell       *)
(* printed decides whether it was applied, and may be saved.               *)
(*                                                                         *)
(* One country's process and its router.  A process that ends is followed  *)
(* by another one with the same flags.  Not modelled: VRF leak, tags, and  *)
(* names.                                                                  *)
(***************************************************************************)
EXTENDS Integers, Sequences

CONSTANTS
  Prefix,
  Lists,        \* the lists aggregate may return, for IPv4
  Flags,        \* the combinations of flags to consider
  MaxPrefixes,  \* --iosxe-apply-max-prefixes, 0 for no limit
  SeqStep,      \* defaultSeqStep
  DenySeq,      \* iosxeDenyTailSeq
  Deny,         \* the entry "deny 0.0.0.0/0 le 32"
  Faults        \* of "dial" "setup" "lost" "cut" "cutSave" "silent" "reject"
                \*    "mutter" "output" "crash"

Flag == [iosxe      : BOOLEAN,    \* --target=iosxe, else file
         mode       : {"render", "apply", "other"},
         dryRun     : BOOLEAN,
         replace    : BOOLEAN,    \* --iosxe-replace-prefix-list
         nextHop    : BOOLEAN,    \* --iosxe-static-next-hop
         bgp        : BOOLEAN,    \* --iosxe-bgp-as
         save       : BOOLEAN,    \* --iosxe-save-config
         configured : BOOLEAN]    \* SSH host, user, key and known_hosts given

ASSUME ListsAssumption == Lists \subseteq Seq(Prefix)
ASSUME FlagsAssumption == Flags \subseteq Flag
ASSUME NumbersAssumption ==
         MaxPrefixes \in Nat /\ SeqStep \in Nat \ {0} /\ DenySeq \in Nat
ASSUME DenyAssumption == Deny \notin Prefix

\* The lines of the candidate after the static routes, and what the router
\* keeps of them: the route-map of the static routes, that of the list, each
\* with its match (its deny is what a route-map ends with anyway), and the
\* "router bgp" stanza.
Policy == <<"staticMap", "staticMatch", "map", "match", "redistribute">>

\* What the router keeps: the prefix-list, the static routes, the policy.
Config == [list   : SUBSET [seq : Nat, entry : Prefix \cup {Deny}],
           routes : SUBSET Prefix,
           policy : SUBSET {Policy[n] : n \in 1 .. 5}]

VARIABLES
  fl,        \* the flags
  pc,        \* where runTarget is
  want,      \* v4Agg
  saving,    \* the session is the one of "write memory"
  ctx,       \* runCtx: "live", "timeout", or "cancelled" with the cycle's
  silent,    \* the router has stopped answering in this session
  line,      \* the next line of the script that the router executes
  heard,     \* what out contains of what verifyIOSXEApplyOutput looks for
  outcome,   \* of the last cycle
  running, startup  \* the router's configurations

proc == <<fl, want>>
device == <<running, startup>>
vars == <<fl, pc, want, saving, ctx, silent, line, heard, outcome, running, startup>>

\* Each configuration line of the candidate has a number, sent or not.
P == Len(want)
PolicyLine(n) == 2 * P + 1 + n
ShowLine == PolicyLine(6)

TypeOK ==
  /\ fl \in Flags
  /\ pc \in {"idle", "target", "dial", "setup", "shell", "verify"}
  /\ want \in Seq(Prefix)
  /\ saving \in BOOLEAN /\ silent \in BOOLEAN
  /\ ctx \in {"live", "timeout", "cancelled"}
  /\ line \in 0 .. ShowLine + 1
  /\ heard \subseteq {"rejected", "names"}
  /\ outcome \in {"none", "ok", "error", "crashed"}
  /\ running \in Config /\ startup \in Config

Init ==
  /\ fl \in Flags
  /\ pc = "idle"
  /\ want = <<>>
  /\ saving = FALSE
  /\ ctx = "live"
  /\ silent = FALSE
  /\ line = 0
  /\ heard = {}
  /\ outcome = "none"
  /\ running = [list |-> {}, routes |-> {}, policy |-> {}]
  /\ startup = running

-----------------------------------------------------------------------------
(* The candidate: what each of its lines does to the router.               *)

SeqNo(i) == i * SeqStep

\* An entry replaces the one of its number.
Enter(list, n, e) == {x \in list : x.seq # n} \cup {[seq |-> n, entry |-> e]}

PolicySent ==
  {"map", "match"}
    \cup (IF fl.nextHop \/ fl.bgp THEN {"staticMap", "staticMatch"} ELSE {})
    \cup (IF fl.bgp THEN {"redistribute"} ELSE {})

Sent ==
  /\ line = 0 => fl.replace
  /\ line = P + 1 => P > 0
  /\ line \in P + 2 .. 2 * P + 1 => fl.nextHop
  /\ \A n \in 1 .. 5 : line = PolicyLine(n) => Policy[n] \in PolicySent

Effect(dev) ==
  [list   |-> IF line = 0           THEN {}
              ELSE IF line \in 1 .. P THEN Enter(dev.list, SeqNo(line), want[line])
              ELSE IF line = P + 1  THEN Enter(dev.list, DenySeq, Deny)
              ELSE dev.list,
   routes |-> dev.routes \cup {want[i] : i \in {n \in 1 .. P : line = P + 1 + n}},
   policy |-> dev.policy \cup
                {Policy[n] : n \in {m \in 1 .. 5 : line = PolicyLine(m)}}]

(* What a prefix-list lets through: the entries before the first deny, and *)
(* everything if there is no such list.                                    *)
Permits(list) ==
  IF list = {}
    THEN Prefix
    ELSE {p \in Prefix : \E x \in list : x.entry = p /\
             \A y \in list : y.entry = Deny => x.seq < y.seq}

-----------------------------------------------------------------------------
(* The process.                                                            *)

Begin ==
  /\ pc = "idle"
  /\ pc' = "target"
  /\ want' \in Lists
  /\ saving' = FALSE /\ ctx' = "live" /\ outcome' = "none"
  /\ line' = 0 /\ heard' = {}
  /\ UNCHANGED <<fl, silent, device>>

End(o) ==
  /\ pc' = "idle"
  /\ outcome' = o
  /\ silent' = FALSE
  /\ UNCHANGED <<fl, want, saving, ctx, line, heard, device>>

WithinLimit == MaxPrefixes = 0 \/ P <= MaxPrefixes

GuardPasses == fl.mode = "apply" /\ WithinLimit /\ fl.configured

(* Returns without touching the router: a cancelled context, a dry run,    *)
(* the file of render mode, a guard that refuses.                          *)
StayLocal ==
  /\ pc = "target"
  /\ \/ ctx = "cancelled" /\ End("error")
     \/ ctx = "live" /\ fl.dryRun /\ End("ok")
     \/ ctx = "live" /\ ~fl.dryRun /\ fl.mode = "render" /\
          (End("ok") \/ ("output" \in Faults /\ End("error")))
     \/ ctx = "live" /\ ~fl.dryRun /\ fl.mode # "render" /\ ~GuardPasses /\ End("error")

(* Every session has a timeout of its own, under the cycle's context.      *)
OpenSession(save) ==
  /\ pc' = "dial"
  /\ saving' = save
  /\ ctx' = IF ctx = "timeout" THEN "live" ELSE ctx
  /\ silent' = FALSE
  /\ line' = 0
  /\ heard' = {}
  /\ UNCHANGED <<fl, want, outcome, device>>

Apply ==
  /\ pc = "target" /\ ctx = "live"
  /\ ~fl.dryRun /\ fl.mode # "render" /\ GuardPasses
  /\ OpenSession(FALSE)

(* The key, known_hosts, the connection.                                   *)
DialFails ==
  /\ pc = "dial"
  /\ ctx # "live" \/ "dial" \in Faults
  /\ End("error")

Connect ==
  /\ pc = "dial" /\ ctx = "live" /\ ~silent
  /\ pc' = "setup"
  /\ UNCHANGED <<proc, saving, ctx, silent, line, heard, outcome, device>>

(* The handshake, the session, the terminal and the shell: no deadline is  *)
(* set on the connection, and runCtx is not looked at.                     *)
SetupFails ==
  /\ pc = "setup"
  /\ "setup" \in Faults
  /\ End("error")

ShellStarts ==
  /\ pc = "setup" /\ ~silent
  /\ pc' = "shell"
  /\ UNCHANGED <<proc, saving, ctx, silent, line, heard, outcome, device>>

-----------------------------------------------------------------------------
(* The router, in a shell.                                                 *)

InShell == pc = "shell" /\ ~silent

\* Mutant of Executes: the script is not ended by "exit".
ExecutesForever == InShell /\ ~saving

Executes == InShell /\ ~saving /\ line <= ShowLine

\* The line that has the last of the names that the postcheck requires: the
\* redistribution; else the list's route-map; and that of the static routes,
\* required although it was not sent, only in what is shown.
LastNamed ==
  IF fl.bgp THEN PolicyLine(5) ELSE IF fl.nextHop THEN PolicyLine(3) ELSE ShowLine

(* The names of the postcheck are read in what the router echoes of the    *)
(* configuration lines, or prints at the shows.                            *)
ExecuteLine ==
  /\ Executes
  /\ fl.iosxe \/ line \notin 1 .. P
  /\ running' = IF fl.iosxe /\ Sent THEN Effect(running) ELSE running
  /\ heard' \in {heard} \cup
       (IF line >= LastNamed /\ (fl.iosxe \/ line = ShowLine)
          THEN {heard \cup {"names"}} ELSE {})
  /\ line' = line + 1
  /\ UNCHANGED <<proc, pc, saving, ctx, silent, outcome, startup>>

\* How the router refuses a line: with a marker the code looks for, or not.
Refusals == {{"rejected"}} \cup IF "mutter" \in Faults THEN {{}} ELSE {}

(* A list of prefixes without commands is no configuration at all.         *)
RefuseLine ==
  /\ Executes /\ Sent /\ line < ShowLine
  /\ IF fl.iosxe THEN "reject" \in Faults ELSE line \in 1 .. P
  /\ \E r \in Refusals : heard' = heard \cup r
  /\ line' = line + 1
  /\ UNCHANGED <<proc, pc, saving, ctx, silent, outcome, device>>

WriteMemory ==
  /\ InShell /\ saving /\ line = 0
  /\ \/ startup' = running /\ UNCHANGED heard
     \/ /\ "reject" \in Faults
        /\ \E r \in Refusals : heard' = heard \cup r
        /\ UNCHANGED startup
  /\ line' = 1
  /\ UNCHANGED <<proc, pc, saving, ctx, silent, outcome, running>>

(* "exit", or an end from the router's side that looks the same.           *)
SessionEnds ==
  /\ InShell
  /\ \/ line > (IF saving THEN 0 ELSE ShowLine)
     \/ (IF saving THEN "cutSave" ELSE "cut") \in Faults
  /\ pc' = "verify"
  /\ UNCHANGED <<proc, saving, ctx, silent, line, heard, outcome, device>>

SessionLost ==
  /\ pc = "shell"
  /\ "lost" \in Faults
  /\ End("error")

\* Mutant of Expired: the session runs under the cycle's context only.
ExpiredWithCycle == ctx = "cancelled"

Expired == ctx # "live"

(* The select of runIOSXESSHScript.  The buffer is read while the session  *)
(* may still write to it, which can cost the process; what is read is not  *)
(* looked at.                                                              *)
TimesOut ==
  /\ pc = "shell"
  /\ Expired
  /\ End("error") \/ End("crashed")

-----------------------------------------------------------------------------

\* Mutant of Verified: nothing is required of the output.
VerifiedUnlessRejected == "rejected" \notin heard

\* Mutant of Verified: the rejections are not looked for.
VerifiedByNames == "names" \in heard

Verified == "rejected" \notin heard /\ "names" \in heard

VerifyApply ==
  /\ pc = "verify" /\ ~saving
  /\ \/ ~Verified /\ End("error")
     \/ Verified /\ ~fl.save /\ End("ok")
     \/ Verified /\ fl.save /\ OpenSession(TRUE)

VerifySave ==
  /\ pc = "verify" /\ saving
  /\ End(IF "rejected" \in heard THEN "error" ELSE "ok")

-----------------------------------------------------------------------------
(* The environment.                                                        *)

Timeout ==
  /\ pc \in {"dial", "setup", "shell"} /\ ctx = "live"
  /\ ctx' = "timeout"
  /\ UNCHANGED <<proc, pc, saving, silent, line, heard, outcome, device>>

\* SIGTERM, or the end of the oneshot budget.
Cancel ==
  /\ pc # "idle" /\ ctx # "cancelled"
  /\ ctx' = "cancelled"
  /\ UNCHANGED <<proc, pc, saving, silent, line, heard, outcome, device>>

\* The connection stays up and nothing comes from it.
FallSilent ==
  /\ "silent" \in Faults
  /\ pc \in {"dial", "setup", "shell"}
  /\ silent' = TRUE
  /\ UNCHANGED <<proc, pc, saving, ctx, line, heard, outcome, device>>

Crash ==
  /\ "crash" \in Faults
  /\ pc # "idle"
  /\ End("crashed")

Proceed ==
  \/ StayLocal \/ Apply \/ DialFails \/ Connect \/ ShellStarts
  \/ ExecuteLine \/ RefuseLine \/ WriteMemory \/ SessionEnds \/ TimesOut
  \/ VerifyApply \/ VerifySave

Next ==
  \/ Begin \/ Proceed
  \/ SetupFails \/ SessionLost \/ Timeout \/ Cancel \/ FallSilent \/ Crash

Spec == Init /\ [][Next]_vars

\* The process runs, a router that has not fallen silent answers, and the
\* timer of runCtx fires.
FairSpec == Spec /\ WF_vars(Proceed) /\ WF_vars(Timeout)

-----------------------------------------------------------------------------
(* Properties.                                                             *)

\* The router originates the list, all of it, and announces nothing else if
\* the old list was to be replaced.
Loaded(dev) ==
  LET wanted == {want[i] : i \in 1 .. P}
  IN  /\ PolicySent \subseteq dev.policy
      /\ wanted \subseteq Permits(dev.list)
      /\ fl.replace => Permits(dev.list) = wanted
      /\ fl.nextHop => wanted \subseteq dev.routes

Applies == fl.mode = "apply" /\ ~fl.dryRun /\ want # <<>>

(* A cycle that returns nil has loaded its list, whatever state the failed *)
(* and abandoned ones before it have left the router in, also when the     *)
(* router refuses a line or ends the session early: that the required      *)
(* names were seen and no marker was is evidence enough, unless a next-hop *)
(* is given without a BGP AS.  If the flags ask for it, the router boots   *)
(* with it, too.                                                           *)
SuccessMeansLoaded ==
  pc = "idle" /\ outcome = "ok" /\ Applies =>
    Loaded(running) /\ (fl.save => Loaded(startup))

(* What the router boots with is changed only to a verified state, never   *)
(* to what a rejected or interrupted script has left.                      *)
SavedIsVerified ==
  [][startup' # startup => want = <<>> \/ Loaded(startup')]_vars

(* A cycle ends, whatever the router does, unless the router falls silent  *)
(* between the connection and the shell: no timeout covers that part.      *)
OnlySetupStalls == []<>(pc = "idle") \/ <>[](pc = "setup" /\ silent)

(* What the documentation says of --iosxe-ssh-timeout: "SSH dial and       *)
(* session timeout" (CONFIGURATION.md).                                    *)
SessionsTimeOut == []<>(pc = "idle")

(* An empty list announces nothing, as the "explicit prefix-list" deny     *)
(* tail (CHANGELOG.md) suggests.                                           *)
EmptyListDeniesAll ==
  pc = "idle" /\ outcome = "ok" /\ fl.mode = "apply" /\ ~fl.dryRun
    /\ want = <<>> /\ fl.replace => Permits(running.list) = {}
=============================================================================
