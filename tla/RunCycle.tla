------------------------------ MODULE RunCycle ------------------------------
(***************************************************************************)
(* One cycle of georoute, for every country that has an instance on the    *)
(* host: run() of main.go with applyNft, and applyFRRConfigOpts of         *)
(* rollback.go with the two programs it starts.                            *)
(*                                                                         *)
(* The instances of different countries hold different locks, so their     *)
(* cycles interleave; what they share is one frr.conf and one FRR.  The    *)
(* cycles of one country never overlap (modules Lifecycle, RefreshLoop).   *)
(*                                                                         *)
(* A configuration file is what georoute tells apart in it: the content of *)
(* the block of each country, a set of prefixes.  The v4 and the v6 block  *)
(* of a country are read and written together, and are one set here.       *)
(***************************************************************************)
CONSTANTS
  Country,      \* the instances on the host, one per country code
  Prefix,       \* the prefixes of the feeds and of the extras files
  Extras,       \* [Country -> SUBSET Prefix], the operator's extras files
  Flags,        \* the command lines an instance may be started with
  Faults,       \* what may go wrong, a subset of Fault
  Valid,        \* the configuration files that vtysh -C accepts
  Shrinks       \* TRUE when a prefix may also leave a country's feed

Fault == {"fetch", "cacheWrite", "extras", "nft", "read", "syntax", "write",
          "reload", "restore", "resync", "cancel", "crash"}

Contents == [Country -> SUBSET Prefix]

Flag == [dryRun : BOOLEAN, updateNft : BOOLEAN, reloadOK : BOOLEAN,
         force : BOOLEAN]

ASSUME ExtrasAssumption  == Extras \in Contents
ASSUME FlagsAssumption   == Flags \subseteq Flag /\ Flags # {}
ASSUME FaultsAssumption  == Faults \subseteq Fault
ASSUME ValidAssumption   == Valid \subseteq Contents
                            /\ [c \in Country |-> {}] \in Valid
ASSUME ShrinksAssumption == Shrinks \in BOOLEAN

VARIABLES
  feed,         \* what RIPE Stat answers now, per country (external)
  cache,        \* the cache file of each country: no feed or one, as a set
  nft,          \* the nft sets {<cc>_v4, <cc>_v6} in the kernel (external)
  conf,         \* the live frr.conf
  frr,          \* what FRR advertises (external)
  pc,           \* where the cycle of each country is
  flag,         \* its command line
  cancelled,    \* its context is done: SIGTERM, or the outer deadline
  want,         \* its aggregated prefixes (v4Agg, v6Agg)
  next,         \* the spliced file it means to write
  backup,       \* the bytes it would put back
  diff,         \* what its frr-reload has still to add and delete (external)
  outcome,      \* how its last cycle ended
  start         \* history: frr.conf when its cycle began

files == <<nft, conf, frr>>
locals == <<flag, want, next, backup, diff, start>>
vars == <<feed, cache, files, pc, cancelled, outcome, locals>>

Empty  == [c \in Country |-> {}]
NoDiff == [add |-> Empty, del |-> Empty]
NoFlag == CHOOSE fl \in Flags : TRUE     \* between cycles no flag matters

Step == {"idle", "fetch", "extras", "nft", "read", "check", "backup", "write", "reload",
         "reloading", "restore", "resync", "resyncing"}
Outcome == {"none", "ok", "error", "restored", "unsynced", "broken", "crashed"}

Types ==
  /\ feed \in Contents
  /\ cache \in [Country -> SUBSET SUBSET Prefix]
  /\ nft \in Contents
  /\ conf \in Contents
  /\ frr \in Contents
  /\ pc \in [Country -> Step]
  /\ flag \in [Country -> Flags]
  /\ cancelled \in [Country -> BOOLEAN]
  /\ want \in Contents
  /\ next \in [Country -> Contents]
  /\ backup \in [Country -> Contents]
  /\ diff \in [Country -> [add : Contents, del : Contents]]
  /\ outcome \in [Country -> Outcome]
  /\ start \in [Country -> Contents]

(* A dry run goes no further than the nft step, and with --reload=false no *)
(* program is started for FRR.                                             *)
StagesFitFlags ==
  \A c \in Country :
    /\ flag[c].dryRun => pc[c] \in {"idle", "fetch", "extras", "nft"}
    /\ ~flag[c].reloadOK
         => pc[c] \in {"idle", "fetch", "extras", "nft", "read", "write"}

(* One type invariant: every variable holds a value of its kind, and a     *)
(* cycle is where its command line lets it be.                             *)
TypeOK == Types /\ StagesFitFlags

(* A fresh host: empty marker blocks, nothing marked, nothing advertised.  *)
Init ==
  /\ feed \in Contents
  /\ cache = [c \in Country |-> {}]
  /\ nft = Empty
  /\ conf = Empty
  /\ frr = Empty
  /\ pc = [c \in Country |-> "idle"]
  /\ flag = [c \in Country |-> NoFlag]
  /\ cancelled = [c \in Country |-> FALSE]
  /\ want = Empty
  /\ next = [c \in Country |-> Empty]
  /\ backup = [c \in Country |-> Empty]
  /\ diff = [c \in Country |-> NoDiff]
  /\ outcome = [c \in Country |-> "none"]
  /\ start = [c \in Country |-> Empty]

-----------------------------------------------------------------------------

Goto(c, from, to) == pc[c] = from /\ pc' = [pc EXCEPT ![c] = to]

(* The cycle of c returns: its locals go, its result stays.                *)
Finish(c, result) ==
  /\ pc' = [pc EXCEPT ![c] = "idle"]
  /\ outcome' = [outcome EXCEPT ![c] = result]
  /\ flag' = [flag EXCEPT ![c] = NoFlag]
  /\ cancelled' = [cancelled EXCEPT ![c] = FALSE]
  /\ want' = [want EXCEPT ![c] = {}]
  /\ next' = [next EXCEPT ![c] = Empty]
  /\ backup' = [backup EXCEPT ![c] = Empty]
  /\ diff' = [diff EXCEPT ![c] = NoDiff]
  /\ UNCHANGED <<feed, cache, start>>

(* A command started with a context that is done does not start, and one   *)
(* that is running is killed: it fails, as it may for a fault of its own.  *)
Fails(c, fault) == cancelled[c] \/ fault \in Faults

-----------------------------------------------------------------------------
(* The environment.                                                        *)

FeedChanges(c) ==
  /\ \E f \in SUBSET Prefix :
       /\ f # feed[c]
       /\ Shrinks \/ feed[c] \subseteq f
       /\ feed' = [feed EXCEPT ![c] = f]
  /\ UNCHANGED <<cache, files, pc, cancelled, outcome, locals>>

(* SIGTERM cancels daemonCtx, and the outer budget ends ctx, at any time.  *)
Cancel(c) ==
  /\ "cancel" \in Faults
  /\ pc[c] # "idle"
  /\ ~cancelled[c]
  /\ cancelled' = [cancelled EXCEPT ![c] = TRUE]
  /\ UNCHANGED <<feed, cache, files, pc, outcome, locals>>

-----------------------------------------------------------------------------
(* run(): fetch, extras, aggregate.                                        *)

StartCycle(c) ==
  /\ Goto(c, "idle", "fetch")
  /\ \E fl \in Flags : flag' = [flag EXCEPT ![c] = fl]
  /\ outcome' = [outcome EXCEPT ![c] = "none"]
  /\ start' = [start EXCEPT ![c] = conf]
  /\ UNCHANGED <<feed, cache, files, cancelled, want, next, backup, diff>>

(* The resources of the feed the cycle got.                                *)
Got(c, f) ==
  /\ Goto(c, "fetch", "extras")
  /\ want' = [want EXCEPT ![c] = f]
  /\ UNCHANGED <<feed, files, flag, cancelled, outcome, next, backup, diff,
                 start>>

(* A fresh answer also replaces the cache, unless that write fails.        *)
FetchFresh(c) ==
  /\ ~cancelled[c]
  /\ Got(c, feed[c])
  /\ \/ cache' = [cache EXCEPT ![c] = {feed[c]}]
     \/ "cacheWrite" \in Faults /\ UNCHANGED cache

FetchCached(c) ==
  /\ Fails(c, "fetch")
  /\ \E f \in cache[c] : Got(c, f)
  /\ UNCHANGED cache

(* A client error, or a cache that is missing, stale or unreadable.        *)
FetchFails(c) ==
  /\ pc[c] = "fetch"
  /\ Fails(c, "fetch")
  /\ Finish(c, "error")
  /\ UNCHANGED files

(* Extras are merged before aggregation, which covers the same addresses.  *)
LoadExtras(c) ==
  /\ Goto(c, "extras", "nft")
  /\ want' = [want EXCEPT ![c] = @ \cup Extras[c]]
  /\ UNCHANGED <<feed, cache, files, flag, cancelled, outcome, next, backup,
                 diff, start>>

(* So does a --target-mode that is not one of frr's: nothing is changed.   *)
ExtrasFail(c) ==
  /\ pc[c] = "extras"
  /\ "extras" \in Faults
  /\ Finish(c, "error")
  /\ UNCHANGED files

-----------------------------------------------------------------------------
(* run(): the nft sets, first.                                             *)

DryRun(c) ==
  /\ pc[c] = "nft"
  /\ flag[c].dryRun
  /\ Finish(c, "ok")
  /\ UNCHANGED files

NftSkipped(c) ==
  /\ ~flag[c].dryRun
  /\ ~flag[c].updateNft
  /\ Goto(c, "nft", "read")
  /\ UNCHANGED <<feed, cache, files, cancelled, outcome, locals>>

\* Mutant of MayNft: the dry run ends after the nft sets, not before them.
MayNftDry(c) == pc[c] = "nft" /\ flag[c].updateNft

MayNft(c) == pc[c] = "nft" /\ ~flag[c].dryRun /\ flag[c].updateNft

(* nft -f commits flush and add of both sets as one transaction.           *)
NftApplied(c) ==
  /\ MayNft(c)
  /\ ~cancelled[c]
  /\ Goto(c, "nft", "read")
  /\ nft' = [nft EXCEPT ![c] = want[c]]
  /\ UNCHANGED <<feed, cache, conf, frr, cancelled, outcome, locals>>

\* Mutant of NftFails: the error is logged and the cycle goes on.
NftFailureLogged(c) ==
  /\ MayNft(c)
  /\ Fails(c, "nft")
  /\ Goto(c, "nft", "read")
  /\ UNCHANGED <<feed, cache, files, cancelled, outcome, locals>>

(* A killed nft may have committed before it died.                         *)
NftFails(c) ==
  /\ MayNft(c)
  /\ Fails(c, "nft")
  /\ nft' \in {nft, [nft EXCEPT ![c] = want[c]]}
  /\ Finish(c, "error")
  /\ UNCHANGED <<conf, frr>>

-----------------------------------------------------------------------------
(* run(): read frr.conf, splice both blocks, stop when nothing changed.    *)

Splice(file, c, block) == [file EXCEPT ![c] = block]

\* Mutant of Unchanged: a block that is there counts as up to date.
UnchangedWhenPresent(c) == ~flag[c].force /\ conf[c] # {}

Unchanged(c) == ~flag[c].force /\ Splice(conf, c, want[c]) = conf

ReadConf(c) ==
  /\ ~Unchanged(c)
  /\ Goto(c, "read", IF flag[c].reloadOK THEN "check" ELSE "write")
  /\ next' = [next EXCEPT ![c] = Splice(conf, c, want[c])]
  /\ UNCHANGED <<feed, cache, files, flag, cancelled, outcome, want, backup,
                 diff, start>>

SkipUnchanged(c) ==
  /\ pc[c] = "read"
  /\ Unchanged(c)
  /\ Finish(c, "ok")
  /\ UNCHANGED files

(* The file cannot be read, or has lost its markers.                       *)
ReadFails(c) ==
  /\ pc[c] = "read"
  /\ "read" \in Faults
  /\ Finish(c, "error")
  /\ UNCHANGED files

-----------------------------------------------------------------------------
(* applyFRRConfigOpts().                                                   *)

\* Mutant of CheckPasses: what vtysh -C says of the staged file is ignored.
CheckIgnored(c) ==
  /\ ~cancelled[c]
  /\ Goto(c, "check", "backup")
  /\ UNCHANGED <<feed, cache, files, cancelled, outcome, locals>>

CheckPasses(c) ==
  /\ ~cancelled[c]
  /\ next[c] \in Valid
  /\ Goto(c, "check", "backup")
  /\ UNCHANGED <<feed, cache, files, cancelled, outcome, locals>>

(* Staging fails, vtysh rejects the staged file, or vtysh is killed.       *)
CheckFails(c) ==
  /\ pc[c] = "check"
  /\ next[c] \notin Valid \/ Fails(c, "syntax")
  /\ Finish(c, "error")
  /\ UNCHANGED files

\* Mutant of ReadBackup: the backup is read after the write.
BackupOfNext(c) ==
  /\ Goto(c, "backup", "write")
  /\ backup' = [backup EXCEPT ![c] = next[c]]
  /\ UNCHANGED <<feed, cache, files, flag, cancelled, outcome, want, next,
                 diff, start>>

(* The backup is what is live now, which need not be what run() read.      *)
ReadBackup(c) ==
  /\ Goto(c, "backup", "write")
  /\ backup' = [backup EXCEPT ![c] = conf]
  /\ UNCHANGED <<feed, cache, files, flag, cancelled, outcome, want, next,
                 diff, start>>

BackupFails(c) ==
  /\ pc[c] = "backup"
  /\ "read" \in Faults
  /\ Finish(c, "error")
  /\ UNCHANGED files

WriteConf(c) ==
  /\ flag[c].reloadOK
  /\ Goto(c, "write", "reload")
  /\ conf' = next[c]
  /\ UNCHANGED <<feed, cache, nft, frr, cancelled, outcome, locals>>

(* --reload=false: the file is written, unchecked, and nothing is started. *)
WriteOnly(c) ==
  /\ pc[c] = "write"
  /\ ~flag[c].reloadOK
  /\ conf' = next[c]
  /\ Finish(c, "ok")
  /\ UNCHANGED <<nft, frr>>

(* atomicWrite fails before its rename: the live file is as it was.        *)
WriteFails(c) ==
  /\ pc[c] = "write"
  /\ "write" \in Faults
  /\ Finish(c, "error")
  /\ UNCHANGED files

-----------------------------------------------------------------------------
(* frr-reload.py compares the file with the running configuration when it  *)
(* starts and then issues the difference; killed or failing, it has issued *)
(* a part of it.                                                           *)

ReloadStarts(c, from, to) ==
  /\ ~cancelled[c]
  /\ Goto(c, from, to)
  /\ diff' = [diff EXCEPT ![c] =
       [add |-> [d \in Country |-> conf[d] \ frr[d]],
        del |-> [d \in Country |-> frr[d] \ conf[d]]]]
  /\ UNCHANGED <<feed, cache, files, flag, cancelled, outcome, want, next,
                 backup, start>>

Loaded(c) ==
  [d \in Country |-> (frr[d] \ diff[c].del[d]) \cup diff[c].add[d]]

PartlyLoaded(c) ==
  {f \in Contents : \A d \in Country :
     /\ frr[d] \ diff[c].del[d] \subseteq f[d]
     /\ f[d] \subseteq frr[d] \cup diff[c].add[d]}

BeginReload(c) == ReloadStarts(c, "reload", "reloading")

ReloadSucceeds(c) ==
  /\ pc[c] = "reloading"
  /\ ~cancelled[c]
  /\ frr' = Loaded(c)
  /\ Finish(c, "ok")
  /\ UNCHANGED <<nft, conf>>

\* Mutant of ReloadFails: the exit code of frr-reload.py is ignored.
ReloadFailureLogged(c) ==
  /\ pc[c] = "reloading"
  /\ Fails(c, "reload")
  /\ frr' \in PartlyLoaded(c)
  /\ Finish(c, "ok")
  /\ UNCHANGED <<nft, conf>>

(* With its context done the reload does not start at all.                 *)
ReloadFails(c) ==
  /\ \/ /\ Goto(c, "reload", "restore")
        /\ cancelled[c]
        /\ UNCHANGED frr
     \/ /\ Goto(c, "reloading", "restore")
        /\ Fails(c, "reload")
        /\ frr' \in PartlyLoaded(c)
  /\ diff' = [diff EXCEPT ![c] = NoDiff]
  /\ UNCHANGED <<feed, cache, nft, conf, flag, cancelled, outcome, want, next,
                 backup, start>>

\* Mutant of RestoreConf: the file is put back, and FRR is not told.
RestoreWithoutResync(c) ==
  /\ pc[c] = "restore"
  /\ conf' = backup[c]
  /\ Finish(c, "restored")
  /\ UNCHANGED <<nft, frr>>

RestoreConf(c) ==
  /\ Goto(c, "restore", "resync")
  /\ conf' = backup[c]
  /\ UNCHANGED <<feed, cache, nft, frr, cancelled, outcome, locals>>

RestoreFails(c) ==
  /\ pc[c] = "restore"
  /\ "restore" \in Faults
  /\ Finish(c, "broken")
  /\ UNCHANGED files

BeginResync(c) == ReloadStarts(c, "resync", "resyncing")

ResyncSucceeds(c) ==
  /\ pc[c] = "resyncing"
  /\ ~cancelled[c]
  /\ frr' = Loaded(c)
  /\ Finish(c, "restored")
  /\ UNCHANGED <<nft, conf>>

ResyncFails(c) ==
  /\ \/ pc[c] = "resync" /\ cancelled[c] /\ UNCHANGED frr
     \/ /\ pc[c] = "resyncing"
        /\ Fails(c, "resync")
        /\ frr' \in PartlyLoaded(c)
  /\ Finish(c, "unsynced")
  /\ UNCHANGED <<nft, conf>>

-----------------------------------------------------------------------------

(* The process dies: SIGKILL, a lost host's power, or in oneshot mode any  *)
(* SIGTERM, which has no handler until the work is done.  A program it had *)
(* started may have done a part of its work, and dies with it: systemd     *)
(* kills the whole control group of a unit.  (A manual run's child may     *)
(* outlive it, which is not modelled.)                                     *)
Crash(c) ==
  /\ "crash" \in Faults
  /\ pc[c] # "idle"
  /\ \/ MayNft(c) /\ nft' = [nft EXCEPT ![c] = want[c]] /\ UNCHANGED frr
     \/ /\ pc[c] \in {"reloading", "resyncing"}
        /\ frr' \in PartlyLoaded(c)
        /\ UNCHANGED nft
     \/ UNCHANGED <<nft, frr>>
  /\ Finish(c, "crashed")
  /\ UNCHANGED conf

(* What the cycle of c does next, by its own code and its children.        *)
Proceed(c) ==
  \/ FetchFresh(c) \/ FetchCached(c) \/ FetchFails(c)
  \/ LoadExtras(c) \/ ExtrasFail(c)
  \/ DryRun(c) \/ NftSkipped(c) \/ NftApplied(c) \/ NftFails(c)
  \/ ReadConf(c) \/ SkipUnchanged(c) \/ ReadFails(c)
  \/ CheckPasses(c) \/ CheckFails(c) \/ ReadBackup(c) \/ BackupFails(c)
  \/ WriteConf(c) \/ WriteOnly(c) \/ WriteFails(c)
  \/ BeginReload(c) \/ ReloadSucceeds(c) \/ ReloadFails(c)
  \/ RestoreConf(c) \/ RestoreFails(c)
  \/ BeginResync(c) \/ ResyncSucceeds(c) \/ ResyncFails(c)

Next == \E c \in Country :
  FeedChanges(c) \/ Cancel(c) \/ Crash(c) \/ StartCycle(c) \/ Proceed(c)

Spec == Init /\ [][Next]_vars

(* The scheduler runs the goroutine, the programs it starts end (nft and   *)
(* frr-reload under their timeouts), and the timer or ticker fires again.  *)
Fairness == \A c \in Country : WF_vars(Proceed(c)) /\ WF_vars(StartCycle(c))

FairSpec == Spec /\ Fairness

-----------------------------------------------------------------------------
(* Properties.                                                             *)

(* The data plane is never behind the control plane: whatever FRR          *)
(* advertises for a country is in that country's nft sets, at every moment *)
(* of every interleaving, through failed, rolled back, killed and crashed  *)
(* cycles (the order nft, then frr.conf, then reload, in run()).  It needs *)
(* feeds that only grow and a cache that is written: see the README.       *)
AdvertisedIsMarked == \A c \in Country : frr[c] \subseteq nft[c]

(* The live frr.conf is one that vtysh -C accepts as a whole, although two *)
(* instances write it and restore it from backups taken at different times *)
(* (applyFRRConfigOpts checks the very bytes it will write).               *)
LiveConfValid == conf \in Valid

(* A cycle that returns an error leaves frr.conf as it found it: it failed *)
(* before the write, or it put the backup back.  Only the failure of that  *)
(* restore itself is exempt.  For one instance on the host.                *)
FailureKeepsConf ==
  \A c \in Country :
    pc[c] = "idle" /\ outcome[c] \in {"error", "restored", "unsynced"}
      => conf = start[c]

(* When the rollback reports that the backup is restored, FRR runs exactly *)
(* the file that is live again, whatever part of the failed reload or of   *)
(* an earlier crash it had applied.  For one instance on the host.         *)
RestoredIsInSync ==
  \A c \in Country : pc[c] = "idle" /\ outcome[c] = "restored" => frr = conf

(* A cycle that returns nil leaves the kernel, frr.conf and FRR with the   *)
(* same prefixes for its country, also when it skipped the reload because  *)
(* the file did not change.                                                *)
SuccessMeansApplied ==
  \A c \in Country :
    pc[c] = "idle" /\ outcome[c] = "ok" => nft[c] = conf[c] /\ frr[c] = conf[c]

(* A cycle that is to reload and returns nil has pushed frr.conf to FRR,   *)
(* also a file that an earlier --reload=false run staged.                  *)
ReloadPushes ==
  [][\A c \in Country :
       pc[c] # "idle" /\ outcome'[c] = "ok" /\ flag[c].reloadOK
         /\ ~flag[c].dryRun
           => frr'[c] = conf'[c]]_vars

(* The block of a country in frr.conf is changed by its own cycle alone.   *)
OwnBlockOnly ==
  [][\A c \in Country : conf'[c] # conf[c] => pc'[c] # pc[c]]_vars

(* No cycle that came to its end, rather than to a crash, leaves FRR with  *)
(* a part of a reload: it runs the live file.  For one instance.           *)
DrainedInSync ==
  \A c \in Country : pc[c] = "idle" /\ outcome[c] # "crashed" => frr = conf

(* A reload that fails leaves the new frr.conf written, for the operator   *)
(* to revert.  The rollback puts the backup back instead.                  *)
FailedReloadLeavesNext ==
  [][\A c \in Country :
       pc[c] # "idle" /\ outcome'[c] \in {"restored", "unsynced"}
         => conf' = next[c]]_vars

(* Between cycles the marked and the advertised prefixes of a country are  *)
(* those of one aggregation pass.                                          *)
PlanesAgree == \A c \in Country : pc[c] = "idle" => nft[c] = frr[c]

(* The kernel, the file and FRR all hold the feed and the extras.          *)
Applied(c) ==
  nft[c] = feed[c] \cup Extras[c] /\ conf[c] = nft[c] /\ frr[c] = nft[c]

(* Whatever failed before, once the cycles of a country succeed again, and *)
(* its feed is stable, what it wants is applied everywhere and stays so.   *)
Heals ==
  \A c \in Country :
    <>[](outcome[c] \in {"none", "ok"}) /\ <>[][feed' = feed]_vars
      => <>[]Applied(c)

-----------------------------------------------------------------------------
(* One instance on the host implements AllOrNothing: during its cycle the  *)
(* configuration counts as the one the cycle started from.                 *)
Idle == \A c \in Country : pc[c] = "idle"
Before == start[CHOOSE c \in Country : TRUE]

Abstract == INSTANCE AllOrNothing WITH
  Initial <- Empty,
  file    <- IF Idle THEN conf ELSE Before,
  running <- IF Idle THEN frr ELSE Before,
  busy    <- ~Idle

(* Every cycle of a single instance, with any step of it failing but the   *)
(* restore itself, commits a checked configuration to file and FRR, or     *)
(* changes neither (applyFRRConfigOpts as a transaction).                  *)
ApplyIsAllOrNothing == Abstract!Spec
=============================================================================
