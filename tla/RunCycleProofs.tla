-------------------------- MODULE RunCycleProofs --------------------------
(***************************************************************************)
(* Theorems about RunCycle, for any set of countries and of prefixes.      *)
(***************************************************************************)
EXTENDS RunCycle, TLAPS

USE ExtrasAssumption, FlagsAssumption, FaultsAssumption, ValidAssumption,
    ShrinksAssumption

LEMMA EmptyIsContents == Empty \in Contents
BY DEF Empty, Contents

LEMMA NoFlagIsFlag == NoFlag \in Flags
BY DEF NoFlag

(* A cycle that returns leaves every variable in its type.                 *)
LEMMA FinishType ==
  ASSUME Types, NEW c \in Country, NEW r \in Outcome, Finish(c, r),
         nft' \in Contents, conf' \in Contents, frr' \in Contents
  PROVE  Types'
<1>1. NoDiff \in [add : Contents, del : Contents]
  BY EmptyIsContents DEF NoDiff
<1>2. want' \in Contents
  BY DEF Types, Finish, Contents
<1>3. pc' \in [Country -> Step] /\ outcome' \in [Country -> Outcome]
  BY DEF Types, Finish, Step
<1>4. next' \in [Country -> Contents] /\ backup' \in [Country -> Contents]
  BY EmptyIsContents DEF Types, Finish
<1>5. flag' \in [Country -> Flags] /\ cancelled' \in [Country -> BOOLEAN]
  BY NoFlagIsFlag DEF Types, Finish
<1>6. diff' \in [Country -> [add : Contents, del : Contents]]
  BY <1>1 DEF Types, Finish
<1> QED
  BY <1>2, <1>3, <1>4, <1>5, <1>6 DEF Types, Finish

(* Splicing a block into a file gives a file.                              *)
LEMMA SpliceType ==
  ASSUME NEW file \in Contents, NEW c \in Country, NEW block \in SUBSET Prefix
  PROVE  /\ Splice(file, c, block) \in Contents
         /\ Splice(file, c, block)[c] = block
         /\ \A d \in Country \ {c} : Splice(file, c, block)[d] = file[d]
BY DEF Splice, Contents

(* A reload, complete or not, leaves FRR with a configuration, and with    *)
(* nothing but what it ran before and what it was given to add.            *)
LEMMA LoadedType ==
  ASSUME Types, NEW c \in Country
  PROVE  /\ Loaded(c) \in Contents
         /\ \A f \in PartlyLoaded(c) \cup {Loaded(c)} :
              /\ f \in Contents
              /\ \A d \in Country : f[d] \subseteq frr[d] \cup diff[c].add[d]
<1>1. frr \in Contents /\ diff[c].add \in Contents /\ diff[c].del \in Contents
  BY DEF Types
<1>2. Loaded(c) \in Contents
  BY <1>1 DEF Loaded, Contents
<1>3. \A d \in Country : Loaded(c)[d] \subseteq frr[d] \cup diff[c].add[d]
  BY <1>1 DEF Loaded
<1> QED
  BY <1>2, <1>3 DEF PartlyLoaded

(* What a reload that starts has to do.                                    *)
LEMMA ReloadStartsType ==
  ASSUME Types, NEW c \in Country, NEW from \in Step, NEW to \in Step,
         ReloadStarts(c, from, to)
  PROVE  Types'
<1> DEFINE D == [add |-> [d \in Country |-> conf[d] \ frr[d]],
                 del |-> [d \in Country |-> frr[d] \ conf[d]]]
<1>1. D.add \in Contents /\ D.del \in Contents
  BY DEF Types, Contents
<1>2. D \in [add : Contents, del : Contents]
  BY <1>1
<1>3. diff' = [diff EXCEPT ![c] = D]
  BY DEF ReloadStarts
<1> HIDE DEF D
<1>4. diff' \in [Country -> [add : Contents, del : Contents]]
  BY <1>2, <1>3 DEF Types
<1>5. pc' \in [Country -> Step]
  BY DEF Types, ReloadStarts, Goto
<1> QED
  BY <1>4, <1>5 DEF Types, ReloadStarts, files

(* Every step keeps every variable in its type.                            *)
LEMMA TypeStep == Types /\ [Next]_vars => Types'
<1> SUFFICES ASSUME Types, [Next]_vars PROVE Types'
  OBVIOUS
<1>1. CASE UNCHANGED vars
  BY <1>1 DEF Types, vars, files, locals
<1>2. ASSUME NEW c \in Country, FeedChanges(c) PROVE Types'
  BY <1>2 DEF FeedChanges, Types, Contents, files, locals
<1>3. ASSUME NEW c \in Country, Cancel(c) PROVE Types'
  BY <1>3 DEF Cancel, Types, files, locals
<1>4. ASSUME NEW c \in Country, StartCycle(c) PROVE Types'
  <2>1. pc' \in [Country -> Step] /\ outcome' \in [Country -> Outcome]
    BY <1>4 DEF StartCycle, Goto, Types, Step, Outcome
  <2>2. flag' \in [Country -> Flags] /\ start' \in [Country -> Contents]
    BY <1>4 DEF StartCycle, Types
  <2> QED
    BY <1>4, <2>1, <2>2 DEF StartCycle, Types, files
<1>5. ASSUME NEW c \in Country, NEW f \in SUBSET Prefix, Got(c, f),
             cache' \in [Country -> SUBSET SUBSET Prefix]
      PROVE  Types'
  <2>1. pc' \in [Country -> Step] /\ want' \in Contents
    BY <1>5 DEF Got, Goto, Types, Step, Contents
  <2> QED
    BY <1>5, <2>1 DEF Got, Types, files
<1>6. ASSUME NEW c \in Country, FetchFresh(c) PROVE Types'
  <2>1. feed[c] \in SUBSET Prefix
    BY DEF Types, Contents
  <2>2. cache' \in [Country -> SUBSET SUBSET Prefix]
    BY <1>6, <2>1 DEF FetchFresh, Types
  <2> QED
    BY <1>5, <1>6, <2>1, <2>2 DEF FetchFresh
<1>7. ASSUME NEW c \in Country, FetchCached(c) PROVE Types'
  <2>1. PICK f \in cache[c] : Got(c, f)
    BY <1>7 DEF FetchCached
  <2>2. f \in SUBSET Prefix
    BY DEF Types
  <2> QED
    BY <1>5, <1>7, <2>1, <2>2 DEF FetchCached, Types
<1>8. ASSUME NEW c \in Country, LoadExtras(c) PROVE Types'
  <2>1. want' \in Contents
    BY <1>8 DEF LoadExtras, Types, Contents
  <2>2. pc' \in [Country -> Step]
    BY <1>8 DEF LoadExtras, Goto, Types, Step
  <2> QED
    BY <1>8, <2>1, <2>2 DEF LoadExtras, Types, files
<1>9. ASSUME NEW c \in Country,
             \/ FetchFails(c) \/ ExtrasFail(c) \/ DryRun(c)
             \/ SkipUnchanged(c) \/ ReadFails(c) \/ CheckFails(c)
             \/ BackupFails(c) \/ WriteFails(c) \/ RestoreFails(c)
      PROVE  Types'
  <2>1. nft' \in Contents /\ conf' \in Contents /\ frr' \in Contents
    BY <1>9 DEF Types, files, FetchFails, ExtrasFail, DryRun, SkipUnchanged,
      ReadFails, CheckFails, BackupFails, WriteFails, RestoreFails
  <2>2. \E r \in Outcome : Finish(c, r)
    BY <1>9 DEF Outcome, FetchFails, ExtrasFail, DryRun, SkipUnchanged,
      ReadFails, CheckFails, BackupFails, WriteFails, RestoreFails
  <2> QED
    BY <2>1, <2>2, FinishType
<1>10. ASSUME NEW c \in Country, NftSkipped(c) PROVE Types'
  BY <1>10 DEF NftSkipped, Goto, Types, Step, files, locals
<1>11. ASSUME NEW c \in Country, NftApplied(c) PROVE Types'
  <2>1. nft' \in Contents
    BY <1>11 DEF NftApplied, Types, Contents
  <2> QED
    BY <1>11, <2>1 DEF NftApplied, Goto, Types, Step, locals
<1>12. ASSUME NEW c \in Country, NftFails(c) PROVE Types'
  <2>1. nft' \in Contents
    BY <1>12 DEF NftFails, Types, Contents
  <2>2. conf' \in Contents /\ frr' \in Contents
    BY <1>12 DEF NftFails, Types
  <2>3. Finish(c, "error")
    BY <1>12 DEF NftFails
  <2> QED
    BY <2>1, <2>2, <2>3, FinishType DEF Outcome
<1>13. ASSUME NEW c \in Country, ReadConf(c) PROVE Types'
  <2>1. Splice(conf, c, want[c]) \in Contents
    BY SpliceType DEF Types, Contents
  <2>2. next' \in [Country -> Contents]
    BY <1>13, <2>1 DEF ReadConf, Types
  <2>3. pc' \in [Country -> Step]
    BY <1>13 DEF ReadConf, Goto, Types, Step
  <2> QED
    BY <1>13, <2>2, <2>3 DEF ReadConf, Types, files
<1>14. ASSUME NEW c \in Country, CheckPasses(c) PROVE Types'
  BY <1>14 DEF CheckPasses, Goto, Types, Step, files, locals
<1>15. ASSUME NEW c \in Country, ReadBackup(c) PROVE Types'
  <2>1. backup' \in [Country -> Contents] /\ pc' \in [Country -> Step]
    BY <1>15 DEF ReadBackup, Goto, Types, Step
  <2> QED
    BY <1>15, <2>1 DEF ReadBackup, Types, files
<1>16. ASSUME NEW c \in Country, WriteConf(c) \/ RestoreConf(c) PROVE Types'
  <2>1. conf' \in Contents /\ pc' \in [Country -> Step]
    BY <1>16 DEF WriteConf, RestoreConf, Goto, Types, Step
  <2> QED
    BY <1>16, <2>1 DEF WriteConf, RestoreConf, Types, locals
<1>17. ASSUME NEW c \in Country, WriteOnly(c) PROVE Types'
  <2>1. nft' \in Contents /\ conf' \in Contents /\ frr' \in Contents
    BY <1>17 DEF WriteOnly, Types
  <2>2. Finish(c, "ok")
    BY <1>17 DEF WriteOnly
  <2> QED
    BY <2>1, <2>2, FinishType DEF Outcome
<1>18. ASSUME NEW c \in Country, BeginReload(c) \/ BeginResync(c) PROVE Types'
  BY <1>18, ReloadStartsType DEF BeginReload, BeginResync, Step
<1>19. ASSUME NEW c \in Country, ReloadFails(c) PROVE Types'
  <2>1. frr' \in Contents
    BY <1>19, LoadedType DEF ReloadFails, Types
  <2>2. NoDiff \in [add : Contents, del : Contents]
    BY EmptyIsContents DEF NoDiff
  <2>3. diff' \in [Country -> [add : Contents, del : Contents]]
    BY <1>19, <2>2 DEF ReloadFails, Types
  <2>4. pc' \in [Country -> Step]
    BY <1>19 DEF ReloadFails, Goto, Types, Step
  <2> QED
    BY <1>19, <2>1, <2>3, <2>4 DEF ReloadFails, Types
<1>20. ASSUME NEW c \in Country,
              ReloadSucceeds(c) \/ ResyncSucceeds(c) \/ ResyncFails(c)
       PROVE  Types'
  <2>1. nft' \in Contents /\ conf' \in Contents /\ frr' \in Contents
    BY <1>20, LoadedType DEF ReloadSucceeds, ResyncSucceeds, ResyncFails, Types
  <2>2. \E r \in Outcome : Finish(c, r)
    BY <1>20 DEF ReloadSucceeds, ResyncSucceeds, ResyncFails, Outcome
  <2> QED
    BY <2>1, <2>2, FinishType
<1>21. ASSUME NEW c \in Country, Crash(c) PROVE Types'
  <2>1. [nft EXCEPT ![c] = want[c]] \in Contents
    BY DEF Types, Contents
  <2>2. nft' \in Contents /\ conf' \in Contents /\ frr' \in Contents
    BY <1>21, <2>1, LoadedType DEF Crash, Types
  <2>3. Finish(c, "crashed")
    BY <1>21 DEF Crash
  <2> QED
    BY <2>2, <2>3, FinishType DEF Outcome
<1> QED
  BY <1>1, <1>2, <1>3, <1>4, <1>6, <1>7, <1>8, <1>9, <1>10, <1>11, <1>12,
     <1>13, <1>14, <1>15, <1>16, <1>17, <1>18, <1>19, <1>20, <1>21
     DEF Next, Proceed

(* Every variable of RunCycle holds a value of its kind in every state of  *)
(* every behaviour.                                                        *)
THEOREM TypesHold == Spec => []Types
<1>1. Init => Types
  <2> SUFFICES ASSUME Init PROVE Types
    OBVIOUS
  <2>1. NoDiff \in [add : Contents, del : Contents]
    BY EmptyIsContents DEF NoDiff
  <2>2. nft \in Contents /\ conf \in Contents /\ frr \in Contents
        /\ want \in Contents
    BY EmptyIsContents DEF Init
  <2>3. next \in [Country -> Contents] /\ backup \in [Country -> Contents]
        /\ start \in [Country -> Contents]
    BY EmptyIsContents DEF Init
  <2>4. pc \in [Country -> Step] /\ outcome \in [Country -> Outcome]
        /\ flag \in [Country -> Flags] /\ cancelled \in [Country -> BOOLEAN]
    BY NoFlagIsFlag DEF Init, Step, Outcome
  <2>5. cache \in [Country -> SUBSET SUBSET Prefix] /\ feed \in Contents
        /\ diff \in [Country -> [add : Contents, del : Contents]]
    BY <2>1 DEF Init
  <2> QED
    BY <2>2, <2>3, <2>4, <2>5 DEF Types
<1> QED
  BY <1>1, TypeStep, PTL DEF Spec

(* A cycle that goes to a stage its command line leads to.                 *)
LEMMA StageKeeps ==
  ASSUME Types, StagesFitFlags, NEW c \in Country, NEW to,
         pc' = [pc EXCEPT ![c] = to],
         \A d \in Country \ {c} : flag'[d] = flag[d],
         flag'[c].dryRun => to \in {"idle", "fetch", "extras", "nft"},
         ~flag'[c].reloadOK
           => to \in {"idle", "fetch", "extras", "nft", "read", "write"}
  PROVE  StagesFitFlags'
<1> SUFFICES ASSUME NEW d \in Country
             PROVE  /\ flag'[d].dryRun => pc'[d] \in {"idle", "fetch", "extras", "nft"}
                    /\ ~flag'[d].reloadOK
                         => pc'[d] \in {"idle", "fetch", "extras", "nft", "read", "write"}
  BY DEF StagesFitFlags
<1>1. CASE d = c
  BY <1>1 DEF Types
<1>2. CASE d # c
  <2>1. pc'[d] = pc[d] /\ flag'[d] = flag[d]
    BY <1>2 DEF Types
  <2> QED
    BY <2>1 DEF StagesFitFlags
<1> QED
  BY <1>1, <1>2

LEMMA FinishStage ==
  ASSUME Types, StagesFitFlags, NEW c \in Country, NEW r, Finish(c, r)
  PROVE  StagesFitFlags'
<1>1. \A d \in Country \ {c} : flag'[d] = flag[d]
  BY DEF Finish, Types
<1> QED
  BY <1>1, StageKeeps DEF Finish

(* A cycle past the nft step is no dry run, and one that has started a     *)
(* program for FRR is to reload.                                           *)
LEMMA LateStage ==
  ASSUME Types, StagesFitFlags, NEW c \in Country, NEW from, NEW to,
         Goto(c, from, to), UNCHANGED flag,
         from \notin {"idle", "fetch", "extras", "nft"},
         from \in {"read", "write"} =>
           flag[c].reloadOK \/ to \in {"read", "write"}
  PROVE  StagesFitFlags'
<1>1. ~flag[c].dryRun
  BY DEF Goto, StagesFitFlags
<1>2. flag[c].reloadOK \/ to \in {"read", "write"}
  BY DEF Goto, StagesFitFlags
<1> QED
  BY <1>1, <1>2, StageKeeps DEF Goto

LEMMA EarlyStage ==
  ASSUME Types, StagesFitFlags, NEW c \in Country, NEW from, NEW to,
         Goto(c, from, to), UNCHANGED flag,
         to \in {"fetch", "extras", "nft"}
  PROVE  StagesFitFlags'
BY StageKeeps DEF Goto

(* Every step leaves every cycle where its command line lets it be.        *)
LEMMA StageStep == Types /\ StagesFitFlags /\ [Next]_vars => StagesFitFlags'
<1> SUFFICES ASSUME Types, StagesFitFlags, [Next]_vars PROVE StagesFitFlags'
  OBVIOUS
<1>1. CASE UNCHANGED vars
  BY <1>1 DEF StagesFitFlags, vars, locals
<1>2. ASSUME NEW c \in Country, FeedChanges(c) \/ Cancel(c) PROVE StagesFitFlags'
  BY <1>2 DEF FeedChanges, Cancel, StagesFitFlags, locals
<1>3. ASSUME NEW c \in Country, StartCycle(c) PROVE StagesFitFlags'
  <2>1. pc' = [pc EXCEPT ![c] = "fetch"]
    BY <1>3 DEF StartCycle, Goto
  <2>2. \A d \in Country \ {c} : flag'[d] = flag[d]
    BY <1>3 DEF StartCycle, Types
  <2> QED
    BY <2>1, <2>2, StageKeeps
<1>4. ASSUME NEW c \in Country, FetchFresh(c) \/ FetchCached(c) \/ LoadExtras(c)
      PROVE  StagesFitFlags'
  <2>1. /\ Goto(c, "fetch", "extras") \/ Goto(c, "extras", "nft")
        /\ UNCHANGED flag
    BY <1>4 DEF FetchFresh, FetchCached, LoadExtras, Got
  <2> QED
    BY <2>1, EarlyStage
<1>5. ASSUME NEW c \in Country, NftSkipped(c) \/ NftApplied(c)
      PROVE  StagesFitFlags'
  <2>1. pc' = [pc EXCEPT ![c] = "read"] /\ UNCHANGED flag /\ ~flag[c].dryRun
    BY <1>5 DEF NftSkipped, NftApplied, MayNft, Goto, locals
  <2> QED
    BY <2>1, StageKeeps
<1>6. ASSUME NEW c \in Country, ReadConf(c) PROVE StagesFitFlags'
  <2>1. CASE flag[c].reloadOK
    <3>1. Goto(c, "read", "check") /\ UNCHANGED flag
      BY <1>6, <2>1 DEF ReadConf
    <3> QED
      BY <2>1, <3>1, LateStage
  <2>2. CASE ~flag[c].reloadOK
    <3>1. Goto(c, "read", "write") /\ UNCHANGED flag
      BY <1>6, <2>2 DEF ReadConf
    <3> QED
      BY <3>1, LateStage
  <2> QED
    BY <2>1, <2>2
<1>7. ASSUME NEW c \in Country, CheckPasses(c) \/ ReadBackup(c)
      PROVE  StagesFitFlags'
  <2>1. /\ Goto(c, "check", "backup") \/ Goto(c, "backup", "write")
        /\ UNCHANGED flag
    BY <1>7 DEF CheckPasses, ReadBackup, locals
  <2> QED
    BY <2>1, LateStage
<1>8. ASSUME NEW c \in Country, WriteConf(c) PROVE StagesFitFlags'
  <2>1. Goto(c, "write", "reload") /\ UNCHANGED flag /\ flag[c].reloadOK
    BY <1>8 DEF WriteConf, locals
  <2> QED
    BY <2>1, LateStage
<1>9. ASSUME NEW c \in Country,
             BeginReload(c) \/ ReloadFails(c) \/ RestoreConf(c) \/ BeginResync(c)
      PROVE  StagesFitFlags'
  <2>1. /\ \/ Goto(c, "reload", "reloading") \/ Goto(c, "reload", "restore")
           \/ Goto(c, "reloading", "restore") \/ Goto(c, "restore", "resync")
           \/ Goto(c, "resync", "resyncing")
        /\ UNCHANGED flag
    BY <1>9 DEF BeginReload, BeginResync, ReloadStarts, ReloadFails, RestoreConf, locals
  <2> QED
    BY <2>1, LateStage
<1>10. ASSUME NEW c \in Country,
             \/ FetchFails(c) \/ ExtrasFail(c) \/ DryRun(c) \/ NftFails(c)
             \/ SkipUnchanged(c) \/ ReadFails(c) \/ CheckFails(c)
             \/ BackupFails(c) \/ WriteOnly(c) \/ WriteFails(c)
             \/ ReloadSucceeds(c) \/ RestoreFails(c) \/ ResyncSucceeds(c)
             \/ ResyncFails(c) \/ Crash(c)
       PROVE  StagesFitFlags'
  <2>1. \E r \in Outcome : Finish(c, r)
    BY <1>10 DEF Outcome, FetchFails, ExtrasFail, DryRun, NftFails, SkipUnchanged,
      ReadFails, CheckFails, BackupFails, WriteOnly, WriteFails, ReloadSucceeds,
      RestoreFails, ResyncSucceeds, ResyncFails, Crash
  <2> QED
    BY <2>1, FinishStage
<1> QED
  BY <1>1, <1>2, <1>3, <1>4, <1>5, <1>6, <1>7, <1>8, <1>9, <1>10
     DEF Next, Proceed

(* Every variable of RunCycle holds a value of its kind in every state of  *)
(* every behaviour: the blocks, backups and diffs that the steps of run()  *)
(* and applyFRRConfigOpts() pass on are always defined.  A dry run never   *)
(* goes past the nft step, and --reload=false never as far as a program.   *)
THEOREM TypeCorrect == Spec => []TypeOK
<1>1. Init => StagesFitFlags
  BY DEF Init, StagesFitFlags
<1>2. Types /\ StagesFitFlags => TypeOK
  BY DEF TypeOK
<1> QED
  BY <1>1, <1>2, TypesHold, StageStep, PTL DEF Spec

-----------------------------------------------------------------------------
(* LiveConfValid needs that every command line reloads: --reload=false     *)
(* writes a file that vtysh has not seen.  What a cycle carries past the   *)
(* check, and the backup it took, are valid too.                           *)
CarriesValid(c) ==
  /\ pc[c] \in {"backup", "write"} => next[c] \in Valid
  /\ pc[c] \in {"write", "reload", "reloading", "restore"}
       => backup[c] \in Valid

ConfInv == LiveConfValid /\ \A c \in Country : CarriesValid(c)

(* A step that leaves frr.conf and what the other countries carry alone    *)
(* has only its own country to show.                                       *)
LEMMA ConfFrame ==
  ASSUME Types, ConfInv, NEW c \in Country, conf' \in Valid,
         \A d \in Country \ {c} :
           pc'[d] = pc[d] /\ next'[d] = next[d] /\ backup'[d] = backup[d],
         CarriesValid(c)'
  PROVE  ConfInv'
BY DEF ConfInv, CarriesValid, LiveConfValid

LEMMA ConfStep ==
  ASSUME \A fl \in Flags : fl.reloadOK, Types, ConfInv, [Next]_vars
  PROVE  ConfInv'
<1>1. CASE UNCHANGED vars
  BY <1>1 DEF ConfInv, CarriesValid, LiveConfValid, vars, files, locals
<1>2. ASSUME NEW c \in Country, FeedChanges(c) \/ Cancel(c) PROVE ConfInv'
  BY <1>2 DEF ConfInv, CarriesValid, LiveConfValid, FeedChanges, Cancel,
    files, locals
<1>3. ASSUME NEW c \in Country, NEW r \in Outcome, Finish(c, r),
             conf' \in Valid
      PROVE  ConfInv'
  <2>1. /\ \A d \in Country \ {c} :
             pc'[d] = pc[d] /\ next'[d] = next[d] /\ backup'[d] = backup[d]
        /\ pc'[c] = "idle"
    BY <1>3 DEF Finish, Types
  <2>2. CarriesValid(c)'
    BY <2>1 DEF CarriesValid
  <2> QED
    BY <1>3, <2>1, <2>2, ConfFrame
<1>4. ASSUME NEW c \in Country,
             \/ FetchFails(c) \/ ExtrasFail(c) \/ DryRun(c) \/ NftFails(c)
             \/ SkipUnchanged(c) \/ ReadFails(c) \/ CheckFails(c)
             \/ BackupFails(c) \/ WriteFails(c) \/ RestoreFails(c)
             \/ ReloadSucceeds(c) \/ ResyncSucceeds(c) \/ ResyncFails(c)
             \/ Crash(c)
      PROVE  ConfInv'
  <2>1. conf' \in Valid
    BY <1>4 DEF ConfInv, LiveConfValid, files, FetchFails, ExtrasFail, DryRun,
      NftFails, SkipUnchanged, ReadFails, CheckFails, BackupFails, WriteFails,
      RestoreFails, ReloadSucceeds, ResyncSucceeds, ResyncFails, Crash
  <2>2. \E r \in Outcome : Finish(c, r)
    BY <1>4 DEF Outcome, FetchFails, ExtrasFail, DryRun, NftFails,
      SkipUnchanged, ReadFails, CheckFails, BackupFails, WriteFails,
      RestoreFails, ReloadSucceeds, ResyncSucceeds, ResyncFails, Crash
  <2> QED
    BY <1>3, <2>1, <2>2
<1>5. ASSUME NEW c \in Country,
             \/ StartCycle(c) \/ FetchFresh(c) \/ FetchCached(c)
             \/ LoadExtras(c) \/ NftSkipped(c) \/ NftApplied(c)
      PROVE  ConfInv'
  <2>1. /\ conf' = conf /\ next' = next /\ backup' = backup
        /\ pc'[c] \in {"fetch", "extras", "nft", "read"}
        /\ \A d \in Country \ {c} : pc'[d] = pc[d]
    BY <1>5 DEF StartCycle, FetchFresh, FetchCached, Got, LoadExtras,
      NftSkipped, NftApplied, Goto, Types, files, locals
  <2>2. CarriesValid(c)'
    BY <2>1 DEF CarriesValid
  <2> QED
    BY <2>1, <2>2, ConfFrame DEF ConfInv, LiveConfValid
<1>6. ASSUME NEW c \in Country, ReadConf(c) PROVE ConfInv'
  <2>1. flag[c].reloadOK
    BY DEF Types
  <2>2. pc' = [pc EXCEPT ![c] = "check"]
    BY <1>6, <2>1 DEF ReadConf, Goto
  <2>3. \A d \in Country \ {c} : next'[d] = next[d]
    BY <1>6 DEF ReadConf, Types
  <2>4. CarriesValid(c)'
    BY <2>2 DEF CarriesValid, Types
  <2> QED
    BY <1>6, <2>2, <2>3, <2>4, ConfFrame
       DEF ReadConf, Types, ConfInv, LiveConfValid, files
<1>7. ASSUME NEW c \in Country, CheckPasses(c) PROVE ConfInv'
  <2>1. pc' = [pc EXCEPT ![c] = "backup"] /\ next[c] \in Valid
        /\ UNCHANGED <<conf, next, backup>>
    BY <1>7 DEF CheckPasses, Goto, files, locals
  <2>2. CarriesValid(c)'
    BY <2>1 DEF CarriesValid, Types
  <2> QED
    BY <2>1, <2>2, ConfFrame DEF Types, ConfInv, LiveConfValid
<1>8. ASSUME NEW c \in Country, ReadBackup(c) PROVE ConfInv'
  <2>1. /\ pc[c] = "backup" /\ pc' = [pc EXCEPT ![c] = "write"]
        /\ backup' = [backup EXCEPT ![c] = conf]
        /\ UNCHANGED <<conf, next>>
    BY <1>8 DEF ReadBackup, Goto, files
  <2>2. next[c] \in Valid /\ conf \in Valid
    BY <2>1 DEF ConfInv, CarriesValid, LiveConfValid
  <2>3. CarriesValid(c)'
    BY <2>1, <2>2 DEF CarriesValid, Types
  <2> QED
    BY <2>1, <2>2, <2>3, ConfFrame DEF Types
<1>9. ASSUME NEW c \in Country, WriteConf(c) PROVE ConfInv'
  <2>1. /\ pc[c] = "write" /\ pc' = [pc EXCEPT ![c] = "reload"]
        /\ conf' = next[c] /\ UNCHANGED <<next, backup>>
    BY <1>9 DEF WriteConf, Goto, locals
  <2>2. next[c] \in Valid /\ backup[c] \in Valid
    BY <2>1 DEF ConfInv, CarriesValid
  <2>3. CarriesValid(c)'
    BY <2>1, <2>2 DEF CarriesValid, Types
  <2> QED
    BY <2>1, <2>2, <2>3, ConfFrame DEF Types
<1>10. ASSUME NEW c \in Country, WriteOnly(c) PROVE ConfInv'
  BY <1>10 DEF WriteOnly, Types
<1>11. ASSUME NEW c \in Country, BeginReload(c) \/ ReloadFails(c) PROVE ConfInv'
  <2>1. /\ pc[c] \in {"reload", "reloading"}
        /\ pc'[c] \in {"reloading", "restore"}
        /\ \A d \in Country \ {c} : pc'[d] = pc[d]
        /\ UNCHANGED <<conf, next, backup>>
    BY <1>11 DEF BeginReload, ReloadStarts, ReloadFails, Goto, Types, files
  <2>2. CarriesValid(c)'
    BY <2>1 DEF CarriesValid, ConfInv
  <2> QED
    BY <2>1, <2>2, ConfFrame DEF ConfInv, LiveConfValid
<1>12. ASSUME NEW c \in Country, RestoreConf(c) PROVE ConfInv'
  <2>1. /\ pc[c] = "restore" /\ pc' = [pc EXCEPT ![c] = "resync"]
        /\ conf' = backup[c] /\ UNCHANGED <<next, backup>>
    BY <1>12 DEF RestoreConf, Goto, locals
  <2>2. backup[c] \in Valid
    BY <2>1 DEF ConfInv, CarriesValid
  <2>3. CarriesValid(c)'
    BY <2>1 DEF CarriesValid, Types
  <2> QED
    BY <2>1, <2>2, <2>3, ConfFrame DEF Types
<1>13. ASSUME NEW c \in Country, BeginResync(c) PROVE ConfInv'
  <2>1. /\ pc' = [pc EXCEPT ![c] = "resyncing"]
        /\ UNCHANGED <<conf, next, backup>>
    BY <1>13 DEF BeginResync, ReloadStarts, Goto, files
  <2>2. CarriesValid(c)'
    BY <2>1 DEF CarriesValid, Types
  <2> QED
    BY <2>1, <2>2, ConfFrame DEF Types, ConfInv, LiveConfValid
<1> QED
  BY <1>1, <1>2, <1>4, <1>5, <1>6, <1>7, <1>8, <1>9, <1>10, <1>11, <1>12,
     <1>13 DEF Next, Proceed

(* The live frr.conf is always a file that vtysh -C accepts as a whole,    *)
(* however many instances write it and restore it, as long as every one of *)
(* them reloads: applyFRRConfigOpts() checks the bytes it writes, and the  *)
(* backup it restores was live.                                            *)
THEOREM ConfStaysValid ==
  (\A fl \in Flags : fl.reloadOK) /\ Spec => []LiveConfValid
<1> SUFFICES ASSUME \A fl \in Flags : fl.reloadOK PROVE Spec => []LiveConfValid
  OBVIOUS
<1>1. Init => ConfInv
  BY DEF Init, ConfInv, CarriesValid, LiveConfValid, Empty
<1>2. Types /\ ConfInv /\ [Next]_vars => ConfInv'
  BY ConfStep
<1>3. ConfInv => LiveConfValid
  BY DEF ConfInv
<1> QED
  BY <1>1, <1>2, <1>3, TypesHold, PTL DEF Spec

-----------------------------------------------------------------------------
(* AdvertisedIsMarked needs three facts of the deployment: feeds only      *)
(* grow, a fresh feed always reaches the cache (or a later fallback brings *)
(* back an older one), and no run is started with --nft=false.             *)
GrowOnly ==
  /\ ~Shrinks
  /\ "cacheWrite" \notin Faults
  /\ \A fl \in Flags : fl.updateNft

(* Then no nft set ever loses a prefix, and everything that can still      *)
(* reach FRR is marked already: the live file, and for every country what  *)
(* its cycle would write, restore, or is having loaded.                    *)
CacheIsLatest(c) ==
  /\ nft[c] \subseteq feed[c] \cup Extras[c]
  /\ \A f \in cache[c] :
       /\ f \subseteq feed[c]
       /\ nft[c] \subseteq f \cup Extras[c]
       /\ \A g \in cache[c] : g = f

WantGrows(c) ==
  /\ pc[c] = "extras" =>
       /\ want[c] \subseteq feed[c]
       /\ nft[c] \subseteq want[c] \cup Extras[c]
       /\ \A f \in cache[c] : want[c] \subseteq f
  /\ pc[c] = "nft" =>
       /\ want[c] \subseteq feed[c] \cup Extras[c]
       /\ nft[c] \subseteq want[c]
       /\ \A f \in cache[c] : want[c] \subseteq f \cup Extras[c]
  /\ pc[c] = "read" => want[c] \subseteq nft[c]

CarriesMarked(c) ==
  \A d \in Country :
    next[c][d] \cup backup[c][d] \cup diff[c].add[d] \subseteq nft[d]

MarkInv ==
  /\ \A c \in Country : CacheIsLatest(c) /\ WantGrows(c) /\ CarriesMarked(c)
  /\ \A d \in Country : conf[d] \cup frr[d] \subseteq nft[d]

(* A step of c that marks no less than before, and what it carries, writes *)
(* or loads only what is marked, has only its own country to show.         *)
LEMMA MarkFrame ==
  ASSUME Types, MarkInv, NEW c \in Country,
         \A d \in Country : /\ nft[d] \subseteq nft'[d]
                            /\ conf'[d] \cup frr'[d] \subseteq nft'[d],
         \A d \in Country \ {c} :
           /\ pc'[d] = pc[d] /\ want'[d] = want[d] /\ next'[d] = next[d]
           /\ backup'[d] = backup[d] /\ diff'[d] = diff[d]
           /\ cache'[d] = cache[d] /\ feed'[d] = feed[d] /\ nft'[d] = nft[d],
         CacheIsLatest(c)', WantGrows(c)', CarriesMarked(c)'
  PROVE  MarkInv'
<1>1. ASSUME NEW d \in Country \ {c}
      PROVE  CacheIsLatest(d)' /\ WantGrows(d)' /\ CarriesMarked(d)'
  <2>1. CacheIsLatest(d)'
    BY DEF MarkInv, CacheIsLatest
  <2>2. WantGrows(d)'
    BY DEF MarkInv, WantGrows
  <2>3. CarriesMarked(d)'
    BY DEF MarkInv, CarriesMarked
  <2> QED
    BY <2>1, <2>2, <2>3
<1> QED
  BY <1>1 DEF MarkInv

(* A cycle that returns carries nothing.                                   *)
LEMMA MarkFinish ==
  ASSUME Types, MarkInv, NEW c \in Country, NEW r \in Outcome, Finish(c, r),
         \A d \in Country : /\ nft[d] \subseteq nft'[d]
                            /\ conf'[d] \cup frr'[d] \subseteq nft'[d],
         \A d \in Country \ {c} : nft'[d] = nft[d],
         CacheIsLatest(c)'
  PROVE  MarkInv'
<1>1. \A d \in Country \ {c} :
        /\ pc'[d] = pc[d] /\ want'[d] = want[d] /\ next'[d] = next[d]
        /\ backup'[d] = backup[d] /\ diff'[d] = diff[d]
        /\ cache'[d] = cache[d] /\ feed'[d] = feed[d]
  BY DEF Finish, Types
<1>2. pc'[c] = "idle" /\ next'[c] = Empty /\ backup'[c] = Empty
      /\ diff'[c] = NoDiff
  BY DEF Finish, Types
<1>3. WantGrows(c)'
  BY <1>2 DEF WantGrows
<1>4. CarriesMarked(c)'
  BY <1>2 DEF CarriesMarked, Empty, NoDiff
<1> QED
  BY <1>1, <1>3, <1>4, MarkFrame

LEMMA MarkStep ==
  ASSUME GrowOnly, Types, MarkInv, [Next]_vars
  PROVE  MarkInv'
<1> USE DEF GrowOnly
<1>1. CASE UNCHANGED vars
  BY <1>1 DEF MarkInv, CacheIsLatest, WantGrows, CarriesMarked, vars, files,
    locals
<1>2. ASSUME NEW c \in Country, FeedChanges(c) PROVE MarkInv'
  <2>1. /\ feed[c] \subseteq feed'[c]
        /\ \A d \in Country \ {c} : feed'[d] = feed[d]
        /\ UNCHANGED <<cache, nft, conf, frr, pc, want, next, backup, diff>>
    BY <1>2 DEF FeedChanges, Types, Contents, files, locals
  <2>2. CacheIsLatest(c)'
    BY <2>1 DEF MarkInv, CacheIsLatest
  <2>3. WantGrows(c)'
    BY <2>1 DEF MarkInv, WantGrows
  <2>4. CarriesMarked(c)'
    BY <2>1 DEF MarkInv, CarriesMarked
  <2> QED
    BY <2>1, <2>2, <2>3, <2>4, MarkFrame DEF MarkInv
<1>3. ASSUME NEW c \in Country, Cancel(c) PROVE MarkInv'
  BY <1>3 DEF Cancel, MarkInv, CacheIsLatest, WantGrows, CarriesMarked, files,
    locals
<1>4. ASSUME NEW c \in Country, FetchFresh(c) PROVE MarkInv'
  <2>1. /\ pc' = [pc EXCEPT ![c] = "extras"]
        /\ want' = [want EXCEPT ![c] = feed[c]]
        /\ cache' = [cache EXCEPT ![c] = {feed[c]}]
        /\ UNCHANGED <<feed, nft, conf, frr, next, backup, diff>>
    BY <1>4 DEF FetchFresh, Got, Goto, files
  <2>2. CacheIsLatest(c)' /\ CarriesMarked(c)'
    BY <2>1 DEF MarkInv, CacheIsLatest, CarriesMarked, Types
  <2>a. pc'[c] = "extras" /\ want'[c] = feed[c] /\ cache'[c] = {feed[c]}
    BY <2>1 DEF Types, Contents
  <2>3. WantGrows(c)'
    BY <2>1, <2>a DEF MarkInv, CacheIsLatest, WantGrows
  <2> QED
    BY <2>1, <2>2, <2>3, MarkFrame DEF Types, MarkInv
<1>5. ASSUME NEW c \in Country, FetchCached(c) PROVE MarkInv'
  <2>1. PICK f \in cache[c] : Got(c, f)
    BY <1>5 DEF FetchCached
  <2>2. /\ pc' = [pc EXCEPT ![c] = "extras"]
        /\ want' = [want EXCEPT ![c] = f]
        /\ UNCHANGED <<feed, cache, nft, conf, frr, next, backup, diff>>
    BY <1>5, <2>1 DEF FetchCached, Got, Goto, files
  <2>3. CacheIsLatest(c)' /\ CarriesMarked(c)'
    BY <2>2 DEF MarkInv, CacheIsLatest, CarriesMarked
  <2>a. pc'[c] = "extras" /\ want'[c] = f /\ cache'[c] = cache[c]
    BY <2>2 DEF Types, Contents
  <2>4. WantGrows(c)'
    BY <2>1, <2>2, <2>a DEF MarkInv, CacheIsLatest, WantGrows
  <2>5. \A d \in Country \ {c} :
          /\ pc'[d] = pc[d] /\ want'[d] = want[d] /\ next'[d] = next[d]
          /\ backup'[d] = backup[d] /\ diff'[d] = diff[d]
          /\ cache'[d] = cache[d] /\ feed'[d] = feed[d] /\ nft'[d] = nft[d]
    BY <2>2 DEF Types
  <2>6. \A d \in Country : /\ nft[d] \subseteq nft'[d]
                           /\ conf'[d] \cup frr'[d] \subseteq nft'[d]
    BY <2>2 DEF MarkInv
  <2> QED
    BY <2>3, <2>4, <2>5, <2>6, MarkFrame
<1>6. ASSUME NEW c \in Country, LoadExtras(c) PROVE MarkInv'
  <2>1. /\ pc[c] = "extras" /\ pc' = [pc EXCEPT ![c] = "nft"]
        /\ want' = [want EXCEPT ![c] = want[c] \cup Extras[c]]
        /\ UNCHANGED <<feed, cache, nft, conf, frr, next, backup, diff>>
    BY <1>6 DEF LoadExtras, Goto, files
  <2>2. CacheIsLatest(c)' /\ CarriesMarked(c)'
    BY <2>1 DEF MarkInv, CacheIsLatest, CarriesMarked
  <2>a. pc'[c] = "nft" /\ want'[c] = want[c] \cup Extras[c]
    BY <2>1 DEF Types, Contents
  <2>3. WantGrows(c)'
    BY <2>1, <2>a DEF MarkInv, WantGrows
  <2> QED
    BY <2>1, <2>2, <2>3, MarkFrame DEF Types, MarkInv
<1>7. ASSUME NEW c \in Country,
             \/ FetchFails(c) \/ ExtrasFail(c) \/ DryRun(c)
             \/ SkipUnchanged(c) \/ ReadFails(c) \/ CheckFails(c)
             \/ BackupFails(c) \/ WriteFails(c) \/ RestoreFails(c)
      PROVE  MarkInv'
  <2>1. UNCHANGED <<nft, conf, frr>>
    BY <1>7 DEF files, FetchFails, ExtrasFail, DryRun, SkipUnchanged,
      ReadFails, CheckFails, BackupFails, WriteFails, RestoreFails
  <2>2. PICK r \in Outcome : Finish(c, r)
    BY <1>7 DEF Outcome, FetchFails, ExtrasFail, DryRun, SkipUnchanged,
      ReadFails, CheckFails, BackupFails, WriteFails, RestoreFails
  <2>3. CacheIsLatest(c)'
    BY <2>1, <2>2 DEF MarkInv, CacheIsLatest, Finish
  <2> QED
    BY <2>1, <2>2, <2>3, MarkFinish DEF MarkInv
<1>8. ASSUME NEW c \in Country, NftSkipped(c) PROVE MarkInv'
  BY <1>8 DEF NftSkipped, Types
<1>9. ASSUME NEW c \in Country, NftApplied(c) PROVE MarkInv'
  <2>1. /\ pc[c] = "nft" /\ pc' = [pc EXCEPT ![c] = "read"]
        /\ nft' = [nft EXCEPT ![c] = want[c]]
        /\ UNCHANGED <<feed, cache, conf, frr, want, next, backup, diff>>
    BY <1>9 DEF NftApplied, Goto, locals
  <2>2. nft[c] \subseteq nft'[c] /\ nft'[c] = want[c]
        /\ \A d \in Country \ {c} : nft'[d] = nft[d]
    BY <2>1 DEF MarkInv, WantGrows, Types, Contents
  <2>3. CacheIsLatest(c)'
    BY <2>1, <2>2 DEF MarkInv, CacheIsLatest, WantGrows
  <2>4. WantGrows(c)'
    BY <2>1, <2>2 DEF WantGrows, Types
  <2>5. \A d \in Country : nft[d] \subseteq nft'[d]
    BY <2>2
  <2>6. CarriesMarked(c)'
    BY <2>1, <2>5 DEF MarkInv, CarriesMarked
  <2>7. \A d \in Country : conf'[d] \cup frr'[d] \subseteq nft'[d]
    BY <2>1, <2>5 DEF MarkInv
  <2> QED
    BY <2>1, <2>2, <2>3, <2>4, <2>5, <2>6, <2>7, MarkFrame DEF Types
<1>10. ASSUME NEW c \in Country, nft' = [nft EXCEPT ![c] = want[c]],
              pc[c] = "nft", UNCHANGED <<conf, frr>>,
              NEW r \in Outcome, Finish(c, r)
       PROVE  MarkInv'
  <2>1. nft[c] \subseteq nft'[c] /\ nft'[c] = want[c]
        /\ \A d \in Country \ {c} : nft'[d] = nft[d]
    BY <1>10 DEF MarkInv, WantGrows, Types, Contents
  <2>2. CacheIsLatest(c)'
    BY <1>10, <2>1 DEF MarkInv, CacheIsLatest, WantGrows, Finish
  <2>3. \A d \in Country : /\ nft[d] \subseteq nft'[d]
                           /\ conf'[d] \cup frr'[d] \subseteq nft'[d]
    BY <1>10, <2>1 DEF MarkInv
  <2> QED
    BY <1>10, <2>1, <2>2, <2>3, MarkFinish
<1>11. ASSUME NEW c \in Country, UNCHANGED nft,
              frr' \in PartlyLoaded(c) \cup {Loaded(c), frr}, UNCHANGED conf
       PROVE  \A d \in Country : conf'[d] \cup frr'[d] \subseteq nft'[d]
  BY <1>11, LoadedType DEF MarkInv, CarriesMarked
<1>12. ASSUME NEW c \in Country, NftFails(c) PROVE MarkInv'
  <2>1. pc[c] = "nft" /\ Finish(c, "error") /\ UNCHANGED <<conf, frr>>
    BY <1>12 DEF NftFails, MayNft
  <2>2. CASE UNCHANGED nft
    <3>1. CacheIsLatest(c)'
      BY <2>1, <2>2 DEF MarkInv, CacheIsLatest, Finish
    <3> QED
      BY <2>1, <2>2, <3>1, MarkFinish DEF MarkInv, Outcome
  <2>3. CASE nft' = [nft EXCEPT ![c] = want[c]]
    BY <1>10, <2>1, <2>3 DEF Outcome
  <2> QED
    BY <1>12, <2>2, <2>3 DEF NftFails
<1>13. ASSUME NEW c \in Country, NEW r \in Outcome, Finish(c, r),
              UNCHANGED <<nft, conf>>,
              frr' \in PartlyLoaded(c) \cup {Loaded(c), frr}
       PROVE  MarkInv'
  <2>1. CacheIsLatest(c)'
    BY <1>13 DEF MarkInv, CacheIsLatest, Finish
  <2> QED
    BY <1>11, <1>13, <2>1, MarkFinish
<1>14. ASSUME NEW c \in Country,
              ReloadSucceeds(c) \/ ResyncSucceeds(c) \/ ResyncFails(c)
       PROVE  MarkInv'
  BY <1>13, <1>14 DEF ReloadSucceeds, ResyncSucceeds, ResyncFails, Outcome
<1>15. ASSUME NEW c \in Country, Crash(c) PROVE MarkInv'
  BY <1>10, <1>13, <1>15 DEF Crash, MayNft, Outcome
<1>16. ASSUME NEW c \in Country, WriteOnly(c) PROVE MarkInv'
  <2>1. Finish(c, "ok") /\ conf' = next[c] /\ UNCHANGED <<nft, frr>>
    BY <1>16 DEF WriteOnly
  <2>2. CacheIsLatest(c)'
    BY <2>1 DEF MarkInv, CacheIsLatest, Finish
  <2>3. \A d \in Country : conf'[d] \cup frr'[d] \subseteq nft'[d]
    BY <2>1 DEF MarkInv, CarriesMarked
  <2> QED
    BY <2>1, <2>2, <2>3, MarkFinish DEF Outcome
<1>17. ASSUME NEW c \in Country, UNCHANGED <<feed, cache, nft, frr, want>>,
              pc'[c] \notin {"extras", "nft", "read"},
              \A d \in Country \ {c} :
                /\ pc'[d] = pc[d] /\ next'[d] = next[d]
                /\ backup'[d] = backup[d] /\ diff'[d] = diff[d],
              CarriesMarked(c)',
              \A d \in Country : conf'[d] \subseteq nft[d]
       PROVE  MarkInv'
  <2>1. CacheIsLatest(c)'
    BY <1>17 DEF MarkInv, CacheIsLatest
  <2>2. WantGrows(c)'
    BY <1>17 DEF WantGrows
  <2> QED
    BY <1>17, <2>1, <2>2, MarkFrame DEF MarkInv
<1>18. ASSUME NEW c \in Country,
              \/ StartCycle(c) \/ CheckPasses(c) \/ WriteConf(c) \/ RestoreConf(c)
       PROVE  MarkInv'
  <2>1. /\ UNCHANGED <<feed, cache, nft, frr, want, next, backup, diff>>
        /\ pc'[c] \notin {"extras", "nft", "read"}
        /\ \A d \in Country \ {c} : pc'[d] = pc[d]
        /\ conf' \in {conf, next[c], backup[c]}
    BY <1>18 DEF StartCycle, CheckPasses, WriteConf, RestoreConf, Goto,
      Types, files, locals
  <2>2. CarriesMarked(c)'
    BY <2>1 DEF MarkInv, CarriesMarked
  <2>3. \A d \in Country : conf'[d] \subseteq nft[d]
    BY <2>1 DEF MarkInv, CarriesMarked
  <2> QED
    BY <1>17, <2>1, <2>2, <2>3
<1>19. ASSUME NEW c \in Country, ReadConf(c) PROVE MarkInv'
  <2>1. /\ pc[c] = "read" /\ pc'[c] \in {"check", "write"}
        /\ \A d \in Country \ {c} : pc'[d] = pc[d] /\ next'[d] = next[d]
        /\ next'[c] = Splice(conf, c, want[c])
        /\ UNCHANGED <<feed, cache, nft, conf, frr, want, backup, diff>>
    BY <1>19 DEF ReadConf, Goto, Types, files
  <2>2. want[c] \subseteq nft[c]
    BY <2>1 DEF MarkInv, WantGrows
  <2>3. /\ next'[c][c] = want[c]
        /\ \A d \in Country \ {c} : next'[c][d] = conf[d]
    <3>1. conf \in Contents /\ want[c] \in SUBSET Prefix
      BY DEF Types, Contents
    <3> QED
      BY <2>1, <3>1, SpliceType
  <2>4. \A d \in Country : next'[c][d] \subseteq nft'[d]
    BY <2>1, <2>2, <2>3 DEF MarkInv
  <2>5. CarriesMarked(c)'
    BY <2>1, <2>4 DEF MarkInv, CarriesMarked
  <2> QED
    BY <1>17, <2>1, <2>5 DEF MarkInv
<1>20. ASSUME NEW c \in Country, ReadBackup(c) PROVE MarkInv'
  <2>1. /\ pc'[c] = "write" /\ backup'[c] = conf
        /\ \A d \in Country \ {c} : pc'[d] = pc[d] /\ backup'[d] = backup[d]
        /\ UNCHANGED <<feed, cache, nft, conf, frr, want, next, diff>>
    BY <1>20 DEF ReadBackup, Goto, Types, files
  <2>2. CarriesMarked(c)'
    BY <2>1 DEF MarkInv, CarriesMarked
  <2> QED
    BY <1>17, <2>1, <2>2 DEF MarkInv
<1>21. ASSUME NEW c \in Country, BeginReload(c) \/ BeginResync(c)
       PROVE  MarkInv'
  <2> DEFINE D == [add |-> [d \in Country |-> conf[d] \ frr[d]],
                   del |-> [d \in Country |-> frr[d] \ conf[d]]]
  <2>0. diff' = [diff EXCEPT ![c] = D]
    BY <1>21 DEF BeginReload, BeginResync, ReloadStarts
  <2>1. /\ pc'[c] \in {"reloading", "resyncing"}
        /\ diff'[c].add = [d \in Country |-> conf[d] \ frr[d]]
        /\ \A d \in Country \ {c} : pc'[d] = pc[d] /\ diff'[d] = diff[d]
        /\ UNCHANGED <<feed, cache, nft, conf, frr, want, next, backup>>
    BY <1>21, <2>0 DEF BeginReload, BeginResync, ReloadStarts, Goto, Types,
      files
  <2>2. CarriesMarked(c)'
    BY <2>1 DEF MarkInv, CarriesMarked
  <2> QED
    BY <1>17, <2>1, <2>2 DEF MarkInv
<1>22. ASSUME NEW c \in Country, ReloadFails(c) PROVE MarkInv'
  <2>1. /\ pc'[c] = "restore" /\ diff'[c] = NoDiff
        /\ \A d \in Country \ {c} : pc'[d] = pc[d] /\ diff'[d] = diff[d]
        /\ UNCHANGED <<feed, cache, nft, conf, want, next, backup>>
        /\ frr' \in PartlyLoaded(c) \cup {Loaded(c), frr}
    BY <1>22 DEF ReloadFails, Goto, Types
  <2>2. CarriesMarked(c)'
    BY <2>1 DEF MarkInv, CarriesMarked, NoDiff, Empty
  <2>3. CacheIsLatest(c)' /\ WantGrows(c)'
    BY <2>1 DEF MarkInv, CacheIsLatest, WantGrows
  <2> QED
    BY <1>11, <2>1, <2>2, <2>3, MarkFrame
<1> QED
  BY <1>1, <1>2, <1>3, <1>4, <1>5, <1>6, <1>7, <1>8, <1>9, <1>12, <1>14,
     <1>15, <1>16, <1>18, <1>19, <1>20, <1>21, <1>22 DEF Next, Proceed

(* Whatever FRR advertises for a country is in its nft sets, in every      *)
(* interleaving of the cycles of any number of instances, whatever step of *)
(* them fails or is killed: run() updates the data plane first, and no     *)
(* rollback or stale backup can bring back what is not marked any more.    *)
THEOREM MarkedBeforeAdvertised == GrowOnly /\ Spec => []AdvertisedIsMarked
<1> SUFFICES ASSUME GrowOnly PROVE Spec => []AdvertisedIsMarked
  BY DEF GrowOnly
<1>1. Init => MarkInv
  BY DEF Init, MarkInv, CacheIsLatest, WantGrows, CarriesMarked, Empty, NoDiff
<1>2. Types /\ MarkInv /\ [Next]_vars => MarkInv'
  BY MarkStep
<1>3. MarkInv => AdvertisedIsMarked
  BY DEF MarkInv, AdvertisedIsMarked
<1> QED
  BY <1>1, <1>2, <1>3, TypesHold, PTL DEF Spec

-----------------------------------------------------------------------------
(***************************************************************************)
(* Theorems about RunCycle for a host with one instance, with any prefixes,*)
(* flags and faults: what the rollback of applyFRRConfigOpts is worth.     *)
(***************************************************************************)

Single == \A c, d \in Country : c = d

(* Up to its write the cycle finds the file as it was when it started, and *)
(* from then on the backup is that file; a reload that runs has the whole  *)
(* difference of file and running configuration in hand.                   *)
BeforeWrite == {"fetch", "extras", "nft", "read", "check", "backup", "write"}
Reloading == {"reload", "reloading", "restore"}
Resyncing == {"resync", "resyncing"}

Keeps(c) ==
  /\ pc[c] \in BeforeWrite \cup Resyncing => conf = start[c]
  /\ pc[c] = "write" /\ flag[c].reloadOK => backup[c] = start[c]
  /\ pc[c] \in Reloading => backup[c] = start[c]

HasDifference(c) ==
  pc[c] \in {"reloading", "resyncing"} =>
    \A d \in Country : /\ diff[c].add[d] = conf[d] \ frr[d]
                       /\ diff[c].del[d] = frr[d] \ conf[d]

SingleInv ==
  /\ \A c \in Country : Keeps(c) /\ HasDifference(c)
  /\ FailureKeepsConf
  /\ RestoredIsInSync

(* A reload, or a resync, that succeeds makes FRR run the live file.       *)
LEMMA ReloadLoads ==
  ASSUME Types, NEW c \in Country, HasDifference(c), pc[c] \in {"reloading", "resyncing"}
  PROVE  Loaded(c) = conf
<1>1. \A d \in Country : Loaded(c)[d] = conf[d]
  BY DEF Loaded, HasDifference, Types, Contents
<1>2. /\ conf = [d \in Country |-> conf[d]]
      /\ Loaded(c) = [d \in Country |-> Loaded(c)[d]]
  BY DEF Types, Contents, Loaded
<1> QED
  BY <1>1, <1>2

(* The state after a cycle that returns.                                   *)
LEMMA FinishState ==
  ASSUME Types, NEW c \in Country, NEW r, Finish(c, r)
  PROVE  pc'[c] = "idle" /\ outcome'[c] = r /\ start' = start
BY DEF Finish, Types

(* With one instance, it is enough to look at that one after the step.     *)
LEMMA OneIsAll ==
  ASSUME Single, NEW c \in Country,
         Keeps(c)', HasDifference(c)',
         pc'[c] = "idle" /\ outcome'[c] \in {"error", "restored", "unsynced"}
           => conf' = start'[c],
         pc'[c] = "idle" /\ outcome'[c] = "restored" => frr' = conf'
  PROVE  SingleInv'
BY DEF Single, SingleInv, FailureKeepsConf, RestoredIsInSync

(* A cycle that returns keeps the invariant if what it reports is true.    *)
LEMMA FinishKeeps ==
  ASSUME Single, Types, NEW c \in Country, NEW r, Finish(c, r),
         r \in {"error", "restored", "unsynced"} => conf' = start[c],
         r = "restored" => frr' = conf'
  PROVE  SingleInv'
<1>1. pc'[c] = "idle" /\ outcome'[c] = r /\ start' = start
  BY FinishState
<1>2. Keeps(c)' /\ HasDifference(c)'
  BY <1>1 DEF Keeps, HasDifference, BeforeWrite, Reloading, Resyncing
<1> QED
  BY <1>1, <1>2, OneIsAll

(* A step within the part before the write, or out of the file's reach.    *)
LEMMA MoveKeepsFile ==
  ASSUME Single, Types, SingleInv, NEW c \in Country, NEW to \in Step,
         pc[c] \in BeforeWrite, pc' = [pc EXCEPT ![c] = to],
         to \in BeforeWrite \ {"write"},
         UNCHANGED <<conf, start>>
  PROVE  SingleInv'
<1>1. pc'[c] = to
  BY DEF Types
<1>2. conf = start[c]
  BY DEF SingleInv, Keeps
<1> QED
  BY <1>1, <1>2, OneIsAll DEF Keeps, HasDifference, BeforeWrite, Reloading, Resyncing

LEMMA SingleStep == ASSUME Single, Types, SingleInv, [Next]_vars PROVE SingleInv'
<1>1. CASE UNCHANGED vars
  BY <1>1 DEF vars, files, locals, SingleInv, Keeps, HasDifference,
    FailureKeepsConf, RestoredIsInSync
<1>2. ASSUME NEW c \in Country, FeedChanges(c) \/ Cancel(c) PROVE SingleInv'
  BY <1>2 DEF FeedChanges, Cancel, files, locals, SingleInv, Keeps,
    HasDifference, FailureKeepsConf, RestoredIsInSync
<1>3. ASSUME NEW c \in Country, StartCycle(c) PROVE SingleInv'
  <2>1. pc'[c] = "fetch" /\ start'[c] = conf /\ conf' = conf
    BY <1>3 DEF StartCycle, Goto, Types, files
  <2> QED
    BY <2>1, OneIsAll DEF Keeps, HasDifference, BeforeWrite, Reloading, Resyncing
<1>4. ASSUME NEW c \in Country,
             \/ FetchFresh(c) \/ FetchCached(c) \/ LoadExtras(c)
             \/ NftSkipped(c) \/ NftApplied(c) \/ CheckPasses(c)
      PROVE  SingleInv'
  <2>1. \E to \in BeforeWrite \ {"write"} : pc' = [pc EXCEPT ![c] = to]
    BY <1>4 DEF FetchFresh, FetchCached, Got, LoadExtras, NftSkipped, NftApplied,
      CheckPasses, Goto, BeforeWrite
  <2>2. pc[c] \in BeforeWrite
    BY <1>4 DEF FetchFresh, FetchCached, Got, LoadExtras, NftSkipped, NftApplied,
      CheckPasses, Goto, BeforeWrite
  <2>3. UNCHANGED <<conf, start>>
    BY <1>4 DEF FetchFresh, FetchCached, Got, LoadExtras, NftSkipped, NftApplied,
      CheckPasses, files, locals
  <2> QED
    BY <2>1, <2>2, <2>3, MoveKeepsFile DEF BeforeWrite, Step
<1>5. ASSUME NEW c \in Country, ReadConf(c) PROVE SingleInv'
  <2>1. /\ conf' = conf /\ start' = start /\ flag' = flag
        /\ pc'[c] = IF flag[c].reloadOK THEN "check" ELSE "write"
        /\ conf = start[c]
    BY <1>5 DEF ReadConf, Goto, Types, files, SingleInv, Keeps, BeforeWrite
  <2> QED
    BY <2>1, OneIsAll DEF Keeps, HasDifference, BeforeWrite, Reloading, Resyncing
<1>6. ASSUME NEW c \in Country, ReadBackup(c) PROVE SingleInv'
  <2>1. /\ conf' = conf /\ start' = start /\ pc'[c] = "write"
        /\ backup'[c] = conf /\ conf = start[c]
    BY <1>6 DEF ReadBackup, Goto, Types, files, SingleInv, Keeps, BeforeWrite
  <2> QED
    BY <2>1, OneIsAll DEF Keeps, HasDifference, BeforeWrite, Reloading, Resyncing
<1>7. ASSUME NEW c \in Country, WriteConf(c) PROVE SingleInv'
  <2>1. backup[c] = start[c]
    BY <1>7 DEF WriteConf, Goto, SingleInv, Keeps
  <2>2. pc'[c] = "reload" /\ backup' = backup /\ start' = start
    BY <1>7 DEF WriteConf, Goto, Types, locals
  <2> QED
    BY <2>1, <2>2, OneIsAll DEF Keeps, HasDifference, BeforeWrite, Reloading, Resyncing
<1>8. ASSUME NEW c \in Country, BeginReload(c) PROVE SingleInv'
  <2>1. /\ pc[c] = "reload" /\ pc'[c] = "reloading"
        /\ backup' = backup /\ start' = start
        /\ UNCHANGED <<conf, frr>>
    BY <1>8 DEF BeginReload, ReloadStarts, Goto, Types, files
  <2>2. diff'[c] = [add |-> [d \in Country |-> conf[d] \ frr[d]],
                    del |-> [d \in Country |-> frr[d] \ conf[d]]]
    BY <1>8 DEF BeginReload, ReloadStarts, Types
  <2>3. HasDifference(c)'
    BY <2>1, <2>2 DEF HasDifference
  <2> QED
    BY <2>1, <2>3, OneIsAll DEF SingleInv, Keeps, HasDifference, BeforeWrite, Reloading,
      Resyncing
<1>9. ASSUME NEW c \in Country, ReloadFails(c) PROVE SingleInv'
  <2>1. /\ pc[c] \in Reloading /\ pc'[c] = "restore"
        /\ backup' = backup /\ start' = start
    BY <1>9 DEF ReloadFails, Goto, Types, Reloading
  <2> QED
    BY <2>1, OneIsAll DEF SingleInv, Keeps, HasDifference, BeforeWrite, Reloading,
      Resyncing
<1>10. ASSUME NEW c \in Country, RestoreConf(c) PROVE SingleInv'
  <2>1. /\ pc[c] = "restore" /\ pc'[c] = "resync"
        /\ conf' = backup[c] /\ start' = start
    BY <1>10 DEF RestoreConf, Goto, Types, locals
  <2> QED
    BY <2>1, OneIsAll DEF SingleInv, Keeps, HasDifference, BeforeWrite, Reloading,
      Resyncing
<1>11. ASSUME NEW c \in Country, BeginResync(c) PROVE SingleInv'
  <2>1. /\ pc[c] = "resync" /\ pc'[c] = "resyncing"
        /\ UNCHANGED <<conf, frr, start>>
    BY <1>11 DEF BeginResync, ReloadStarts, Goto, Types, files
  <2>2. diff'[c] = [add |-> [d \in Country |-> conf[d] \ frr[d]],
                    del |-> [d \in Country |-> frr[d] \ conf[d]]]
    BY <1>11 DEF BeginResync, ReloadStarts, Types
  <2>3. HasDifference(c)'
    BY <2>1, <2>2 DEF HasDifference
  <2> QED
    BY <2>1, <2>3, OneIsAll DEF SingleInv, Keeps, BeforeWrite, Reloading, Resyncing
<1>12. ASSUME NEW c \in Country,
              \/ FetchFails(c) \/ ExtrasFail(c) \/ NftFails(c) \/ ReadFails(c)
              \/ CheckFails(c) \/ BackupFails(c) \/ WriteFails(c)
       PROVE  SingleInv'
  <2>1. Finish(c, "error") /\ conf' = conf /\ pc[c] \in BeforeWrite
    BY <1>12 DEF FetchFails, ExtrasFail, NftFails, MayNft, ReadFails, CheckFails,
      BackupFails, WriteFails, files, BeforeWrite
  <2> QED
    BY <2>1, FinishKeeps DEF SingleInv, Keeps
<1>13. ASSUME NEW c \in Country, NEW r \in {"ok", "broken", "crashed"}, Finish(c, r)
       PROVE  SingleInv'
  BY <1>13, FinishKeeps
<1>14. ASSUME NEW c \in Country,
              \/ DryRun(c) \/ SkipUnchanged(c) \/ WriteOnly(c) \/ ReloadSucceeds(c)
              \/ RestoreFails(c) \/ Crash(c)
       PROVE  SingleInv'
  BY <1>13, <1>14 DEF DryRun, SkipUnchanged, WriteOnly, ReloadSucceeds, RestoreFails,
    Crash
<1>15. ASSUME NEW c \in Country, ResyncSucceeds(c) PROVE SingleInv'
  <2>1. /\ Finish(c, "restored") /\ conf' = conf /\ frr' = Loaded(c)
        /\ pc[c] = "resyncing"
    BY <1>15 DEF ResyncSucceeds
  <2>2. conf = start[c] /\ Loaded(c) = conf
    BY <2>1, ReloadLoads DEF SingleInv, Keeps, Resyncing
  <2> QED
    BY <2>1, <2>2, FinishKeeps
<1>16. ASSUME NEW c \in Country, ResyncFails(c) PROVE SingleInv'
  <2>1. Finish(c, "unsynced") /\ conf' = conf /\ pc[c] \in Resyncing
    BY <1>16 DEF ResyncFails, Resyncing
  <2> QED
    BY <2>1, FinishKeeps DEF SingleInv, Keeps
<1> QED
  BY <1>1, <1>2, <1>3, <1>4, <1>5, <1>6, <1>7, <1>8, <1>9, <1>10, <1>11, <1>12,
     <1>14, <1>15, <1>16 DEF Next, Proceed

(* The inductive invariant of applyFRRConfigOpts, for one instance.        *)
THEOREM SingleInvariant == ASSUME Single PROVE Spec => []SingleInv
<1>1. Init => SingleInv
  BY DEF Init, SingleInv, Keeps, HasDifference, FailureKeepsConf, RestoredIsInSync,
    BeforeWrite, Reloading, Resyncing
<1>2. Types /\ SingleInv /\ [Next]_vars => SingleInv'
  BY SingleStep
<1> QED
  BY <1>1, <1>2, TypesHold, PTL DEF Spec

(* For one instance, with any prefixes, flags and faults: a cycle that     *)
(* returns an error, other than that its restore failed, has left frr.conf *)
(* as it found it (the early returns of run() and the rollback).           *)
THEOREM FailuresKeepConf == ASSUME Single PROVE Spec => []FailureKeepsConf
<1>1. SingleInv => FailureKeepsConf
  BY DEF SingleInv
<1> QED
  BY <1>1, SingleInvariant, PTL

(* For one instance: "backup restored" means that FRR runs the file that   *)
(* is live again, whatever part of the reload it had applied.              *)
THEOREM RestoredInSync == ASSUME Single PROVE Spec => []RestoredIsInSync
<1>1. SingleInv => RestoredIsInSync
  BY DEF SingleInv
<1> QED
  BY <1>1, SingleInvariant, PTL

-----------------------------------------------------------------------------
(***************************************************************************)
(* Theorems about RunCycle for a host with one instance whose cycles are   *)
(* neither cancelled nor killed, and whose rollbacks work: a cycle is a    *)
(* transaction of frr.conf and FRR, and one that returns nil has applied   *)
(* its prefixes.  Any other step may fail, of any cycle.                   *)
(***************************************************************************)

Reliable ==
  /\ Faults \intersect {"cancel", "crash", "restore", "resync"} = {}
  /\ \A fl \in Flags : ~fl.dryRun /\ fl.updateNft /\ fl.reloadOK

(* Up to its write, and between cycles, FRR runs the file.  From there on  *)
(* the file is the checked one, with the block that nft has.               *)
Checked == {"backup", "write", "reload", "reloading"}

Agree(c) ==
  /\ ~cancelled[c]
  /\ pc[c] \in BeforeWrite \cup {"idle"} => frr = conf
  /\ pc[c] \in Checked \cup {"read", "check"} => nft[c] = want[c]
  /\ pc[c] \in Checked \cup {"check"} => next[c][c] = want[c]
  /\ pc[c] \in Checked => next[c] \in Valid
  /\ pc[c] \in {"reload", "reloading"} => conf = next[c]

AgreeInv == (\A c \in Country : Agree(c)) /\ SuccessMeansApplied

(* With one instance, it is enough to look at that one after the step.     *)
LEMMA OneAgrees ==
  ASSUME Single, NEW c \in Country, Agree(c)',
         pc'[c] = "idle" /\ outcome'[c] = "ok"
           => nft'[c] = conf'[c] /\ frr'[c] = conf'[c]
  PROVE  AgreeInv'
BY DEF Single, AgreeInv, SuccessMeansApplied

(* A cycle that returns keeps the invariant if FRR runs the file, and nft  *)
(* has what the file has when it reports success.                          *)
LEMMA FinishAgrees ==
  ASSUME Single, Types, NEW c \in Country, NEW r, Finish(c, r),
         frr' = conf', r = "ok" => nft'[c] = conf'[c]
  PROVE  AgreeInv'
<1>1. pc'[c] = "idle" /\ outcome'[c] = r
  BY FinishState
<1>2. ~cancelled'[c]
  BY DEF Finish, Types
<1> QED
  BY <1>1, <1>2, OneAgrees DEF Agree, BeforeWrite, Checked

(* What holds of the cycle that takes the step.                            *)
LEMMA FlagsReload ==
  ASSUME Reliable, Types, NEW c \in Country
  PROVE  ~flag[c].dryRun /\ flag[c].updateNft /\ flag[c].reloadOK
BY DEF Reliable, Types

(* Every step keeps AgreeInv.                                              *)
LEMMA AgreeStep ==
  ASSUME Single, Reliable, Types, SingleInv, AgreeInv, SingleInv', [Next]_vars
  PROVE  AgreeInv'
<1>0. \A c \in Country : Agree(c)
  BY DEF AgreeInv
<1>1. CASE UNCHANGED vars
  BY <1>1 DEF vars, files, locals, AgreeInv, Agree, SuccessMeansApplied
<1>2. ASSUME NEW c \in Country, FeedChanges(c) PROVE AgreeInv'
  BY <1>2 DEF FeedChanges, files, locals, AgreeInv, Agree, SuccessMeansApplied
<1>3. ASSUME NEW c \in Country, Cancel(c) \/ Crash(c) \/ RestoreFails(c) PROVE FALSE
  BY <1>3 DEF Cancel, Crash, RestoreFails, Reliable
<1>4. ASSUME NEW c \in Country,
             StartCycle(c) \/ FetchFresh(c) \/ FetchCached(c) \/ LoadExtras(c)
      PROVE  AgreeInv'
  <2>1. /\ pc'[c] \in {"fetch", "extras", "nft"}
        /\ pc[c] \in BeforeWrite \cup {"idle"}
        /\ UNCHANGED <<conf, frr, cancelled>>
    BY <1>4 DEF StartCycle, FetchFresh, FetchCached, LoadExtras, Got, Goto, Types,
      files, BeforeWrite
  <2>2. Agree(c)
    BY <1>0
  <2> QED
    BY <2>1, <2>2, OneAgrees DEF Agree, BeforeWrite, Checked
<1>5. ASSUME NEW c \in Country, DryRun(c) \/ NftSkipped(c) \/ WriteOnly(c) PROVE FALSE
  BY <1>5, FlagsReload DEF DryRun, NftSkipped, WriteOnly
<1>6. ASSUME NEW c \in Country, NftApplied(c) PROVE AgreeInv'
  <2>1. /\ pc'[c] = "read" /\ pc[c] = "nft" /\ nft'[c] = want[c] /\ want' = want
        /\ UNCHANGED <<conf, frr, cancelled>>
    BY <1>6 DEF NftApplied, Goto, Types, Contents, locals
  <2>2. Agree(c)
    BY <1>0
  <2> QED
    BY <2>1, <2>2, OneAgrees DEF Agree, BeforeWrite, Checked
<1>7. ASSUME NEW c \in Country, ReadConf(c) PROVE AgreeInv'
  <2>1. pc'[c] = "check" /\ pc[c] = "read" /\ UNCHANGED <<nft, conf, frr, cancelled, want>>
    BY <1>7, FlagsReload DEF ReadConf, Goto, Types, files
  <2>2. next'[c][c] = want[c]
    BY <1>7 DEF ReadConf, Splice, Types, Contents
  <2>3. Agree(c)
    BY <1>0
  <2> QED
    BY <2>1, <2>2, <2>3, OneAgrees DEF Agree, BeforeWrite, Checked
<1>8. ASSUME NEW c \in Country, CheckPasses(c) PROVE AgreeInv'
  <2>1. /\ pc'[c] = "backup" /\ pc[c] = "check" /\ next[c] \in Valid
        /\ UNCHANGED <<nft, conf, frr, cancelled, want, next>>
    BY <1>8 DEF CheckPasses, Goto, Types, files, locals
  <2>2. Agree(c)
    BY <1>0
  <2> QED
    BY <2>1, <2>2, OneAgrees DEF Agree, BeforeWrite, Checked
<1>9. ASSUME NEW c \in Country, ReadBackup(c) PROVE AgreeInv'
  <2>1. /\ pc'[c] = "write" /\ pc[c] = "backup"
        /\ UNCHANGED <<nft, conf, frr, cancelled, want, next>>
    BY <1>9 DEF ReadBackup, Goto, Types, files
  <2>2. Agree(c)
    BY <1>0
  <2> QED
    BY <2>1, <2>2, OneAgrees DEF Agree, BeforeWrite, Checked
<1>10. ASSUME NEW c \in Country, WriteConf(c) PROVE AgreeInv'
  <2>1. /\ pc'[c] = "reload" /\ pc[c] = "write" /\ conf' = next[c]
        /\ UNCHANGED <<nft, frr, cancelled, want, next>>
    BY <1>10 DEF WriteConf, Goto, Types, locals
  <2>2. Agree(c)
    BY <1>0
  <2> QED
    BY <2>1, <2>2, OneAgrees DEF Agree, BeforeWrite, Checked
<1>11. ASSUME NEW c \in Country, BeginReload(c) PROVE AgreeInv'
  <2>1. /\ pc'[c] = "reloading" /\ pc[c] = "reload"
        /\ UNCHANGED <<nft, conf, frr, cancelled, want, next>>
    BY <1>11 DEF BeginReload, ReloadStarts, Goto, Types, files
  <2>2. Agree(c)
    BY <1>0
  <2> QED
    BY <2>1, <2>2, OneAgrees DEF Agree, BeforeWrite, Checked
<1>12. ASSUME NEW c \in Country,
              ReloadFails(c) \/ RestoreConf(c) \/ BeginResync(c)
       PROVE  AgreeInv'
  <2>1. pc'[c] \in {"restore", "resync", "resyncing"} /\ cancelled' = cancelled
    BY <1>12 DEF ReloadFails, RestoreConf, BeginResync, ReloadStarts, Goto, Types
  <2>2. Agree(c)
    BY <1>0
  <2> QED
    BY <2>1, <2>2, OneAgrees DEF Agree, BeforeWrite, Checked
<1>13. ASSUME NEW c \in Country,
              \/ FetchFails(c) \/ ExtrasFail(c) \/ NftFails(c) \/ ReadFails(c)
              \/ CheckFails(c) \/ BackupFails(c) \/ WriteFails(c)
       PROVE  AgreeInv'
  <2>1. Finish(c, "error") /\ pc[c] \in BeforeWrite /\ UNCHANGED <<conf, frr>>
    BY <1>13 DEF FetchFails, ExtrasFail, NftFails, MayNft, ReadFails, CheckFails,
      BackupFails, WriteFails, files, BeforeWrite
  <2>2. frr = conf
    BY <1>0, <2>1 DEF Agree
  <2> QED
    BY <2>1, <2>2, FinishAgrees
<1>14. ASSUME NEW c \in Country, SkipUnchanged(c) PROVE AgreeInv'
  <2>1. Finish(c, "ok") /\ pc[c] = "read" /\ UNCHANGED <<nft, conf, frr>>
    BY <1>14 DEF SkipUnchanged, files
  <2>2. conf[c] = want[c]
    BY <1>14 DEF SkipUnchanged, Unchanged, Splice, Types, Contents
  <2>3. frr = conf /\ nft[c] = want[c]
    BY <1>0, <2>1 DEF Agree, BeforeWrite
  <2> QED
    BY <2>1, <2>2, <2>3, FinishAgrees
<1>15. ASSUME NEW c \in Country, ReloadSucceeds(c) PROVE AgreeInv'
  <2>1. /\ Finish(c, "ok") /\ pc[c] = "reloading" /\ frr' = Loaded(c)
        /\ UNCHANGED <<nft, conf>>
    BY <1>15 DEF ReloadSucceeds
  <2>2. Loaded(c) = conf
    BY <2>1, ReloadLoads DEF SingleInv
  <2>3. nft[c] = conf[c]
    BY <1>0, <2>1 DEF Agree, Checked
  <2> QED
    BY <2>1, <2>2, <2>3, FinishAgrees
<1>16. ASSUME NEW c \in Country, ResyncSucceeds(c) PROVE AgreeInv'
  <2>1. Finish(c, "restored")
    BY <1>16 DEF ResyncSucceeds
  <2>2. frr' = conf'
    BY <2>1, FinishState DEF SingleInv, RestoredIsInSync
  <2> QED
    BY <2>1, <2>2, FinishAgrees
<1>17. ASSUME NEW c \in Country, ResyncFails(c) PROVE FALSE
  BY <1>0, <1>17 DEF ResyncFails, Fails, Agree, Reliable
<1> QED
  BY <1>1, <1>2, <1>3, <1>4, <1>5, <1>6, <1>7, <1>8, <1>9, <1>10, <1>11, <1>12,
     <1>13, <1>14, <1>15, <1>16, <1>17 DEF Next, Proceed

(* The inductive invariant of a reliable instance holds at every step.     *)
THEOREM AgreeInvariant == ASSUME Single, Reliable PROVE Spec => []AgreeInv
<1>1. Init => AgreeInv
  BY DEF Init, AgreeInv, Agree, SuccessMeansApplied, BeforeWrite, Checked, Empty
<1>2. Types /\ SingleInv /\ AgreeInv /\ SingleInv' /\ [Next]_vars => AgreeInv'
  BY AgreeStep
<1> QED
  BY <1>1, <1>2, TypesHold, SingleInvariant, PTL DEF Spec

(* For one instance whose cycles are not cut short: nil means that the     *)
(* nft sets, frr.conf and FRR have the same prefixes for the country, also *)
(* when run() found the file unchanged and skipped the reload.             *)
THEOREM SuccessIsApplied == ASSUME Single, Reliable PROVE Spec => []SuccessMeansApplied
<1>1. AgreeInv => SuccessMeansApplied
  BY DEF AgreeInv
<1> QED
  BY <1>1, AgreeInvariant, PTL

-----------------------------------------------------------------------------
(* The refinement: during its cycle the instance counts as its start.      *)
AbstractStep == Abstract!Next \/ UNCHANGED Abstract!vars

LEMMA OneStarts == ASSUME Single, NEW c \in Country PROVE Before = start[c]
<1>1. (CHOOSE d \in Country : TRUE) \in Country
  OBVIOUS
<1> QED
  BY <1>1 DEF Single, Before

LEMMA IdleIsOne == ASSUME Single, NEW c \in Country PROVE Idle <=> pc[c] = "idle"
BY DEF Single, Idle

(* A step of a cycle that neither starts nor returns is not seen.          *)
LEMMA InnerStutters ==
  ASSUME Single, NEW c \in Country, pc[c] # "idle", pc'[c] # "idle", start' = start
  PROVE  AbstractStep
<1>1. ~Idle /\ ~Idle'
  BY DEF Idle
<1>2. Before' = Before
  BY DEF Before
<1> QED
  BY <1>1, <1>2 DEF AbstractStep, Abstract!vars

(* A cycle that returns with the file as it was, and FRR running it, has   *)
(* aborted, one with a checked file has committed.                         *)
LEMMA FinishMaps ==
  ASSUME Single, Types, NEW c \in Country, NEW r, Finish(c, r), pc[c] # "idle",
         frr' = conf', conf' = start[c] \/ conf' \in Valid
  PROVE  AbstractStep
<1>1. pc'[c] = "idle"
  BY FinishState
<1>2. ~Idle /\ Idle' /\ Before = start[c]
  BY <1>1, IdleIsOne, OneStarts DEF Single, Idle
<1>3. CASE conf' = start[c]
  BY <1>2, <1>3 DEF AbstractStep, Abstract!Next, Abstract!Abort
<1>4. CASE conf' \in Valid
  BY <1>2, <1>4 DEF AbstractStep, Abstract!Next, Abstract!Commit
<1> QED
  BY <1>3, <1>4

(* Every step of RunCycle is one of AllOrNothing, or none.                 *)
LEMMA StepMaps ==
  ASSUME Single, Reliable, Types, SingleInv, AgreeInv, SingleInv', AgreeInv', [Next]_vars
  PROVE  AbstractStep
<1>0. \A c \in Country : Agree(c) /\ Agree(c)' /\ Keeps(c)
  BY DEF AgreeInv, SingleInv
<1>1. CASE UNCHANGED vars
  BY <1>1 DEF vars, files, locals, AbstractStep, Abstract!vars, Idle, Before
<1>2. ASSUME NEW c \in Country, FeedChanges(c) \/ Cancel(c) PROVE AbstractStep
  BY <1>2 DEF FeedChanges, Cancel, files, locals, AbstractStep, Abstract!vars, Idle, Before
<1>3. ASSUME NEW c \in Country, StartCycle(c) PROVE AbstractStep
  <2>1. pc[c] = "idle" /\ pc'[c] = "fetch" /\ start'[c] = conf /\ frr = conf
    BY <1>0, <1>3 DEF StartCycle, Goto, Types, Agree
  <2>2. Idle /\ ~Idle'
    BY <2>1, IdleIsOne DEF Idle
  <2>3. Before' = start'[c]
    <3>1. (CHOOSE d \in Country : TRUE) \in Country
      OBVIOUS
    <3> QED
      BY <3>1 DEF Single, Before
  <2> QED
    BY <2>1, <2>2, <2>3 DEF AbstractStep, Abstract!Next, Abstract!Begin
<1>4. ASSUME NEW c \in Country,
             \/ FetchFresh(c) \/ FetchCached(c) \/ LoadExtras(c)
             \/ NftSkipped(c) \/ NftApplied(c) \/ ReadConf(c) \/ CheckPasses(c)
             \/ ReadBackup(c) \/ WriteConf(c) \/ BeginReload(c) \/ ReloadFails(c)
             \/ RestoreConf(c) \/ BeginResync(c)
      PROVE  AbstractStep
  <2>1. pc[c] # "idle" /\ pc'[c] # "idle" /\ start' = start
    BY <1>4 DEF FetchFresh, FetchCached, Got, LoadExtras, NftSkipped, NftApplied,
      ReadConf, CheckPasses, ReadBackup, WriteConf, BeginReload, ReloadFails,
      RestoreConf, BeginResync, ReloadStarts, Goto, Types, locals
  <2> QED
    BY <2>1, InnerStutters
<1>5. ASSUME NEW c \in Country,
             \/ FetchFails(c) \/ ExtrasFail(c) \/ NftFails(c) \/ ReadFails(c)
             \/ SkipUnchanged(c) \/ CheckFails(c) \/ BackupFails(c) \/ WriteFails(c)
      PROVE  AbstractStep
  <2>1. /\ Finish(c, "error") \/ Finish(c, "ok")
        /\ pc[c] \in BeforeWrite /\ UNCHANGED <<conf, frr>>
    BY <1>5 DEF FetchFails, ExtrasFail, NftFails, MayNft, ReadFails, SkipUnchanged,
      CheckFails, BackupFails, WriteFails, files, BeforeWrite
  <2>2. frr' = conf' /\ conf' = start[c] /\ pc[c] # "idle"
    BY <1>0, <2>1 DEF Agree, Keeps, BeforeWrite
  <2> QED
    BY <2>1, <2>2, FinishMaps
<1>6. ASSUME NEW c \in Country, ReloadSucceeds(c) PROVE AbstractStep
  <2>1. Finish(c, "ok") /\ pc[c] = "reloading" /\ conf' = conf
    BY <1>6 DEF ReloadSucceeds
  <2>2. frr' = conf'
    BY <1>0, <2>1, FinishState DEF Agree
  <2>3. conf \in Valid
    BY <1>0, <2>1 DEF Agree, Checked
  <2> QED
    BY <2>1, <2>2, <2>3, FinishMaps
<1>7. ASSUME NEW c \in Country, ResyncSucceeds(c) PROVE AbstractStep
  <2>1. Finish(c, "restored") /\ pc[c] = "resyncing" /\ conf' = conf
    BY <1>7 DEF ResyncSucceeds
  <2>2. frr' = conf' /\ conf = start[c]
    BY <1>0, <2>1, FinishState DEF Agree, Keeps, Resyncing
  <2> QED
    BY <2>1, <2>2, FinishMaps
<1>8. ASSUME NEW c \in Country,
             \/ DryRun(c) \/ WriteOnly(c) \/ Crash(c) \/ RestoreFails(c) \/ ResyncFails(c)
      PROVE  FALSE
  BY <1>0, <1>8, FlagsReload DEF DryRun, WriteOnly, Crash, RestoreFails, ResyncFails,
    Fails, Agree, Reliable
<1> QED
  BY <1>1, <1>2, <1>3, <1>4, <1>5, <1>6, <1>7, <1>8 DEF Next, Proceed

(* For one instance whose cycles are not cut short: every cycle replaces   *)
(* frr.conf and what FRR runs together by a checked configuration, or      *)
(* neither, whichever step fails (applyFRRConfigOpts and its rollback).    *)
THEOREM CyclesAreTransactions == ASSUME Single, Reliable PROVE Spec => ApplyIsAllOrNothing
<1>1. Init => Abstract!Init
  BY DEF Init, Abstract!Init, Idle
<1>2. Types /\ SingleInv /\ AgreeInv /\ SingleInv' /\ AgreeInv' /\ [Next]_vars
        => [Abstract!Next]_(Abstract!vars)
  BY StepMaps DEF AbstractStep
<1> QED
  BY <1>1, <1>2, TypesHold, SingleInvariant, AgreeInvariant, PTL
     DEF Spec, ApplyIsAllOrNothing, Abstract!Spec
=============================================================================
