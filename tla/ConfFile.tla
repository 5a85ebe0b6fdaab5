------------------------------ MODULE ConfFile ------------------------------
(***************************************************************************)
(* The text of frr.conf, and what the cycles of several countries do to    *)
(* it: splice and atomicWrite of main.go, and the backup and restore of    *)
(* applyFRRConfigOpts in rollback.go.                                      *)
(*                                                                         *)
(* A file is a sequence of tokens: the markers (with their indentation),   *)
(* the network lines, line ends, and any other text.  What nft and FRR do  *)
(* meanwhile is in module RunCycle; here the programs pass or fail.        *)
(***************************************************************************)
EXTENDS Integers, SequencesExt

CONSTANTS
  Country,
  Family,       \* the address families, in the order run() splices them
  Begin, End,   \* the markers of a block: [Country -> [family -> token]]
  NL,           \* the end of a line
  Networks,     \* the tokens that are "  network <prefix> route-map <name>"
  Text,         \* the other tokens
  Wants,        \* what renderNetworks may return: a text for each family
  Files,        \* the files an operator may have prepared
  Faults        \* of "write" "syntax" "reload" "crash"

Families == {Family[i] : i \in DOMAIN Family}
Markers == {Begin[c][f] : c \in Country, f \in Families}
             \cup {End[c][f] : c \in Country, f \in Families}
Token == Markers \cup {NL} \cup Networks \cup Text

\* A country has a v4 and a v6 block.
ASSUME FamilyAssumption == DOMAIN Family = {1, 2} /\ Family[1] # Family[2]

(* markers() names the country and the family: with its default prefix, or  *)
(* with other ones of which none begins another, no marker is a part of    *)
(* another one.  Nor is it a line end or a part of a network line.         *)
ASSUME TokensAssumption ==
  /\ \A c, d \in Country, f, g \in Families :
       /\ Begin[c][f] # End[d][g]
       /\ <<c, f>> # <<d, g>> => Begin[c][f] # Begin[d][g] /\ End[c][f] # End[d][g]
  /\ ({NL} \cup Networks) \intersect Markers = {}
  /\ NL \notin Networks

\* renderNetworks puts each network on a line of its own.
ASSUME WantsAssumption ==
  \A want \in Wants, f \in Families :
    /\ want[f] \in Seq(Networks \cup {NL})
    /\ \A k \in DOMAIN want[f] :
         want[f][k] \in Networks => k = 1 \/ want[f][k - 1] = NL

ASSUME FilesAssumption == Files \subseteq Seq(Token)

VARIABLES
  file,      \* the live frr.conf
  original,  \* history: the file the operator has prepared
  pc,        \* where the cycle of each country is
  reloads,   \* ~skipReload
  next,      \* the text it means to write
  backup     \* the text it would put back

vars == <<file, original, pc, reloads, next, backup>>

(* The types; and that there is a copy to restore where one is restored.   *)
TypeOK ==
  /\ {file, original} \subseteq Seq(Token)
  /\ pc \in [Country -> {"idle", "check", "write", "reload", "restore"}]
  /\ reloads \in [Country -> BOOLEAN]
  /\ {next, backup} \subseteq [Country -> Seq(Token)]
  /\ \A c \in Country :
       /\ pc[c] # "idle" => next[c] # <<>>
       /\ pc[c] \in {"reload", "restore"} => backup[c] # <<>>

Init ==
  /\ file \in Files
  /\ original = file
  /\ pc = [c \in Country |-> "idle"]
  /\ reloads = [c \in Country |-> FALSE]
  /\ next = [c \in Country |-> <<>>]
  /\ backup = [c \in Country |-> <<>>]

-----------------------------------------------------------------------------
(* splice.                                                                 *)

\* strings.Index: the first occurrence, or 0.
Index(cfg, token) == SelectInSeq(cfg, LAMBDA t : t = token)

(* Both markers are there, the first END after the first BEGIN.            *)
Spliceable(cfg, begin, end) ==
  Index(cfg, begin) > 0 /\ Index(cfg, end) > Index(cfg, begin)

\* Mutant of Splice: the text of the block before is kept.
SpliceAppends(cfg, begin, end, body) ==
  LET e == Index(cfg, end)
  IN  SubSeq(cfg, 1, e - 1)
        \o (IF body = <<>> THEN <<>> ELSE Append(body, NL))
        \o SubSeq(cfg, e, Len(cfg))

(* The text between the markers is replaced, but for a line end that       *)
(* follows BEGIN at once; a body gets a line end of its own.               *)
Splice(cfg, begin, end, body) ==
  LET b     == Index(cfg, begin)
      after == IF b < Len(cfg) /\ cfg[b + 1] = NL THEN b + 1 ELSE b
  IN  SubSeq(cfg, 1, after)
        \o (IF body = <<>> THEN <<>> ELSE Append(body, NL))
        \o SubSeq(cfg, Index(cfg, end), Len(cfg))

SpliceBlock(cfg, c, f, want) == Splice(cfg, Begin[c][f], End[c][f], want[f])
Has(cfg, c, f) == Spliceable(cfg, Begin[c][f], End[c][f])

\* v4 first, then v6 into the result.
CanSplice(cfg, c, want) ==
  /\ Has(cfg, c, Family[1])
  /\ Has(SpliceBlock(cfg, c, Family[1], want), c, Family[2])

Spliced(cfg, c, want) ==
  SpliceBlock(SpliceBlock(cfg, c, Family[1], want), c, Family[2], want)

-----------------------------------------------------------------------------
(* The cycle, from its read of the file on.                                *)

Return(c) ==
  /\ pc' = [pc EXCEPT ![c] = "idle"]
  /\ reloads' = [reloads EXCEPT ![c] = FALSE]
  /\ next' = [next EXCEPT ![c] = <<>>]
  /\ backup' = [backup EXCEPT ![c] = <<>>]
  /\ UNCHANGED original

Goto(c, from, to) ==
  /\ pc[c] = from
  /\ pc' = [pc EXCEPT ![c] = to]
  /\ UNCHANGED original

\* A cycle that cannot splice, or that has nothing to change, leaves the file.
ReadOnly(c) ==
  /\ pc[c] = "idle"
  /\ \E want \in Wants : ~(CanSplice(file, c, want) /\ Spliced(file, c, want) # file)
  /\ UNCHANGED vars

(* run(): read, splice, and compare, unless it is forced.                  *)
ReadConf(c) ==
  /\ \E want \in Wants, reload, force \in BOOLEAN :
       /\ CanSplice(file, c, want)
       /\ force \/ Spliced(file, c, want) # file
       /\ Goto(c, "idle", IF reload THEN "check" ELSE "write")
       /\ next' = [next EXCEPT ![c] = Spliced(file, c, want)]
       /\ reloads' = [reloads EXCEPT ![c] = reload]
  /\ UNCHANGED <<file, backup>>

\* Staging or the syntax check fails; the staging file is removed.
CheckFails(c) ==
  /\ pc[c] = "check" /\ {"write", "syntax"} \intersect Faults # {}
  /\ Return(c)
  /\ UNCHANGED file

\* Mutant of CheckPasses: the backup is not read.
CheckPassesUnread(c) ==
  /\ Goto(c, "check", "write")
  /\ UNCHANGED <<file, reloads, next, backup>>

\* It passes, and the backup is read.
CheckPasses(c) ==
  /\ Goto(c, "check", "write")
  /\ backup' = [backup EXCEPT ![c] = file]
  /\ UNCHANGED <<file, reloads, next>>

\* Mutant of WriteFails: the file is written in place.
WriteFailsInPlace(c) ==
  /\ pc[c] \in {"write", "restore"} /\ "write" \in Faults
  /\ file' = <<>>
  /\ Return(c)

(* A call of atomicWrite fails; the temporary file is removed.             *)
WriteFails(c) ==
  /\ pc[c] \in {"write", "restore"} /\ "write" \in Faults
  /\ Return(c)
  /\ UNCHANGED file

(* atomicWrite of the new text: the rename puts it in place, whole.  A     *)
(* cycle with reload=false ends here.                                      *)
Write(c) ==
  /\ file' = next[c]
  /\ \/ pc[c] = "write" /\ ~reloads[c] /\ Return(c)
     \/ /\ reloads[c]
        /\ Goto(c, "write", "reload")
        /\ UNCHANGED <<reloads, next, backup>>

ReloadSucceeds(c) ==
  /\ pc[c] = "reload"
  /\ Return(c)
  /\ UNCHANGED file

ReloadFails(c) ==
  /\ "reload" \in Faults
  /\ Goto(c, "reload", "restore")
  /\ UNCHANGED <<file, reloads, next, backup>>

(* atomicWrite of the backup.  The reload after it leaves the file alone.  *)
Restore(c) ==
  /\ pc[c] = "restore"
  /\ file' = backup[c]
  /\ Return(c)

\* The process dies.  Its temporary files stay, under names of their own.
Crash(c) ==
  /\ "crash" \in Faults /\ pc[c] # "idle"
  /\ Return(c)
  /\ UNCHANGED file

Next ==
  \E c \in Country :
    \/ ReadOnly(c) \/ ReadConf(c) \/ CheckFails(c) \/ CheckPasses(c)
    \/ WriteFails(c) \/ Write(c) \/ ReloadSucceeds(c) \/ ReloadFails(c)
    \/ Restore(c) \/ Crash(c)

Spec == Init /\ [][Next]_vars

-----------------------------------------------------------------------------
(* Properties.                                                             *)

\* Where a token occurs first, if it does.
First(cfg, token) ==
  LET at == {i \in DOMAIN cfg : cfg[i] = token}
  IN  {i \in at : \A j \in at : i <= j}

\* The places between the markers of a block, where there is one.
Span(cfg, c, f) ==
  LET begins == First(cfg, Begin[c][f])
      ends   == First(cfg, End[c][f])
  IN  {i \in DOMAIN cfg : \E b \in begins, e \in ends : b < i /\ i < e}

\* The places outside of all blocks.
Outside(cfg) == DOMAIN cfg \ UNION {Span(cfg, c, f) : c \in Country, f \in Families}

\* The tokens there, each with its rank among them.
Foreign(cfg) ==
  LET outside == Outside(cfg)
  IN  {<<Cardinality({j \in outside : j <= i}), cfg[i]>> : i \in outside}

(* How an operator prepares the file: no block reaches into another one,    *)
(* and BEGIN ends its line.                                                *)
BlocksApart(cfg) ==
  \A c \in Country, f \in Families : \A i \in Span(cfg, c, f) : cfg[i] \notin Markers

BeginEndsLine(cfg) ==
  \A c \in Country, f \in Families : \A b \in First(cfg, Begin[c][f]) :
    b + 1 \in DOMAIN cfg /\ cfg[b + 1] = NL

(* The markers and everything an operator has written outside of the blocks *)
(* stay as they are, in their order, whatever is spliced, restored, or cut  *)
(* off by a failure or by the death of a process.                           *)
ForeignTextKept == Foreign(file) = Foreign(original)

\* What FRR reads from a block: the networks that start a line in it.
NetworksOf(cfg, c, f) ==
  {cfg[i] : i \in {k \in Span(cfg, c, f) : cfg[k] \in Networks /\ cfg[k - 1] = NL}}

Blocks[cfg \in Seq(Token)] ==
  [c \in Country |-> [f \in Families |-> NetworksOf(cfg, c, f)]]
CopyOf(cfg) == IF cfg = <<>> THEN <<>> ELSE Blocks[cfg]

Shared == INSTANCE SharedFile WITH
  Initial <- {Blocks[cfg] : cfg \in Files},
  Wants   <- {[f \in Families |-> ToSet(want[f]) \intersect Networks] : want \in Wants},
  None    <- <<>>,
  blocks  <- Blocks[file],
  plan    <- [c \in Country |-> CopyOf(next[c])],
  kept    <- [c \in Country |-> CopyOf(backup[c])]

(* A reader of the file sees what RunCycle says it sees: one step puts a    *)
(* whole copy in its place, a copy differs from what was read in the block *)
(* of one country only, and there it has all of the wanted networks, each  *)
(* on a line of its own.                                                   *)
ImplementsSharedFile == Shared!Spec
=============================================================================
