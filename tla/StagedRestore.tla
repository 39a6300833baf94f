----------------------------- MODULE StagedRestore -----------------------------
(***************************************************************************)
(* Restoring a backup and resetting (wyck-storage: backup/staged.rs,       *)
(* backup/store.rs, migrate.rs; wyck: main.rs): what is asked for waits    *)
(* for the next start, which keeps a copy of what it replaces, applies     *)
(* it, and brings the documents to the layout of this build.  Every step   *)
(* of it may fail, which the app only warns about, or be cut short.        *)
(*                                                                         *)
(* A text is a number and its layout; the files beside a document are the  *)
(* texts that the upgrade kept.  A file is written whole or not at all     *)
(* (atomic_write).  Left out: sealed copies, the format of a backup, files *)
(* that are not text, and the folder of the scripts.                       *)
(***************************************************************************)
EXTENDS Naturals, FiniteSets, Sequences

CONSTANTS
  Docs,          \* the saved documents
  Scripts,       \* the indicator scripts, which no reset touches
  Rank,          \* the order they come in: by folder, and the scripts last
  None,          \* no text
  Found,         \* what the documents and scripts may be at the first start
  Files,         \* the backups of elsewhere that the user may import
  Keep,          \* how many copies of a kind are kept, for the kinds that are pruned
  MaxText,       \* bound: the texts ever made
  MaxCopies,     \* bound: the copies when something is applied
  MaxActs        \* bound: what the user does

Items   == Docs \cup Scripts
Layouts == {"old", "current", "newer"}
Texts   == [n : 1..MaxText, layout : Layouts]
Holding == [Items -> Texts \cup {None}]
Empty   == [d \in Items |-> None]
Pruned  == DOMAIN Keep
Kinds   == {"manual", "before-import", "before-reset"} \cup Pruned

ASSUME RestoreAssumption ==
  /\ Docs # {} /\ Docs \cap Scripts = {} /\ Rank \in [Items -> Nat]
  /\ \A d \in Docs, s \in Scripts : Rank[d] < Rank[s]
  /\ MaxText \in Nat \ {0, 1} /\ MaxCopies \in Nat /\ MaxActs \in Nat /\ None \notin Texts
  /\ Found \subseteq Holding /\ Files \subseteq Holding \ {Empty}
  /\ Keep \in [Pruned -> Nat \ {0}]
  /\ Pruned \cap {"manual", "before-import", "before-reset"} = {}

VARIABLES
  doc,         \* the text of each document and script
  side,        \* the texts kept beside each document (.v<n>.bak, .from-v<n>)
  copies,      \* the backups folder: what the copies of each kind hold, the oldest first
  pending,     \* pending-import.toml: Empty when there is none
  damaged,     \* ... whether it can no longer be parsed
  resetWaits,  \* the marker of a reset
  at, todo,    \* where the app is, and what is still to do there
  made, acts,  \* the texts made so far, and what the user did
  wanted,      \* history: the texts in use that the user did not change or delete
  asked, sure, \* ... what was asked for last, and whether that alone waits
  failed       \* ... whether a step of this start failed

disk    == <<doc, side>>
waiting == <<pending, damaged, resetWaits>>
vars == <<disk, copies, waiting, at, todo, made, acts, wanted, asked, sure, failed>>

Stages == {"off", "reset", "clearing", "import", "writing", "applied", "running"}

\* What a text says, in whatever layout this build can bring it to.
Says(d, text) == <<d, text.n, IF text.layout = "newer" THEN "newer" ELSE "read">>
Sayings(holds) == {Says(d, holds[d]) : d \in {i \in Items : holds[i] # None}}

\* The ones this build reads.
InUse(holds) == {w \in Sayings(holds) : w[3] = "read"}

\* The first start of a build: the documents are of this one, an older or a newer one.
\* Texts 1 and 2 are those of the documents found and of the backups from elsewhere.
Init ==
  /\ doc \in Found /\ side = [d \in Docs |-> {}] /\ copies = [k \in Kinds |-> <<>>]
  /\ pending = Empty /\ damaged = FALSE /\ resetWaits = FALSE
  /\ at = "off" /\ todo = {} /\ made = 2 /\ acts = 0
  /\ wanted = InUse(doc) /\ asked = Empty /\ sure = FALSE /\ failed = FALSE

-----------------------------------------------------------------------------
(* The backups folder *)

\* save: a name that is taken gets a number, so no copy replaces another; nothing is
\* saved of nothing.
Saved(kind, holds) ==
  IF holds = Empty THEN copies ELSE [copies EXCEPT ![kind] = Append(@, holds)]

\* prune: only the newest of the kind stay.
Prune(kind, all) ==
  IF Len(all[kind]) > Keep[kind]
  THEN [all EXCEPT ![kind] = SubSeq(@, Len(@) - Keep[kind] + 1, Len(@))] ELSE all

\* The user does something while the app runs.
Act == at = "running" /\ acts < MaxActs /\ acts' = acts + 1

HasRoom == Cardinality(UNION {{k} \X (1..Len(copies[k])) : k \in Kinds}) < MaxCopies

\* collect: the documents, and the scripts when their folder is given.
Collect(items) == [d \in Items |-> IF d \in items THEN doc[d] ELSE None]

\* save_copy.
SaveCopy ==
  /\ Act
  /\ copies' = Saved("manual", Collect(Items))
  /\ UNCHANGED <<disk, waiting, at, todo, made, wanted, asked, sure, failed>>

\* auto_snapshot when it is due, snapshot_before_update; an old copy may not go.
Snapshot(kind) ==
  /\ Act /\ Collect(Items) # Empty
  /\ \/ copies' = Saved(kind, Collect(Items))
     \/ copies' = Prune(kind, Saved(kind, Collect(Items)))
  /\ UNCHANGED <<disk, waiting, at, todo, made, wanted, asked, sure, failed>>

\* remove: the user no longer wants what only this copy was to keep.
DeleteCopy(kind, i) ==
  /\ Act /\ i \in 1..Len(copies[kind])
  /\ copies' = [copies EXCEPT ![kind] = SubSeq(@, 1, i - 1) \o SubSeq(@, i + 1, Len(@))]
  /\ wanted' = wanted \ (Sayings(copies[kind][i]) \ Sayings(doc))
  /\ UNCHANGED <<disk, waiting, at, todo, made, asked, sure, failed>>

-----------------------------------------------------------------------------
(* The user works, and asks for a restore or a reset *)

Edit(d) ==
  /\ Act /\ made < MaxText
  /\ made' = made + 1
  /\ doc' = [doc EXCEPT ![d] = [n |-> made + 1, layout |-> "current"]]
  /\ wanted' = (wanted \ {w \in Sayings(doc) : w[1] = d}) \cup {<<d, made + 1, "read">>}
  /\ UNCHANGED <<side, copies, waiting, at, todo, asked, sure, failed>>

\* stage_import: a reset that waits is cancelled, or stays when its marker cannot go.
StageImport(holds) ==
  /\ Act
  /\ pending' = holds /\ damaged' = FALSE /\ resetWaits' \in {FALSE, resetWaits}
  /\ asked' = holds /\ sure' = ~resetWaits'
  /\ UNCHANGED <<disk, copies, at, todo, made, wanted, failed>>

CancelImport ==
  /\ Act /\ pending # Empty
  /\ \/ pending' = Empty /\ damaged' = FALSE
     \/ UNCHANGED <<pending, damaged>>
  /\ asked' = Empty /\ sure' = FALSE
  /\ UNCHANGED <<disk, copies, resetWaits, at, todo, made, wanted, failed>>

\* stage_reset: the marker, then an import that waits is cancelled, and the app restarts;
\* when the import cannot go, both wait and the app goes on.
StageReset ==
  /\ Act /\ resetWaits' = TRUE /\ asked' = Empty
  /\ \/ pending' = Empty /\ damaged' = FALSE /\ sure' = TRUE /\ at' = "off"
     \/ pending # Empty /\ sure' = FALSE /\ UNCHANGED <<pending, damaged, at>>
  /\ UNCHANGED <<disk, copies, todo, made, wanted, failed>>

\* The app ends, by itself or in the middle of a start.
Stop ==
  /\ at # "off" /\ at' = "off" /\ todo' = {}
  /\ UNCHANGED <<disk, copies, waiting, made, wanted, asked, sure, failed, acts>>

\* What waits was changed by hand, or written by a newer build.
Damage ==
  /\ at = "off" /\ pending # Empty /\ damaged' = TRUE /\ sure' = FALSE
  /\ UNCHANGED <<disk, copies, pending, resetWaits, at, todo, made, wanted, asked, failed, acts>>

-----------------------------------------------------------------------------
(* apply_pending: what waits is applied before anything reads the documents *)

Goes(stage, items) == at' = stage /\ todo' = items

\* d is the next one to do.
NextIs(d) == d \in todo /\ (\A e \in todo : Rank[d] <= Rank[e]) /\ todo' = todo \ {d}

Start ==
  /\ at = "off" /\ (resetWaits \/ pending # Empty => HasRoom)
  /\ Goes(IF resetWaits THEN "reset" ELSE "import", {}) /\ failed' = FALSE
  /\ sure' = (sure /\ (resetWaits \/ pending # Empty))
  /\ UNCHANGED <<disk, copies, waiting, made, wanted, asked, acts>>

\* Any error ends it, and the app starts with what was done.
Fail ==
  /\ \/ at \in {"reset", "clearing", "writing"}
     \/ at = "import" /\ pending # Empty
  /\ Goes("applied", Docs) /\ failed' = TRUE
  /\ UNCHANGED <<disk, copies, waiting, made, wanted, asked, sure, acts>>

\* Slip: a copy that cannot be saved does not stop the reset.
ResetCopiesIfPossible ==
  /\ at = "reset" /\ Goes("clearing", Docs)
  /\ copies' \in {copies, Saved("before-reset", Collect(Docs))}
  /\ UNCHANGED <<disk, waiting, made, wanted, asked, sure, failed, acts>>

\* apply_reset: the documents are saved first ...
ResetCopies ==
  /\ at = "reset" /\ Goes("clearing", Docs)
  /\ copies' = Saved("before-reset", Collect(Docs))
  /\ UNCHANGED <<disk, waiting, made, wanted, asked, sure, failed, acts>>

\* ... then the two folders are cleared, one after the other, with all files in them ...
ResetClears(d) ==
  /\ at = "clearing" /\ NextIs(d)
  /\ doc' = [doc EXCEPT ![d] = None] /\ side' = [side EXCEPT ![d] = {}]
  /\ UNCHANGED <<copies, waiting, at, made, wanted, asked, sure, failed, acts>>

\* ... and the marker goes last.
ResetEnds ==
  /\ at = "clearing" /\ todo = {} /\ Goes("import", {}) /\ resetWaits' = FALSE
  /\ UNCHANGED <<disk, copies, pending, damaged, made, wanted, asked, sure, failed, acts>>

\* No import waits; or it cannot be parsed, and is put aside if it can be.
NothingToImport ==
  /\ at = "import" /\ (pending = Empty \/ damaged)
  /\ Goes("applied", Docs)
  /\ failed' = (failed \/ damaged)
  /\ \/ pending' = Empty /\ damaged' = FALSE
     \/ UNCHANGED <<pending, damaged>>
  /\ UNCHANGED <<disk, copies, resetWaits, made, wanted, asked, sure, acts>>

Brought == {d \in Items : pending[d] # None}

\* apply_import: what will be replaced is saved first ...
ImportCopies ==
  /\ at = "import" /\ pending # Empty /\ ~damaged /\ Goes("writing", Brought)
  /\ copies' = Saved("before-import",
                     Collect({d \in Brought : doc[d] # None /\ doc[d] # pending[d]}))
  /\ UNCHANGED <<disk, waiting, made, wanted, asked, sure, failed, acts>>

\* ... then each document is written, and each script.
ImportWrites(d) ==
  /\ at = "writing" /\ NextIs(d)
  /\ doc' = [doc EXCEPT ![d] = pending[d]]
  /\ wanted' = wanted \cup {w \in InUse(doc') : w[1] = d}
  /\ UNCHANGED <<side, copies, waiting, at, made, asked, sure, failed, acts>>

\* Slip: the import is forgotten when its first document is written.
ImportEndsEarly ==
  /\ at = "writing" /\ todo # Brought
  /\ pending' = Empty /\ Goes("applied", Docs)
  /\ UNCHANGED <<disk, copies, damaged, resetWaits, made, wanted, asked, sure, failed, acts>>

\* ... and the import goes last.
ImportEnds ==
  /\ at = "writing" /\ todo = {} /\ Goes("applied", Docs) /\ pending' = Empty
  /\ UNCHANGED <<disk, copies, damaged, resetWaits, made, wanted, asked, sure, failed, acts>>

-----------------------------------------------------------------------------
(* migrations::run: the documents are brought to the layout of this build *)

\* A copy of the oldest layout is not replaced; one of a newer build is.
KeptBeside(d) ==
  CASE doc[d].layout = "old" /\ (\A t \in side[d] : t.layout # "old") -> side[d] \cup {doc[d]}
    [] doc[d].layout = "old" /\ (\E t \in side[d] : t.layout = "old") -> side[d]
    [] doc[d].layout = "newer" -> {t \in side[d] : t.layout # "newer"} \cup {doc[d]}

\* upgrade_document: the text is kept, then replaced or (of a newer build) removed; an
\* error leaves the document, with or without its copy.
Upgrade(d) ==
  /\ at = "applied" /\ NextIs(d)
  /\ IF doc[d] = None \/ doc[d].layout = "current" THEN UNCHANGED disk
     ELSE \/ UNCHANGED doc /\ side' \in {side, [side EXCEPT ![d] = KeptBeside(d)]}
          \/ /\ side' = [side EXCEPT ![d] = KeptBeside(d)]
             /\ doc' = [doc EXCEPT ![d] = IF @.layout = "newer" THEN None
                                          ELSE [@ EXCEPT !.layout = "current"]]
  /\ UNCHANGED <<copies, waiting, at, made, wanted, asked, sure, failed, acts>>

\* The app has started.
Run ==
  /\ at = "applied" /\ todo = {} /\ Goes("running", {})
  /\ UNCHANGED <<disk, copies, waiting, made, wanted, asked, sure, failed, acts>>

-----------------------------------------------------------------------------
Restorable == Files \cup UNION {{copies[k][i] : i \in 1..Len(copies[k])} : k \in Kinds}

User ==
  \/ SaveCopy \/ CancelImport \/ StageReset
  \/ \E kind \in Pruned : Snapshot(kind)
  \/ \E kind \in Kinds : \E i \in 1..Len(copies[kind]) : DeleteCopy(kind, i)
  \/ \E d \in Items : Edit(d)
  \/ \E holds \in Restorable : StageImport(holds)

Applying ==
  \/ Start \/ Fail \/ ResetCopies \/ ResetEnds \/ NothingToImport \/ ImportCopies \/ ImportEnds
  \/ \E d \in Docs : ResetClears(d) \/ Upgrade(d)
  \/ \E d \in Items : ImportWrites(d)
  \/ Run

Next == User \/ Stop \/ Damage \/ Applying

Spec == Init /\ [][Next]_vars

-----------------------------------------------------------------------------
(* Properties *)

TypeOK ==
  /\ doc \in Holding /\ side \in [Docs -> SUBSET Texts] /\ copies \in [Kinds -> Seq(Holding)]
  /\ pending \in Holding /\ damaged \in BOOLEAN /\ resetWaits \in BOOLEAN
  /\ at \in Stages /\ todo \subseteq Items /\ made \in 2..MaxText /\ acts \in 0..MaxActs
  /\ wanted \subseteq Items \X (1..MaxText) \X {"read"}
  /\ asked \in Holding /\ sure \in BOOLEAN /\ failed \in BOOLEAN

Held(kinds) == UNION {UNION {Sayings(copies[k][i]) : i \in 1..Len(copies[k])} : k \in kinds}

\* Whatever restore or reset is asked for, fails, is cut short or is applied again, each
\* text that was in use and that the user did not change or delete is a document or is
\* in a copy, and in one that is never pruned (staged.rs: "What is replaced is saved
\* first ... so nothing is lost to a full disk").
ReplacedIsKept == wanted \subseteq Sayings(doc) \cup Held(Kinds \ Pruned)

\* When a start leaves nothing waiting, the documents are what was asked for last, all of
\* it, however many starts it took and whatever was edited between them.
AskedIsDone ==
  at = "applied" /\ todo = Docs /\ sure /\ pending = Empty /\ ~resetWaits =>
    IF asked = Empty THEN \A d \in Docs : doc[d] = None
    ELSE \A d \in Items : asked[d] # None => doc[d] = asked[d]

\* A start in which no step failed leaves nothing waiting: no restore or reset comes a
\* second time, over what the user changed since.
AppliedIsOver == at = "applied" /\ ~failed => pending = Empty /\ ~resetWaits
=============================================================================
