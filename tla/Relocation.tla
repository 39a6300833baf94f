------------------------------ MODULE Relocation ------------------------------
(***************************************************************************)
(* Moving a kind of saved data to another folder (wyck-storage: relocate   *)
(* and locations; wyck-app: locations.rs): the request that waits for the  *)
(* next start, the steps of that start with a failure or a crash at each,  *)
(* and the folders that are used, left behind and deleted.                 *)
(*                                                                         *)
(* The files of a folder are one value: the version of the data they are   *)
(* and whether a copy of it was cut short.  What is written through        *)
(* atomic_write (the request, the pointer, a marker) is there or is not.   *)
(* A drive that is not there makes a folder unreadable or, when a folder   *)
(* above it can be written, lets another one come under its name: what is  *)
(* behind a name is what it shows when the drive comes back, or goes.      *)
(*                                                                         *)
(* Left out: the names of the folders (links, dots, one folder inside      *)
(* another: equal here), the other build, the folder of the indicators,    *)
(* which changes without a move, a request that cannot be parsed, and an   *)
(* empty folder without a marker, which is one that is not there (it can   *)
(* only be a chosen one after a copy failed under such a name).            *)
(***************************************************************************)
EXTENDS Naturals, Sequences

CONSTANTS
  Kinds,        \* the kinds of data; a kind also names its standard folder
  Carried,      \* those whose files are carried (not the logs)
  Folders,      \* the folders a user may choose
  Pointer,      \* locations.toml
  MayGo,        \* the folders, and the pointer, that may not be readable at a start
  MayVanish,    \* the folders of a drive that may be away, under a folder that can be written
  Nobody, Stay, \* no marker; no change of a kind
  MaxVersion,   \* bound: the versions of the data ever made
  MaxMoved      \* bound: the folders set aside before a last move is asked for

ASSUME RelocationAssumption ==
  /\ Carried \subseteq Kinds /\ Kinds \cap Folders = {} /\ MayGo \subseteq Folders \cup {Pointer}
  /\ MayVanish \subseteq Folders
  /\ Nobody \notin Kinds /\ Stay \notin Kinds \cup Folders /\ Pointer \notin Folders
  /\ Nobody \notin Folders /\ MaxVersion \in Nat \ {0, 1} /\ MaxMoved \in Nat

Places   == Kinds \cup Folders
Contents == [of : Kinds \cup {Nobody}, version : 0..MaxVersion, cut : BOOLEAN]
Nothing  == [of |-> Nobody, version |-> 0, cut |-> FALSE]
Data(k, v) == [of |-> k, version |-> v, cut |-> FALSE]
PartOf(c)  == [c EXCEPT !.cut = TRUE]

VARIABLES
  folder, marker,   \* the files of each place; the marker of each folder
  moved,            \* the folders that were set aside, in order
  choice, left,     \* locations.toml: the place of each kind, the leftovers it lists
  request,          \* pending-relocation.toml
  away,             \* what cannot be read at the moment
  behind, behindMark, \* the files and the marker behind the name of each folder
  at, kind, steps,  \* apply_pending: where it is, the kind it moves, what is still to do
  mem,              \* ... and the choices it holds
  dir,              \* the places of this run
  made, wanted,     \* history: the versions made, the contents that must not be lost
  home, seen,       \* ... where the data of each kind is, and what it was when last changed
  fell,             \* ... the kinds that this run reads from the standard folder for now
  taken,            \* ... the kinds whose move takes the data that is there, on purpose
  short             \* ... whether a copy that was cut short was put to use

pointerVars == <<choice, left>>
diskVars    == <<folder, marker, moved>>
applyVars   == <<at, kind, steps, mem>>
weather     == <<away, behind, behindMark>>
lastSeen    == <<home, seen, fell>>
history     == <<made, wanted, lastSeen, taken, short>>
vars == <<diskVars, pointerVars, request, weather, applyVars, dir, history>>

NoRequest == [k \in Kinds |-> Stay]
NoMem     == [choice |-> [k \in Kinds |-> k], left |-> {}]
NoSteps   == [k \in Kinds |-> "none"]
Actions   == {"none", "Switch", "Adopt", "Copy"}
Stages    == {"off", "applying", "copying", "placed", "ready", "saved", "renamed", "running"}

\* A first start of this version: the data is in the standard folders, and another
\* computer may have filled one of the others.
Init ==
  /\ \E k \in Kinds, filled \in SUBSET Folders :
       /\ folder = [p \in Places |->
            IF p \in Kinds THEN Data(p, 1) ELSE IF p \in filled THEN Data(k, 2) ELSE Nothing]
       /\ marker = [p \in Folders |-> IF p \in filled THEN k ELSE Nobody]
       /\ wanted = {folder[p] : p \in Places} \ {Nothing}
  /\ moved = <<>> /\ choice = [k \in Kinds |-> k] /\ left = {}
  /\ request = NoRequest /\ away = {}
  /\ behind = [p \in Folders |-> Nothing] /\ behindMark = [p \in Folders |-> Nobody]
  /\ at = "running" /\ kind = Nobody
  /\ steps = NoSteps /\ mem = NoMem
  /\ dir = [k \in Kinds |-> k]
  /\ made = 2 /\ home = [k \in Kinds |-> k] /\ seen = [k \in Kinds |-> Data(k, 1)]
  /\ fell = {} /\ taken = {} /\ short = FALSE

-----------------------------------------------------------------------------
(* Which place a kind is read from *)

\* check, for a folder in use: one that is not there, or of another kind, is not used.
Usable(p, k) ==
  /\ p \notin away /\ marker[p] \in {k, Nobody}
  /\ marker[p] = k \/ folder[p] # Nothing

\* resolve: a chosen folder that cannot be used is the standard one for this run.
Resolve(choices) ==
  [k \in Kinds |->
     IF Pointer \notin away /\ choices[k] \in Folders /\ Usable(choices[k], k)
     THEN choices[k] ELSE k]

\* A kind is read from another folder than before, since this run or the last one has to
\* do without the folder that was chosen for it.
Elsewhere(k, choices) == dir'[k] # home[k] /\ (k \in fell \/ dir'[k] # choices[k])

\* What a start finds is in use from now on.
Use(choices) ==
  /\ dir' = Resolve(choices)
  /\ home' = [k \in Kinds |-> IF Elsewhere(k, choices) THEN dir'[k] ELSE home[k]]
  /\ seen' = [k \in Kinds |-> IF Elsewhere(k, choices) THEN folder[dir'[k]] ELSE seen[k]]
  /\ fell' = {k \in Kinds : dir'[k] # choices[k]}
  /\ short' = (short \/ \E k \in Kinds : folder[dir'[k]].cut)

-----------------------------------------------------------------------------
(* plan: what a request would do, from the places the kinds are in *)

Changes(r, from) == {k \in Kinds : r[k] # Stay /\ r[k] # from[k]}

\* holds_files for a standard folder, the marker for another.
HasData(k, to) == IF to \in Kinds THEN folder[to] # Nothing ELSE marker[to] = k

\* check, for a folder that was chosen: one that cannot be read or made, is another kind's, or
\* holds files that are not Wyck's (one that is not there is to be made); and two kinds in
\* one place.
Refused(r, from) ==
  \/ \E k \in Changes(r, from) :
       /\ r[k] \in Folders
       /\ \/ r[k] \in away \/ marker[r[k]] \notin {k, Nobody}
          \/ marker[r[k]] = Nobody /\ folder[r[k]] # Nothing
  \/ \E j, k \in Kinds :
       LET After(i) == IF i \in Changes(r, from) THEN r[i] ELSE from[i]
       IN  j # k /\ After(j) = After(k)

Plan(r, from) ==
  [k \in Kinds |->
     CASE k \notin Changes(r, from) -> "none"
       [] k \in Changes(r, from) /\ (k \notin Carried \/ folder[from[k]] = Nothing) -> "Switch"
       [] k \in Changes(r, from) /\ k \in Carried /\ folder[from[k]] # Nothing ->
            IF HasData(k, r[k]) THEN "Adopt" ELSE "Copy"]

-----------------------------------------------------------------------------
(* The app runs *)

\* The user changes something: the documents are saved where they were read from.
Edit(k) ==
  /\ at = "running" /\ made < MaxVersion
  /\ made' = made + 1 /\ seen' = [seen EXCEPT ![k] = Data(k, made + 1)]
  /\ folder' = [folder EXCEPT ![dir[k]] = Data(k, made + 1)]
  /\ wanted' = (wanted \ {folder[dir[k]]}) \cup {Data(k, made + 1)}
  /\ UNCHANGED <<marker, moved, pointerVars, request, weather, applyVars, dir, home, fell, taken, short>>

\* stage: the folders are looked up again; a request with nothing to do writes nothing.
Stage(r) ==
  /\ at = "running" /\ Pointer \notin away /\ ~Refused(r, Resolve(choice))
  /\ Len(moved) < MaxMoved
  /\ request' = IF Changes(r, Resolve(choice)) = {} THEN request
                ELSE [k \in Kinds |-> IF k \in Changes(r, Resolve(choice)) THEN r[k] ELSE Stay]
  /\ UNCHANGED <<diskVars, pointerVars, weather, applyVars, dir, history>>

Cancel ==
  /\ at = "running" /\ request' \in {request, NoRequest}
  /\ UNCHANGED <<diskVars, pointerVars, weather, applyVars, dir, history>>

\* Slip: the folder is known by its place in the list.
DeleteOldest(i) ==
  /\ at = "running" /\ Pointer \notin away /\ i \in left
  /\ moved' = [moved EXCEPT ![1] = Nothing]
  /\ wanted' = wanted \ ({moved[i]} \ {folder[dir[k]] : k \in Kinds})
  /\ left' \in {left, left \ {i}}
  /\ UNCHANGED <<folder, marker, choice, request, weather, applyVars, dir, made, lastSeen, taken, short>>

\* delete_leftover: only a listed folder; the user no longer wants what it holds, unless
\* the same is in use.
DeleteLeftover(i) ==
  /\ at = "running" /\ Pointer \notin away /\ i \in left
  /\ moved' = [moved EXCEPT ![i] = Nothing]
  /\ wanted' = wanted \ ({moved[i]} \ {folder[dir[k]] : k \in Kinds})
  /\ left' \in {left, left \ {i}}
  /\ UNCHANGED <<folder, marker, choice, request, weather, applyVars, dir, made, lastSeen, taken, short>>

\* Nothing is being moved.
Idle == kind' = Nobody /\ steps' = NoSteps /\ mem' = NoMem /\ taken' = {}

\* The app ends, by itself or in the middle of a move.
Stop ==
  /\ at # "off" /\ at' = "off" /\ Idle
  /\ UNCHANGED <<diskVars, pointerVars, request, weather, dir, made, wanted, lastSeen, short>>

\* A drive or a cloud folder comes and goes between two runs: what is in a folder that it
\* brings, or takes away, is the drive's doing.
Weather ==
  /\ at = "off" /\ away' \in SUBSET MayGo
  /\ \E turned \in SUBSET MayVanish :
       /\ folder' = [p \in Places |-> IF p \in turned THEN behind[p] ELSE folder[p]]
       /\ marker' = [p \in Folders |-> IF p \in turned THEN behindMark[p] ELSE marker[p]]
       /\ behind' = [p \in Folders |-> IF p \in turned THEN folder[p] ELSE behind[p]]
       /\ behindMark' = [p \in Folders |-> IF p \in turned THEN marker[p] ELSE behindMark[p]]
       /\ seen' = [k \in Kinds |-> IF home[k] \in turned THEN behind[home[k]] ELSE seen[k]]
  /\ UNCHANGED <<moved, pointerVars, request, applyVars, dir, made, wanted, home, fell, taken, short>>

-----------------------------------------------------------------------------
(* prepare: the start of the app *)

\* No move waits, or the file of the one that does cannot be read this time.
Start ==
  /\ at = "off" /\ at' = "running" /\ Use(choice)
  /\ UNCHANGED <<diskVars, pointerVars, request, weather, kind, steps, mem, made, wanted, taken>>

\* apply_pending: a move that cannot be made is dropped (if its file can be) ...
Drop ==
  /\ at = "off" /\ request # NoRequest
  /\ Pointer \in away \/ Refused(request, Resolve(choice))
  /\ at' = "running" /\ request' \in {request, NoRequest} /\ Use(choice)
  /\ UNCHANGED <<diskVars, pointerVars, weather, kind, steps, mem, made, wanted, taken>>

\* ... and each step of one that can is planned from what the folders hold now.
Apply ==
  /\ at = "off" /\ request # NoRequest
  /\ Pointer \notin away /\ ~Refused(request, Resolve(choice))
  /\ at' = "applying" /\ Use(choice)
  /\ steps' = Plan(request, dir') /\ mem' = [choice |-> choice, left |-> left]
  /\ taken' = {k \in Kinds : steps'[k] \in {"Adopt", "Switch"}}
  /\ UNCHANGED <<diskVars, pointerVars, request, weather, kind, made, wanted>>

To    == request[kind]
From  == dir[kind]
Doing == steps[kind]

\* The step of the kind goes on, or is over.
Goes(stage) == at' = stage /\ UNCHANGED <<kind, steps>>
Over        == at' = "applying" /\ kind' = Nobody /\ steps' = [steps EXCEPT ![kind] = "none"]

\* Slip: the folder is marked as Wyck's before it is filled.
CarryOutMarked(k) ==
  /\ at = "applying" /\ steps[k] # "none" /\ kind' = k
  /\ \/ /\ steps[k] = "Copy" /\ at' = "copying"
        /\ folder' = [folder EXCEPT ![request[k]] = PartOf(folder[dir[k]])]
        /\ marker' = [p \in Folders |-> IF p = request[k] THEN k ELSE marker[p]]
     \/ steps[k] # "Copy" /\ at' = "placed" /\ UNCHANGED <<folder, marker>>
  /\ UNCHANGED <<steps, moved, pointerVars, request, weather, mem, dir, history>>

\* carry_out: the folder is made, or cannot be; the first file is copied.
CarryOut(k) ==
  /\ at = "applying" /\ steps[k] # "none"
  /\ \/ at' = "applying" /\ steps' = [steps EXCEPT ![k] = "none"]
        /\ UNCHANGED <<kind, folder>>
     \/ /\ steps[k] = "Copy" /\ at' = "copying" /\ kind' = k
        /\ folder' = [folder EXCEPT ![request[k]] = PartOf(folder[dir[k]])]
        /\ UNCHANGED steps
     \/ steps[k] # "Copy" /\ at' = "placed" /\ kind' = k /\ UNCHANGED <<steps, folder>>
  /\ UNCHANGED <<marker, moved, pointerVars, request, weather, mem, dir, history>>

\* The copy is complete and reads back the same, or what was made is taken back, as far
\* as it can be removed.
Copied ==
  /\ at = "copying"
  /\ \/ folder' = [folder EXCEPT ![To] = folder[From]] /\ Goes("placed")
     \/ \E rest \in {Nothing, folder[To]} : folder' = [folder EXCEPT ![To] = rest] /\ Over
  /\ UNCHANGED <<marker, moved, pointerVars, request, weather, mem, dir, history>>

\* The marker is the last thing written, and a standard folder has none.
Mark ==
  /\ at = "placed"
  /\ \/ To \in Kinds /\ Goes("ready") /\ UNCHANGED marker
     \/ To \in Folders /\ Goes("ready") /\ marker' = [marker EXCEPT ![To] = kind]
     \/ To \in Folders /\ Over /\ UNCHANGED marker
  /\ UNCHANGED <<folder, moved, pointerVars, request, weather, mem, dir, history>>

\* The kinds that locations.toml now names another folder for are there.  What a folder
\* held before is what a kind shows from then on, when that was the move; a copy that was
\* cut short is not taken on purpose.
Settled ==
  /\ home' = [k \in Kinds |-> IF k = kind \/ choice'[k] # choice[k] THEN choice'[k] ELSE home[k]]
  /\ seen' = [k \in Kinds |->
                IF k \in taken /\ home'[k] # home[k] /\ ~folder[home'[k]].cut
                THEN folder[home'[k]] ELSE seen[k]]

\* Slip: the old folder is set aside whether or not the choice was saved.
ChooseAnyway ==
  /\ at = "ready"
  /\ mem' = [mem EXCEPT !.choice[kind] = To]
  /\ IF Doing = "Switch" THEN Over ELSE Goes("saved")
  /\ \/ choice' = mem'.choice /\ Settled
     \/ UNCHANGED <<choice, home, seen>>
  /\ UNCHANGED <<diskVars, left, request, weather, dir, made, wanted, fell, taken, short>>

\* The choice is saved; when it cannot be, apply_pending still holds it.
Choose ==
  /\ at = "ready"
  /\ mem' = [mem EXCEPT !.choice[kind] = To]
  /\ \/ /\ choice' = mem'.choice /\ left' = mem'.left /\ Settled
        /\ IF Doing = "Switch" THEN Over ELSE Goes("saved")
     \/ Over /\ UNCHANGED <<pointerVars, home, seen>>
  /\ UNCHANGED <<diskVars, request, weather, dir, made, wanted, fell, taken, short>>

\* set_aside: the old folder is renamed, with its marker ...
SetAside ==
  /\ at = "saved"
  /\ \/ /\ moved' = Append(moved, folder[From])
        /\ folder' = [folder EXCEPT ![From] = Nothing]
        /\ marker' = [p \in Folders |-> IF p = From THEN Nobody ELSE marker[p]]
        /\ Goes("renamed")
     \/ Over /\ UNCHANGED diskVars
  /\ UNCHANGED <<pointerVars, request, weather, mem, dir, history>>

\* ... and listed.
Record ==
  /\ at = "renamed" /\ Over
  /\ mem' = [mem EXCEPT !.left = @ \cup {Len(moved)}]
  /\ \/ choice' = mem'.choice /\ left' = mem'.left
     \/ UNCHANGED pointerVars
  /\ UNCHANGED <<diskVars, request, weather, dir, history>>

\* forget_move, whatever happened; then the places are looked up again.
Forget ==
  /\ at = "applying" /\ steps = NoSteps
  /\ at' = "running" /\ request' \in {request, NoRequest} /\ Use(choice) /\ Idle
  /\ UNCHANGED <<diskVars, pointerVars, weather, made, wanted>>

-----------------------------------------------------------------------------
Requests == [Kinds -> Places \cup {Stay}]
Asked    == {r \in Requests : \A k \in Kinds : r[k] \in {k, Stay} \cup Folders} \ {NoRequest}

User     == Cancel \/ (\E r \in Asked : Stage(r)) \/ (\E k \in Kinds : Edit(k))
            \/ \E i \in left : DeleteLeftover(i)
Moving   == Copied \/ Mark \/ Choose \/ SetAside \/ Record \/ \E k \in Kinds : CarryOut(k)
Starting == Start \/ Drop \/ Apply \/ Forget

Next == User \/ Stop \/ Weather \/ Starting \/ Moving

Spec == Init /\ [][Next]_vars

-----------------------------------------------------------------------------
(* Properties *)

\* Every variable has its type.
TypeOK ==
  /\ folder \in [Places -> Contents] /\ marker \in [Folders -> Kinds \cup {Nobody}]
  /\ moved \in Seq(Contents)
  /\ choice \in [Kinds -> Places] /\ left \subseteq 1..Len(moved)
  /\ request \in Requests /\ away \subseteq MayGo
  /\ behind \in [Folders -> Contents] /\ behindMark \in [Folders -> Kinds \cup {Nobody}]
  /\ at \in Stages /\ kind \in Kinds \cup {Nobody} /\ steps \in [Kinds -> Actions]
  /\ mem \in [choice : [Kinds -> Places], left : SUBSET (1..Len(moved))]
  /\ dir \in [Kinds -> Places]
  /\ made \in 2..MaxVersion /\ wanted \subseteq Contents
  /\ home \in [Kinds -> Places] /\ seen \in [Kinds -> Contents] /\ fell \subseteq Kinds
  /\ taken \subseteq Kinds /\ short \in BOOLEAN

Somewhere ==
  {folder[p] : p \in Places} \cup {behind[p] : p \in Folders} \cup {moved[i] : i \in 1..Len(moved)}

\* Whatever fails, is cut short or is asked again, data that the user did not change or
\* delete is whole in some folder: in use, left behind, of the other computer, or on a drive
\* that is not there (relocate: "so nothing is lost if the user changes their mind").
NothingIsLost == wanted \subseteq Somewhere

\* The folder that locations.toml names was marked for the kind before, and is still
\* under its name when its drive is as it was then: a start never looks for one that was
\* set aside.
ChosenIsReady ==
  \A k \in Kinds : choice[k] \in Folders => k \in {marker[choice[k]], behindMark[choice[k]]}

\* A folder marked as Wyck's never holds a part of a copy, unless such a part was
\* taken for data before (relocate: "the marker is the last thing written").
MarkedIsWhole == ~short => \A p \in Folders : marker[p] # Nobody => ~folder[p].cut

\* A running app shows the last change of each kind, whatever step of a move failed or was
\* cut short.  While a chosen folder cannot be read that is the last change in the standard
\* one, which is used for the time; a drive shows what it holds, and a move to data that was
\* there shows that data.  The one thing shown that nobody chose is a copy that was cut short.
NewestIsShown ==
  at = "running" => \A k \in Kinds : folder[dir[k]] = seen[k] \/ folder[dir[k]].cut

\* Two kinds are never read from one folder.
KindsStayApart == at = "running" => \A j, k \in Kinds : j # k => dir[j] # dir[k]
=============================================================================
