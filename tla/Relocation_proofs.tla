--------------------------- MODULE Relocation_proofs ---------------------------
(***************************************************************************)
(* Proofs about Relocation, for any kinds and folders and any number of    *)
(* moves: wherever a move fails or is cut short, nothing the user has is   *)
(* lost, a running app shows the last change, the folders that             *)
(* locations.toml names are Wyck's, and two kinds never share one.         *)
(***************************************************************************)
EXTENDS Relocation, TLAPS

InMove == at \in {"copying", "placed", "ready", "saved", "renamed"}

\* A kind is in its standard folder or in one of the folders, never in another's.
OwnPlaces ==
  \A k \in Kinds :
    /\ request[k] \in {k, Stay} \cup Folders
    /\ choice[k] \in {k} \cup Folders /\ mem.choice[k] \in {k} \cup Folders
    /\ dir[k] \in {k} \cup Folders

\* The choices that apply_pending holds are as good as the saved ones.
HeldIsReady ==
  \A k \in Kinds : mem.choice[k] \in Folders =>
    k \in {marker[mem.choice[k]], behindMark[mem.choice[k]]}

\* Where the kinds that are still to be moved go to and come from.
Targets ==
  \A k \in Kinds : steps[k] # "none" =>
    /\ request[k] # Stay
    /\ request[k] \in Folders => marker[request[k]] \in {k, Nobody}
    /\ \A j \in Kinds : request[k] # dir[j]
    /\ \A j \in Kinds \ {k} : steps[j] # "none" => request[j] # request[k]
    /\ dir[k] \in Folders => marker[dir[k]] \in {k, Nobody}

\* A copy goes into an empty folder, which has no marker until the copy is complete.
Waiting ==
  \A k \in Kinds : steps[k] = "Copy" /\ k # kind =>
    /\ folder[request[k]] = Nothing
    /\ request[k] \in Folders => marker[request[k]] = Nobody

Step ==
  /\ at \in {"off", "running"} => \A k \in Kinds : steps[k] = "none"
  /\ ~InMove => kind = Nobody
  /\ InMove => kind \in Kinds /\ steps[kind] # "none"
  /\ at = "copying" => folder[To].cut /\ (To \in Folders => marker[To] = Nobody)
  /\ at \in {"ready", "saved", "renamed"} => (To \in Folders => marker[To] = kind)
  /\ at = "renamed" => Len(moved) \in 1..Len(moved)
  /\ at \in {"saved", "renamed"} => choice[kind] = To /\ mem.choice = choice

\* What must not be lost is whole.
WantedIsWhole == \A c \in wanted : ~c.cut /\ c # Nothing

\* No two kinds are read from one place.
InPlace == at # "off" => \A j, k \in Kinds : j # k => dir[j] # dir[k]

\* What MarkedIsWhole says, of the folders behind the names.
BehindIsWhole == ~short => \A p \in Folders : behindMark[p] # Nobody => ~behind[p].cut

\* A cut copy is where nothing looks for data: not in the places of a run, nor in a folder
\* that is still to be marked.
Whole ==
  ~short =>
    /\ at # "off" => \A k \in Kinds : ~folder[dir[k]].cut
    /\ \A k \in Kinds : steps[k] # "none" /\ ~(at = "copying" /\ k = kind) =>
         (request[k] \in Folders => ~folder[request[k]].cut)

\* The rest of the invariant, without the type.
Rest ==
  /\ OwnPlaces /\ HeldIsReady /\ Targets /\ Waiting /\ Step /\ WantedIsWhole /\ InPlace
  /\ Whole /\ ChosenIsReady /\ MarkedIsWhole /\ BehindIsWhole /\ NothingIsLost

Inv == TypeOK /\ Rest

LEMMA ContentsFacts ==
  /\ Nothing \in Contents /\ ~Nothing.cut
  /\ \A c \in Contents : PartOf(c) \in Contents /\ PartOf(c).cut
  /\ \A k \in Kinds, v \in 0..MaxVersion :
       Data(k, v) \in Contents /\ ~Data(k, v).cut /\ Data(k, v) # Nothing
  <1>1. MaxVersion \in Nat /\ 0 \in 0..MaxVersion BY RelocationAssumption
  <1>2. Nothing \in Contents /\ ~Nothing.cut BY <1>1 DEF Contents, Nothing
  <1>3. ASSUME NEW c \in Contents PROVE PartOf(c) \in Contents /\ PartOf(c).cut
    BY DEF Contents, PartOf
  <1>4. ASSUME NEW k \in Kinds, NEW v \in 0..MaxVersion
        PROVE  Data(k, v) \in Contents /\ ~Data(k, v).cut /\ Data(k, v) # Nothing
    <2>1. Data(k, v).of = k /\ Nothing.of = Nobody BY DEF Data, Nothing
    <2> QED BY <2>1, RelocationAssumption DEF Contents, Data
  <1> QED BY <1>2, <1>3, <1>4

LEMMA Distinct ==
  /\ Nobody \notin Kinds /\ Stay \notin Places /\ Kinds \cap Folders = {}
  /\ Kinds \subseteq Places /\ Folders \subseteq Places
  BY RelocationAssumption DEF Places

\* Resolve gives each kind its saved folder or its standard one.
LEMMA ResolveFacts ==
  ASSUME NEW choices, NEW k \in Kinds
  PROVE  Resolve(choices)[k] = k \/ (Resolve(choices)[k] = choices[k] /\ choices[k] \in Folders)
  BY DEF Resolve

\* Another content in one place leaves a typed folder.
LEMMA Filled ==
  ASSUME folder \in [Places -> Contents], NEW p \in Places, NEW c \in Contents
  PROVE  [folder EXCEPT ![p] = c] \in [Places -> Contents]
  OBVIOUS

LEMMA InitInv == Init => Inv
  <1> SUFFICES ASSUME Init PROVE Inv
    OBVIOUS
  <1> USE Distinct, ContentsFacts DEF Init
  <1>0. 1 \in 0..MaxVersion /\ 2 \in 0..MaxVersion /\ 2 \in 2..MaxVersion /\ 1 \in 1..MaxVersion
    BY RelocationAssumption
  <1>1. PICK k \in Kinds, filled \in SUBSET Folders :
          /\ folder = [p \in Places |->
               IF p \in Kinds THEN Data(p, 1) ELSE IF p \in filled THEN Data(k, 2) ELSE Nothing]
          /\ marker = [p \in Folders |-> IF p \in filled THEN k ELSE Nobody]
          /\ wanted = {folder[p] : p \in Places} \ {Nothing}
    OBVIOUS
  <1>2. folder \in [Places -> Contents] /\ \A p \in Places : ~folder[p].cut
    <2> SUFFICES ASSUME NEW p \in Places PROVE folder[p] \in Contents /\ ~folder[p].cut
      BY <1>1
    <2> QED BY <1>0, <1>1
  <1>3. TypeOK
    <2>1. marker \in [Folders -> Kinds \cup {Nobody}] BY <1>1
    <2>2. wanted \subseteq Contents BY <1>1, <1>2
    <2>3. choice \in [Kinds -> Places] /\ dir \in [Kinds -> Places] OBVIOUS
    <2>4. mem \in [choice : [Kinds -> Places], left : SUBSET (1..Len(moved))] BY DEF NoMem
    <2>5. request \in Requests BY DEF Requests, NoRequest
    <2>6. steps \in [Kinds -> Actions] BY DEF NoSteps, Actions
    <2>7. moved \in Seq(Contents) OBVIOUS
    <2>8. at \in Stages BY DEF Stages
    <2>9. home \in [Kinds -> Places] /\ seen \in [Kinds -> Contents] /\ made \in 2..MaxVersion
      BY <1>0
    <2>10. behind \in [Folders -> Contents] /\ behindMark \in [Folders -> Kinds \cup {Nobody}]
      OBVIOUS
    <2> QED BY <1>2, <2>1, <2>2, <2>3, <2>4, <2>5, <2>6, <2>7, <2>8, <2>9, <2>10 DEF TypeOK
  <1>4. OwnPlaces BY DEF OwnPlaces, NoRequest, NoMem
  <1>5. HeldIsReady BY DEF HeldIsReady, NoMem
  <1>6. Targets /\ Waiting BY DEF Targets, Waiting, NoSteps
  <1>7. Step BY DEF Step, NoSteps, InMove
  <1>8. WantedIsWhole BY <1>1, <1>2 DEF WantedIsWhole
  <1>9. ChosenIsReady BY DEF ChosenIsReady
  <1>10. NothingIsLost BY <1>1 DEF NothingIsLost, Somewhere
  <1>11. InPlace BY DEF InPlace
  <1>12. Whole
    <2>1. \A j \in Kinds : ~folder[dir[j]].cut BY <1>2
    <2> QED BY <2>1 DEF Whole, NoSteps
  <1>13. MarkedIsWhole /\ BehindIsWhole BY <1>2 DEF MarkedIsWhole, BehindIsWhole
  <1> QED
    BY <1>3, <1>4, <1>5, <1>6, <1>7, <1>8, <1>9, <1>10, <1>11, <1>12, <1>13 DEF Inv, Rest

-----------------------------------------------------------------------------
LEMMA StepType == Inv /\ [Next]_vars => TypeOK'
  <1> SUFFICES ASSUME Inv, [Next]_vars PROVE TypeOK'
    OBVIOUS
  <1> USE Distinct, ContentsFacts DEF Inv, Rest, TypeOK
  <1> USE DEF diskVars, pointerVars, applyVars, weather, lastSeen, history, Requests
  <1>a. ASSUME NEW c PROVE Resolve(choice) \in [Kinds -> Places]
    BY DEF Resolve
  <1>b. NoMem \in [choice : [Kinds -> Places], left : SUBSET (1..Len(moved))] BY DEF NoMem
  <1>c. NoSteps \in [Kinds -> Actions] /\ "none" \in Actions BY DEF NoSteps, Actions
  <1>d. NoRequest \in Requests BY DEF NoRequest
  <1>g. Use(choice) => /\ dir' \in [Kinds -> Places] /\ home' \in [Kinds -> Places]
                       /\ seen' \in [Kinds -> Contents] /\ fell' \subseteq Kinds /\ short' \in BOOLEAN
    BY <1>a DEF Use
  <1>1. ASSUME NEW k \in Kinds, Edit(k) PROVE TypeOK'
    <2>1. made + 1 \in 2..MaxVersion /\ made + 1 \in 0..MaxVersion /\ made + 1 \in 1..MaxVersion
      BY <1>1, RelocationAssumption DEF Edit
    <2>2. Data(k, made + 1) \in Contents BY <2>1
    <2>3. folder' \in [Places -> Contents] /\ wanted' \subseteq Contents
      BY <1>1, <2>2 DEF Edit
    <2>4. seen' \in [Kinds -> Contents] BY <1>1, <2>2 DEF Edit
    <2> QED BY <1>1, <2>1, <2>3, <2>4 DEF Edit
  <1>2. ASSUME NEW r \in Asked, Stage(r) PROVE TypeOK'
    <2>1. request' \in Requests
      <3>1. r \in [Kinds -> Places \cup {Stay}] BY <1>2 DEF Asked
      <3> QED BY <1>2, <3>1 DEF Stage
    <2> QED BY <1>2, <2>1 DEF Stage
  <1>3. CASE Cancel
    BY <1>3, <1>d DEF Cancel
  <1>4. ASSUME NEW i \in left, DeleteLeftover(i) PROVE TypeOK'
    <2>1. moved' \in Seq(Contents) /\ Len(moved') = Len(moved)
      BY <1>4 DEF DeleteLeftover
    <2>2. left' \subseteq 1..Len(moved) BY <1>4 DEF DeleteLeftover
    <2> QED BY <1>4, <2>1, <2>2 DEF DeleteLeftover
  <1>5. CASE Stop
    BY <1>5, <1>b, <1>c DEF Stop, Idle, Stages
  <1>6. CASE Weather
    <2>1. PICK turned \in SUBSET MayVanish :
       /\ folder' = [p \in Places |-> IF p \in turned THEN behind[p] ELSE folder[p]]
       /\ marker' = [p \in Folders |-> IF p \in turned THEN behindMark[p] ELSE marker[p]]
       /\ behind' = [p \in Folders |-> IF p \in turned THEN folder[p] ELSE behind[p]]
       /\ behindMark' = [p \in Folders |-> IF p \in turned THEN marker[p] ELSE behindMark[p]]
       /\ seen' = [k \in Kinds |-> IF home[k] \in turned THEN behind[home[k]] ELSE seen[k]]
      BY <1>6 DEF Weather
    <2>2. turned \subseteq Folders BY RelocationAssumption
    <2>3. folder' \in [Places -> Contents] /\ behind' \in [Folders -> Contents]
      BY <2>1, <2>2
    <2>4. seen' \in [Kinds -> Contents] BY <2>1, <2>2
    <2>5. /\ marker' \in [Folders -> Kinds \cup {Nobody}]
          /\ behindMark' \in [Folders -> Kinds \cup {Nobody}]
      BY <2>1
    <2> QED BY <1>6, <2>3, <2>4, <2>5 DEF Weather
  <1>7. CASE Start \/ Drop
    BY <1>7, <1>g, <1>d DEF Start, Drop, Stages
  <1>8. CASE Apply
    <2>1. steps' \in [Kinds -> Actions] BY <1>8 DEF Apply, Plan, Actions
    <2>2. taken' \subseteq Kinds /\ mem' \in [choice : [Kinds -> Places], left : SUBSET (1..Len(moved))]
      BY <1>8 DEF Apply
    <2> QED BY <1>8, <1>g, <2>1, <2>2 DEF Apply, Stages
  <1>9. CASE Forget
    BY <1>9, <1>g, <1>b, <1>c, <1>d DEF Forget, Idle, Stages
  <1>10. ASSUME NEW k \in Kinds, CarryOut(k) PROVE TypeOK'
    <2>0. steps' = steps \/ steps' = [steps EXCEPT ![k] = "none"] BY <1>10 DEF CarryOut
    <2>1. steps' \in [Kinds -> Actions] BY <2>0, <1>c
    <2>2. folder' \in [Places -> Contents]
      <3>1. PartOf(folder[dir[k]]) \in Contents OBVIOUS
      <3>2. steps[k] # "none" => request[k] \in Places BY DEF Targets, OwnPlaces
      <3>3. steps[k] # "none" => [folder EXCEPT ![request[k]] = PartOf(folder[dir[k]])] \in [Places -> Contents]
        BY <3>1, <3>2, Filled
      <3> QED BY <1>10, <3>3 DEF CarryOut
    <2>4. at' \in Stages /\ kind' \in Kinds \cup {Nobody} BY <1>10 DEF CarryOut, Stages
    <2> QED BY <1>10, <2>1, <2>2, <2>4 DEF CarryOut
  <1> USE DEF Over, Goes
  <1>e. [steps EXCEPT ![kind] = "none"] \in [Kinds -> Actions] BY <1>c
  <1>f. InMove => kind \in Kinds /\ To \in Places /\ From \in Places
    BY DEF Step, Targets, To, From, OwnPlaces
  <1>11. CASE Copied
    <2>1. folder[From] \in Contents /\ folder[To] \in Contents
      BY <1>11, <1>f DEF Copied, InMove
    <2>2. \A c \in Contents : [folder EXCEPT ![To] = c] \in [Places -> Contents]
      BY <1>11, <1>f, Filled DEF Copied, InMove
    <2>4. PICK c \in Contents : folder' = [folder EXCEPT ![To] = c]
      BY <1>11, <2>1 DEF Copied
    <2>3. folder' \in [Places -> Contents] BY <2>2, <2>4
    <2> QED BY <1>11, <1>e, <2>3 DEF Copied, Stages
  <1>12. CASE Mark
    <2>0. kind \in Kinds BY <1>12, <1>f DEF Mark, InMove
    <2>1. marker' \in [Folders -> Kinds \cup {Nobody}] BY <1>12, <2>0 DEF Mark
    <2> QED BY <1>12, <1>e, <2>1 DEF Mark, Stages
  <1>13. CASE Choose
    <2>0. To \in Places BY <1>13, <1>f DEF Choose, InMove
    <2>1. mem' \in [choice : [Kinds -> Places], left : SUBSET (1..Len(moved))]
      BY <1>13, <2>0 DEF Choose
    <2>2. choice' \in [Kinds -> Places] /\ left' \subseteq 1..Len(moved)
      BY <1>13, <2>1 DEF Choose
    <2>3. at' \in Stages /\ kind' \in Kinds \cup {Nobody} /\ steps' \in [Kinds -> Actions]
      BY <1>13, <1>e DEF Choose, Stages
    <2>4. home' \in [Kinds -> Places] BY <1>13, <2>2 DEF Choose, Settled
    <2>5. seen' \in [Kinds -> Contents] BY <1>13, <2>4 DEF Choose, Settled
    <2> QED BY <1>13, <2>1, <2>2, <2>3, <2>4, <2>5 DEF Choose
  <1>14. CASE SetAside
    <2>0. folder[From] \in Contents BY <1>14, <1>f DEF SetAside, InMove
    <2>10. [folder EXCEPT ![From] = Nothing] \in [Places -> Contents]
      BY <1>14, <1>f, Filled DEF SetAside, InMove
    <2>11. folder' \in [Places -> Contents] BY <1>14, <2>10 DEF SetAside
    <2>12. marker' \in [Folders -> Kinds \cup {Nobody}] BY <1>14 DEF SetAside
    <2>1. folder' \in [Places -> Contents] /\ marker' \in [Folders -> Kinds \cup {Nobody}]
      BY <2>11, <2>12
    <2>20. Append(moved, folder[From]) \in Seq(Contents) /\ Len(Append(moved, folder[From])) = Len(moved) + 1
      BY <2>0
    <2>21. Len(moved) \in Nat OBVIOUS
    <2>22. 1..Len(moved) \subseteq 1..(Len(moved) + 1) BY <2>21
    <2>2. moved' \in Seq(Contents) /\ 1..Len(moved) \subseteq 1..Len(moved')
      BY <1>14, <2>20, <2>22 DEF SetAside
    <2>3. left \subseteq 1..Len(moved') /\ mem \in [choice : [Kinds -> Places], left : SUBSET (1..Len(moved'))]
      BY <2>2
    <2>4. at' \in Stages /\ kind' \in Kinds \cup {Nobody} /\ steps' \in [Kinds -> Actions]
      BY <1>14, <1>e DEF SetAside, Stages
    <2> QED BY <1>14, <2>1, <2>2, <2>3, <2>4 DEF SetAside
  <1>15. CASE Record
    <2>0. Len(moved) \in 1..Len(moved) BY <1>15 DEF Record, Step
    <2>1. mem' \in [choice : [Kinds -> Places], left : SUBSET (1..Len(moved))]
      BY <1>15, <2>0 DEF Record
    <2>2. choice' \in [Kinds -> Places] /\ left' \subseteq 1..Len(moved)
      BY <1>15, <2>1 DEF Record
    <2>3. at' \in Stages /\ kind' \in Kinds \cup {Nobody} /\ steps' \in [Kinds -> Actions]
      BY <1>15, <1>e DEF Record, Stages
    <2> QED BY <1>15, <2>1, <2>2, <2>3 DEF Record
  <1>16. CASE UNCHANGED vars
    BY <1>16 DEF vars
  <1> QED
    BY <1>1, <1>2, <1>3, <1>4, <1>5, <1>6, <1>7, <1>8, <1>9, <1>10, <1>11, <1>12, <1>13,
       <1>14, <1>15, <1>16 DEF Next, User, Starting, Moving

-----------------------------------------------------------------------------
\* The user's own steps change no place of a kind and no marker.
LEMMA StepUser == Inv /\ User => Rest'
  <1> SUFFICES ASSUME Inv, User PROVE Rest'
    OBVIOUS
  <1> USE Distinct, ContentsFacts
      DEF Inv, Rest, diskVars, pointerVars, applyVars, weather, lastSeen, history
  <1>0. at = "running" => \A j \in Kinds : steps[j] = "none" BY DEF Step
  <1>1. ASSUME NEW k \in Kinds, Edit(k) PROVE Rest'
    <2>1. /\ UNCHANGED <<marker, moved, choice, left, request, at, kind, steps, mem, dir, short>>
          /\ UNCHANGED <<behind, behindMark>> /\ at = "running"
      BY <1>1 DEF Edit
    <2>2. OwnPlaces' /\ HeldIsReady' /\ ChosenIsReady' /\ InPlace'
      BY <2>1 DEF OwnPlaces, HeldIsReady, ChosenIsReady, InPlace
    <2>3. \A j \in Kinds : steps[j] = "none" BY <1>0, <2>1
    <2>4. Targets' /\ Waiting' BY <2>1, <2>3 DEF Targets, Waiting
    <2>5. Step' BY <2>1 DEF Step, InMove, To
    <2>6. Data(k, made + 1) \in Contents /\ ~Data(k, made + 1).cut /\ Data(k, made + 1) # Nothing
      <3>1. made + 1 \in 0..MaxVersion BY <1>1, RelocationAssumption DEF Edit, TypeOK
      <3> QED BY <3>1
    <2>7. WantedIsWhole' BY <1>1, <2>6 DEF Edit, WantedIsWhole
    <2>8. dir[k] \in Places BY DEF TypeOK
    <2>9. \A p \in Places : folder'[p] = IF p = dir[k] THEN Data(k, made + 1) ELSE folder[p]
      BY <1>1, <2>8 DEF Edit, TypeOK
    <2>10. NothingIsLost' BY <1>1, <2>1, <2>8, <2>9 DEF Edit, NothingIsLost, Somewhere
    <2>11. \A p \in Places : ~folder[p].cut => ~folder'[p].cut BY <2>6, <2>9
    <2>12. \A j \in Kinds : dir[j] \in Places BY DEF TypeOK
    <2>13. Whole' /\ MarkedIsWhole' /\ BehindIsWhole'
      BY <2>1, <2>3, <2>11, <2>12 DEF Whole, MarkedIsWhole, BehindIsWhole
    <2> QED BY <2>2, <2>4, <2>5, <2>7, <2>10, <2>13
  <1>2. CASE Cancel \/ \E r \in Asked : Stage(r)
    <2>1. /\ UNCHANGED <<folder, marker, moved, choice, left, at, kind, steps, mem, dir, wanted, short>>
          /\ UNCHANGED <<behind, behindMark>> /\ at = "running"
      BY <1>2 DEF Stage, Cancel
    <2>2. \A j \in Kinds : steps[j] = "none" BY <1>0, <2>1
    <2>3. \A k \in Kinds : request'[k] \in {k, Stay} \cup Folders
      BY <1>2 DEF Stage, Cancel, Asked, NoRequest, OwnPlaces
    <2>4. OwnPlaces' BY <2>1, <2>3 DEF OwnPlaces
    <2>5. HeldIsReady' /\ ChosenIsReady' /\ InPlace'
      BY <2>1 DEF HeldIsReady, ChosenIsReady, InPlace
    <2>6. Targets' /\ Waiting' BY <2>1, <2>2 DEF Targets, Waiting
    <2>7. Step' BY <2>1 DEF Step, InMove
    <2>8. WantedIsWhole' /\ NothingIsLost' BY <2>1 DEF WantedIsWhole, NothingIsLost, Somewhere
    <2>9. Whole' /\ MarkedIsWhole' /\ BehindIsWhole'
      BY <2>1, <2>2 DEF Whole, MarkedIsWhole, BehindIsWhole
    <2> QED BY <2>4, <2>5, <2>6, <2>7, <2>8, <2>9
  <1>3. ASSUME NEW i \in left, DeleteLeftover(i) PROVE Rest'
    <2>1. /\ UNCHANGED <<folder, marker, choice, request, at, kind, steps, mem, dir, short>>
          /\ UNCHANGED <<behind, behindMark>> /\ at = "running"
      BY <1>3 DEF DeleteLeftover
    <2>2. OwnPlaces' /\ HeldIsReady' /\ ChosenIsReady' /\ InPlace'
      BY <2>1 DEF OwnPlaces, HeldIsReady, ChosenIsReady, InPlace
    <2>3. \A j \in Kinds : steps[j] = "none" BY <1>0, <2>1
    <2>4. Targets' /\ Waiting' BY <2>1, <2>3 DEF Targets, Waiting
    <2>5. Step' BY <2>1 DEF Step, InMove
    <2>6. WantedIsWhole' BY <1>3 DEF DeleteLeftover, WantedIsWhole
    <2>7. i \in 1..Len(moved) /\ Len(moved') = Len(moved)
      BY <1>3 DEF DeleteLeftover, TypeOK
    <2>8. \A j \in 1..Len(moved) : j # i => moved'[j] = moved[j]
      BY <1>3 DEF DeleteLeftover, TypeOK
    <2>9. ASSUME NEW c \in wanted' PROVE c \in Somewhere'
      <3>1. c \in wanted /\ (c # moved[i] \/ \E k \in Kinds : c = folder[dir[k]])
        BY <1>3 DEF DeleteLeftover
      <3>2. CASE (\E p \in Places : c = folder[p]) \/ \E p \in Folders : c = behind[p]
        BY <2>1, <3>2 DEF Somewhere
      <3>4. \A k \in Kinds : dir[k] \in Places BY DEF TypeOK
      <3>3. CASE \E j \in 1..Len(moved) : c = moved[j]
        BY <3>1, <3>2, <3>3, <3>4, <2>7, <2>8 DEF Somewhere
      <3> QED BY <3>1, <3>2, <3>3 DEF NothingIsLost, Somewhere
    <2>10. NothingIsLost' BY <2>9 DEF NothingIsLost
    <2>11. Whole' /\ MarkedIsWhole' /\ BehindIsWhole'
      BY <2>1 DEF Whole, MarkedIsWhole, BehindIsWhole
    <2> QED BY <2>2, <2>4, <2>5, <2>6, <2>10, <2>11
  <1> QED BY <1>1, <1>2, <1>3 DEF User

\* A start reads no two kinds from one place: a folder that is marked for one of them, in
\* front or behind, cannot be without a marker for both.
LEMMA UseApart ==
  ASSUME Inv, Use(choice)
  PROVE  /\ \A k \in Kinds : dir'[k] \in Folders => marker[dir'[k]] \in {k, Nobody}
         /\ \A k \in Kinds : dir'[k] \in Folders => marker[dir'[k]] = k \/ folder[dir'[k]] # Nothing
         /\ \A j, k \in Kinds : j # k => dir'[j] # dir'[k]
  <1> USE Distinct DEF Inv, Rest
  <1>1. ASSUME NEW k \in Kinds
        PROVE  dir'[k] = k \/ (/\ dir'[k] = choice[k] /\ choice[k] \in Folders
                               /\ Usable(choice[k], k))
    BY DEF Use, Resolve
  <1>2. ASSUME NEW k \in Kinds, dir'[k] \in Folders
        PROVE  /\ marker[dir'[k]] \in {k, Nobody}
               /\ marker[dir'[k]] = k \/ folder[dir'[k]] # Nothing
               /\ k \in {marker[dir'[k]], behindMark[dir'[k]]}
    BY <1>1, <1>2 DEF Usable, ChosenIsReady
  <1>3. ASSUME NEW j \in Kinds, NEW k \in Kinds, j # k PROVE dir'[j] # dir'[k]
    <2>1. CASE dir'[j] \in Folders /\ dir'[k] \in Folders BY <1>2, <1>3, <2>1
    <2>2. CASE dir'[j] = j \/ dir'[k] = k BY <1>1, <1>3, <2>2
    <2> QED BY <1>1, <2>1, <2>2
  <1> QED BY <1>2, <1>3

\* A drive that comes or goes changes which folder is in front, never what there is.
LEMMA StepWeather == Inv /\ Weather => Rest'
  <1> SUFFICES ASSUME Inv, Weather PROVE Rest'
    OBVIOUS
  <1> USE Distinct DEF Inv, Rest, pointerVars, applyVars
  <1>1. PICK turned \in SUBSET MayVanish :
       /\ folder' = [p \in Places |-> IF p \in turned THEN behind[p] ELSE folder[p]]
       /\ marker' = [p \in Folders |-> IF p \in turned THEN behindMark[p] ELSE marker[p]]
       /\ behind' = [p \in Folders |-> IF p \in turned THEN folder[p] ELSE behind[p]]
       /\ behindMark' = [p \in Folders |-> IF p \in turned THEN marker[p] ELSE behindMark[p]]
    BY DEF Weather
  <1>2. /\ UNCHANGED <<moved, choice, left, request, at, kind, steps, mem, dir, wanted, short>>
        /\ at = "off"
    BY DEF Weather
  <1>3. turned \subseteq Folders BY RelocationAssumption
  <1>4. \A p \in Folders : {marker'[p], behindMark'[p]} = {marker[p], behindMark[p]}
    BY <1>1
  <1>5. OwnPlaces' BY <1>2 DEF OwnPlaces
  <1>6. HeldIsReady' /\ ChosenIsReady' BY <1>2, <1>4 DEF HeldIsReady, ChosenIsReady
  <1>7. \A k \in Kinds : steps'[k] = "none" BY <1>2 DEF Step
  <1>8. Targets' /\ Waiting' /\ InPlace' BY <1>2, <1>7 DEF Targets, Waiting, InPlace
  <1>9. Step' /\ Whole' BY <1>2, <1>7 DEF Step, InMove, Whole
  <1>10. WantedIsWhole' BY <1>2 DEF WantedIsWhole
  <1>11. MarkedIsWhole' /\ BehindIsWhole'
    BY <1>1, <1>2 DEF MarkedIsWhole, BehindIsWhole
  <1>12. NothingIsLost'
    <2> SUFFICES ASSUME NEW c \in wanted PROVE c \in Somewhere'
      BY <1>2 DEF NothingIsLost
    <2>1. c \in Somewhere BY DEF NothingIsLost
    <2>2. CASE \E p \in Places : c = folder[p]
      <3>1. PICK p \in Places : c = folder[p] BY <2>2
      <3>2. CASE p \in turned
        <4>1. p \in Folders /\ behind'[p] = c BY <1>1, <1>3, <3>1, <3>2
        <4> QED BY <4>1 DEF Somewhere
      <3>3. CASE p \notin turned
        <4>1. folder'[p] = c BY <1>1, <3>1, <3>3
        <4> QED BY <4>1 DEF Somewhere
      <3> QED BY <3>2, <3>3
    <2>3. CASE \E p \in Folders : c = behind[p]
      <3>1. PICK p \in Folders : c = behind[p] BY <2>3
      <3>2. folder'[p] = c \/ behind'[p] = c BY <1>1, <3>1
      <3> QED BY <3>2 DEF Somewhere
    <2>4. CASE \E i \in 1..Len(moved) : c = moved[i] BY <1>2, <2>4 DEF Somewhere
    <2> QED BY <2>1, <2>2, <2>3, <2>4 DEF Somewhere
  <1> QED BY <1>5, <1>6, <1>8, <1>9, <1>10, <1>11, <1>12

\* A start with no move to make finds the places of the kinds again.
LEMMA StepStart == Inv /\ (Stop \/ Start \/ Drop \/ Forget) => Rest'
  <1> SUFFICES ASSUME Inv, Stop \/ Start \/ Drop \/ Forget PROVE Rest'
    OBVIOUS
  <1> USE Distinct DEF Inv, Rest, diskVars, pointerVars, applyVars, weather, lastSeen, history
  <1>0. at = "off" => \A k \in Kinds : steps[k] = "none" BY DEF Step
  <1>1. UNCHANGED <<folder, marker, behind, behindMark, moved, choice, left, wanted>>
    BY DEF Stop, Start, Drop, Forget
  <1>2. at' \in {"off", "running"} /\ kind' = Nobody /\ \A k \in Kinds : steps'[k] = "none"
    BY <1>0 DEF Stop, Start, Drop, Forget, Idle, NoSteps, Step, InMove
  <1>3. (dir' = dir /\ short' = short /\ at' = "off") \/ (Use(choice) /\ at' = "running")
    BY DEF Stop, Start, Drop, Forget
  <1>4. mem' = mem \/ mem' = NoMem
    BY DEF Stop, Start, Drop, Forget, Idle
  <1>5. \A k \in Kinds : dir'[k] = dir[k] \/ dir'[k] = k
                         \/ (dir'[k] = choice[k] /\ choice[k] \in Folders)
    BY <1>3, ResolveFacts DEF Use
  <1>6. \A k \in Kinds : request'[k] \in {k, Stay} \cup Folders
    BY DEF Stop, Start, Drop, Forget, NoRequest, OwnPlaces
  <1>7. OwnPlaces' BY <1>1, <1>4, <1>5, <1>6 DEF OwnPlaces, NoMem
  <1>8. HeldIsReady' BY <1>1, <1>4 DEF HeldIsReady, NoMem
  <1>9. Targets' /\ Waiting' /\ Step' BY <1>2 DEF Targets, Waiting, Step, InMove
  <1>10. WantedIsWhole' /\ ChosenIsReady' /\ NothingIsLost'
    BY <1>1 DEF WantedIsWhole, ChosenIsReady, NothingIsLost, Somewhere
  <1>11. InPlace' BY <1>3, UseApart DEF InPlace
  <1>12. ~short' => ~short BY <1>3 DEF Use
  <1>13. MarkedIsWhole' /\ BehindIsWhole' BY <1>1, <1>12 DEF MarkedIsWhole, BehindIsWhole
  <1>14. ~short' /\ at' # "off" => \A k \in Kinds : ~folder'[dir'[k]].cut
    BY <1>1, <1>3 DEF Use
  <1>15. Whole' BY <1>2, <1>14 DEF Whole
  <1> QED BY <1>7, <1>8, <1>9, <1>10, <1>11, <1>13, <1>15

\* A move that is begun has its targets apart from every folder in use, and from each other.
LEMMA StepApply == Inv /\ Apply => Rest'
  <1> SUFFICES ASSUME Inv, Apply PROVE Rest'
    OBVIOUS
  <1> USE Distinct DEF Inv, Rest, diskVars, pointerVars, applyVars, weather, history
  <1>1. UNCHANGED <<folder, marker, behind, behindMark, moved, choice, left, wanted, request, kind>>
    BY DEF Apply
  <1>2. at = "off" /\ at' = "applying" /\ kind' = Nobody /\ mem'.choice = choice
    BY DEF Apply, Step, InMove
  <1>3. dir' = Resolve(choice) /\ steps' = Plan(request, dir') /\ ~Refused(request, dir')
    BY DEF Apply, Use
  <1>4. \A k \in Kinds : dir'[k] = k \/ (dir'[k] = choice[k] /\ choice[k] \in Folders)
    BY <1>3, ResolveFacts
  <1>5. /\ \A k \in Kinds : dir'[k] \in Folders =>
              marker[dir'[k]] \in {k, Nobody} /\ (marker[dir'[k]] = k \/ folder[dir'[k]] # Nothing)
        /\ \A j, k \in Kinds : j # k => dir'[j] # dir'[k]
    BY UseApart DEF Apply
  <1>6. \A k \in Kinds : steps'[k] # "none" => k \in Changes(request, dir')
    BY <1>3 DEF Plan
  <1>7. \A k \in Changes(request, dir') :
          /\ k \in Kinds /\ request[k] # Stay /\ request[k] # dir'[k]
          /\ request[k] \in {k} \cup Folders
    BY DEF Changes, OwnPlaces
  <1>8. \A k \in Changes(request, dir') : request[k] \in Folders =>
          /\ marker[request[k]] \in {k, Nobody}
          /\ marker[request[k]] = Nobody => folder[request[k]] = Nothing
    BY <1>3 DEF Refused
  <1>9. \A k \in Changes(request, dir') : \A j \in Kinds : request[k] # dir'[j]
    <2> SUFFICES ASSUME NEW k \in Changes(request, dir'), NEW j \in Kinds, request[k] = dir'[j]
                 PROVE  FALSE
      OBVIOUS
    <2>1. k \in Kinds /\ j # k BY <1>7
    <2>2. CASE request[k] \in Folders BY <1>5, <1>8, <2>1, <2>2
    <2>3. CASE request[k] = k BY <1>4, <2>1, <2>3
    <2> QED BY <1>7, <2>2, <2>3
  <1>10. \A j, k \in Changes(request, dir') : j # k => request[j] # request[k]
    <2> SUFFICES ASSUME NEW j \in Changes(request, dir'), NEW k \in Changes(request, dir'), j # k
                 PROVE  request[j] # request[k]
      OBVIOUS
    <2>1. j \in Kinds /\ k \in Kinds BY <1>7
    <2> QED BY <1>3, <2>1 DEF Refused
  <1>11. OwnPlaces' BY <1>1, <1>2, <1>4 DEF OwnPlaces
  <1>12. HeldIsReady' /\ ChosenIsReady' BY <1>1, <1>2 DEF HeldIsReady, ChosenIsReady
  <1>13. Targets'
    <2> SUFFICES ASSUME NEW k \in Kinds, steps'[k] # "none"
                 PROVE  /\ request[k] # Stay
                        /\ request[k] \in Folders => marker[request[k]] \in {k, Nobody}
                        /\ \A j \in Kinds : request[k] # dir'[j]
                        /\ \A j \in Kinds \ {k} : steps'[j] # "none" => request[j] # request[k]
                        /\ dir'[k] \in Folders => marker[dir'[k]] \in {k, Nobody}
      BY <1>1 DEF Targets
    <2>1. k \in Changes(request, dir') BY <1>6
    <2>2. \A j \in Kinds \ {k} : steps'[j] # "none" => request[j] # request[k]
      BY <1>6, <1>10, <2>1
    <2> QED BY <1>5, <1>7, <1>8, <1>9, <2>1, <2>2
  <1>14. \A k \in Kinds : steps'[k] = "Copy" =>
           /\ folder[request[k]] = Nothing
           /\ request[k] \in Folders => marker[request[k]] = Nobody
    <2> SUFFICES ASSUME NEW k \in Kinds, steps'[k] = "Copy"
                 PROVE  /\ folder[request[k]] = Nothing
                        /\ request[k] \in Folders => marker[request[k]] = Nobody
      OBVIOUS
    <2>1. k \in Changes(request, dir') BY <1>6
    <2>2. ~HasData(k, request[k]) BY <1>3, <2>1 DEF Plan
    <2>3. CASE request[k] \in Folders BY <1>8, <2>1, <2>2, <2>3 DEF HasData
    <2>4. CASE request[k] = k BY <2>2, <2>4 DEF HasData
    <2> QED BY <1>7, <2>1, <2>3, <2>4
  <1>15. Waiting' BY <1>1, <1>14 DEF Waiting
  <1>16. Step' BY <1>2 DEF Step, InMove
  <1>17. WantedIsWhole' /\ NothingIsLost' BY <1>1 DEF WantedIsWhole, NothingIsLost, Somewhere
  <1>18. InPlace' BY <1>5 DEF InPlace
  <1>19. ~short' => ~short /\ \A k \in Kinds : ~folder[dir'[k]].cut BY DEF Apply, Use
  <1>20. MarkedIsWhole' /\ BehindIsWhole' BY <1>1, <1>19 DEF MarkedIsWhole, BehindIsWhole
  <1>21. ~short => \A k \in Kinds : steps'[k] # "none" =>
           (request[k] \in Folders => ~folder[request[k]].cut)
    BY <1>6, <1>8, ContentsFacts DEF MarkedIsWhole
  <1>22. Whole' BY <1>1, <1>19, <1>21 DEF Whole
  <1> QED BY <1>11, <1>12, <1>13, <1>15, <1>16, <1>17, <1>18, <1>20, <1>22

\* What is known of the kind that is being moved.
LEMMA Moves ==
  ASSUME Inv, InMove
  PROVE  /\ kind \in Kinds /\ steps[kind] # "none"
         /\ To \in {kind} \cup Folders /\ To \in Places /\ From \in Places
         /\ \A j \in Kinds : To # dir[j] /\ dir[j] \in Places
         /\ \A j \in Kinds \ {kind} : steps[j] # "none" =>
              request[j] # To /\ request[j] # From /\ request[j] \in Places
         /\ To \in Folders => marker[To] \in {kind, Nobody}
         /\ From \in Folders => marker[From] \in {kind, Nobody}
         /\ \A j \in Kinds \ {kind} : dir[j] # From
  BY Distinct DEF Inv, Rest, TypeOK, OwnPlaces, Targets, Step, InPlace, InMove, To, From

\* The files of a step are put in place, one kind at a time, beside every folder in use.
LEMMA StepCarryOut == ASSUME NEW k \in Kinds, Inv, CarryOut(k) PROVE Rest'
  <1> USE Distinct DEF Inv, Rest
  <1>1. /\ UNCHANGED <<marker, moved, choice, left, request, mem, dir, wanted, short>>
        /\ UNCHANGED <<behind, behindMark>> /\ at = "applying"
    BY DEF CarryOut, pointerVars, weather, history
  <1>2. kind = Nobody /\ steps[k] # "none" BY <1>1 DEF Step, InMove, CarryOut
  <1>3. OwnPlaces' /\ HeldIsReady' /\ ChosenIsReady' /\ InPlace' /\ WantedIsWhole' /\ BehindIsWhole'
    BY <1>1 DEF CarryOut, OwnPlaces, HeldIsReady, ChosenIsReady, InPlace, WantedIsWhole, BehindIsWhole
  <1>4. request[k] \in {k} \cup Folders /\ request[k] \in Places
    BY <1>2 DEF OwnPlaces, Targets
  <1>5. \A j \in Kinds : dir[j] # request[k] /\ dir[j] \in Places
    BY <1>2 DEF Targets, TypeOK
  <1>6. \A j \in Kinds \ {k} : steps[j] # "none" => request[j] # request[k]
    BY <1>2 DEF Targets
  <1>7. CASE at' = "applying" /\ steps' = [steps EXCEPT ![k] = "none"] /\ UNCHANGED <<kind, folder>>
    <2>1. \A j \in Kinds : steps'[j] # "none" => steps'[j] = steps[j] BY <1>7 DEF TypeOK
    <2>2. Targets' BY <1>1, <1>2, <1>7, <2>1 DEF Targets
    <2>3. Waiting' BY <1>1, <1>7, <2>1 DEF Waiting
    <2>4. Step' BY <1>2, <1>7 DEF Step, InMove
    <2>5. NothingIsLost' BY <1>1, <1>7 DEF NothingIsLost, Somewhere
    <2>6. MarkedIsWhole' BY <1>1, <1>7 DEF MarkedIsWhole
    <2>7. Whole' BY <1>1, <1>7, <2>1 DEF Whole
    <2> QED BY <1>3, <2>2, <2>3, <2>4, <2>5, <2>6, <2>7
  <1>8. CASE /\ steps[k] = "Copy" /\ at' = "copying" /\ kind' = k /\ steps' = steps
             /\ folder' = [folder EXCEPT ![request[k]] = PartOf(folder[dir[k]])]
    <2>1. /\ folder[request[k]] = Nothing
          /\ request[k] \in Folders => marker[request[k]] = Nobody
      BY <1>2, <1>8 DEF Waiting
    <2>2. PartOf(folder[dir[k]]).cut BY <1>5, ContentsFacts DEF TypeOK
    <2>3. \A p \in Places : folder'[p] = IF p = request[k] THEN PartOf(folder[dir[k]]) ELSE folder[p]
      BY <1>4, <1>8 DEF TypeOK
    <2>4. Targets' BY <1>1, <1>2, <1>8 DEF Targets
    <2>5. Waiting'
      <3> SUFFICES ASSUME NEW j \in Kinds, steps[j] = "Copy", j # k
                   PROVE  /\ folder'[request[j]] = Nothing
                          /\ request[j] \in Folders => marker[request[j]] = Nobody
        BY <1>1, <1>8 DEF Waiting
      <3>1. request[j] # request[k] /\ request[j] \in Places
        BY <1>6 DEF Targets, OwnPlaces
      <3> QED BY <1>2, <2>3, <3>1 DEF Waiting
    <2>6. Step' BY <1>1, <1>2, <1>4, <1>8, <2>1, <2>2, <2>3 DEF Step, InMove, To
    <2>7. NothingIsLost'
      <3> SUFFICES ASSUME NEW c \in wanted PROVE c \in Somewhere'
        BY <1>1 DEF NothingIsLost
      <3>1. c # Nothing /\ c \in Somewhere BY DEF WantedIsWhole, NothingIsLost
      <3> QED BY <1>1, <2>1, <2>3, <3>1 DEF Somewhere
    <2>8. MarkedIsWhole' BY <1>1, <2>1, <2>3 DEF MarkedIsWhole
    <2>9. Whole'
      <3> SUFFICES ASSUME ~short
                   PROVE  /\ \A j \in Kinds : ~folder'[dir[j]].cut
                          /\ \A j \in Kinds \ {k} : steps[j] # "none" =>
                               (request[j] \in Folders => ~folder'[request[j]].cut)
        BY <1>1, <1>8 DEF Whole
      <3>1. \A j \in Kinds : ~folder'[dir[j]].cut BY <1>1, <1>5, <2>3 DEF Whole
      <3>2. \A j \in Kinds \ {k} : steps[j] # "none" =>
               (request[j] \in Folders => ~folder'[request[j]].cut)
        BY <1>1, <1>6, <2>3 DEF Whole
      <3> QED BY <3>1, <3>2
    <2> QED BY <1>3, <2>4, <2>5, <2>6, <2>7, <2>8, <2>9
  <1>9. CASE at' = "placed" /\ kind' = k /\ UNCHANGED <<steps, folder>>
    <2>1. Targets' /\ Waiting' BY <1>1, <1>2, <1>9 DEF Targets, Waiting
    <2>2. Step' BY <1>2, <1>9 DEF Step, InMove
    <2>3. NothingIsLost' BY <1>1, <1>9 DEF NothingIsLost, Somewhere
    <2>4. MarkedIsWhole' /\ Whole' BY <1>1, <1>9 DEF MarkedIsWhole, Whole
    <2> QED BY <1>3, <2>1, <2>2, <2>3, <2>4
  <1> QED BY <1>7, <1>8, <1>9 DEF CarryOut

\* The copy, its marker and the choice, in that order.
LEMMA StepPlace == Inv /\ (Copied \/ Mark \/ Choose) => Rest'
  <1> SUFFICES ASSUME Inv, Copied \/ Mark \/ Choose PROVE Rest'
    OBVIOUS
  <1> USE Distinct DEF Inv, Rest, history, Over, Goes
  <1>1. InMove /\ UNCHANGED <<moved, request, dir, wanted, short, behind, behindMark>>
    BY DEF Copied, Mark, Choose, InMove, diskVars, weather
  <1>2. /\ kind \in Kinds /\ steps[kind] # "none"
        /\ To \in {kind} \cup Folders /\ To \in Places /\ From \in Places
        /\ \A j \in Kinds : To # dir[j] /\ dir[j] \in Places
        /\ \A j \in Kinds \ {kind} : steps[j] # "none" =>
             request[j] # To /\ request[j] # From /\ request[j] \in Places
    BY <1>1, Moves
  <1>3. \A j \in Kinds : steps'[j] # "none" => steps'[j] = steps[j]
    BY <1>2 DEF Copied, Mark, Choose, TypeOK
  <1>4. (at' = "applying" /\ kind' = Nobody /\ steps'[kind] = "none")
        \/ (at' \in {"placed", "ready", "saved"} /\ kind' = kind /\ steps' = steps)
    BY <1>2 DEF Copied, Mark, Choose, TypeOK
  <1>5. WantedIsWhole' /\ BehindIsWhole' BY <1>1 DEF WantedIsWhole, BehindIsWhole
  <1>6. InPlace' BY <1>1 DEF InPlace, InMove
  <1>7. CASE Copied
    <2>1. UNCHANGED <<marker, choice, mem>> /\ at = "copying" BY <1>7 DEF Copied, pointerVars
    <2>2. OwnPlaces' /\ HeldIsReady' /\ ChosenIsReady'
      BY <1>1, <2>1 DEF OwnPlaces, HeldIsReady, ChosenIsReady
    <2>3. folder[To].cut /\ (To \in Folders => marker[To] = Nobody) BY <2>1 DEF Step
    <2>4. \A p \in Places \ {To} : folder'[p] = folder[p]
      BY <1>2, <1>7 DEF Copied, TypeOK
    <2>5. Targets' BY <1>1, <1>3, <2>1 DEF Targets
    <2>6. Waiting'
      <3> SUFFICES ASSUME NEW j \in Kinds, steps'[j] = "Copy", j # kind'
                   PROVE  /\ folder'[request[j]] = Nothing
                          /\ request[j] \in Folders => marker[request[j]] = Nobody
        BY <1>1, <2>1 DEF Waiting
      <3>1. j # kind BY <1>4
      <3>2. steps[j] = "Copy" BY <1>3
      <3>3. request[j] \in Places \ {To} BY <1>2, <3>1, <3>2
      <3> QED BY <2>4, <3>1, <3>2, <3>3 DEF Waiting
    <2>7. Step'
      <3>1. at' \in {"applying", "placed"} BY <1>7 DEF Copied
      <3> QED BY <1>2, <1>4, <3>1 DEF Step, InMove
    <2>8. NothingIsLost'
      <3> SUFFICES ASSUME NEW c \in wanted PROVE c \in Somewhere'
        BY <1>1 DEF NothingIsLost
      <3>1. c # folder[To] /\ c \in Somewhere BY <2>3 DEF WantedIsWhole, NothingIsLost
      <3> QED BY <1>1, <1>2, <2>4, <3>1 DEF Somewhere
    <2>9. MarkedIsWhole' BY <1>1, <2>1, <2>3, <2>4 DEF MarkedIsWhole
    <2>10. Whole'
      <3> SUFFICES ASSUME ~short
                   PROVE  /\ \A j \in Kinds : ~folder'[dir[j]].cut
                          /\ \A j \in Kinds : steps'[j] # "none" =>
                               (request[j] \in Folders => ~folder'[request[j]].cut)
        BY <1>1 DEF Whole
      <3>1. \A j \in Kinds : ~folder'[dir[j]].cut BY <1>2, <2>1, <2>4 DEF Whole
      <3>2. ASSUME NEW j \in Kinds, steps'[j] # "none", request[j] \in Folders
            PROVE  ~folder'[request[j]].cut
        <4>1. CASE j # kind
          BY <1>2, <1>3, <2>4, <3>2, <4>1 DEF Whole
        <4>2. CASE j = kind
          <5>1. folder' = [folder EXCEPT ![To] = folder[From]] BY <1>4, <1>7, <3>2, <4>2 DEF Copied
          <5>2. folder'[To] = folder[From] BY <1>2, <5>1 DEF TypeOK
          <5> QED BY <1>2, <2>1, <4>2, <5>2 DEF Whole, To, From
        <4> QED BY <4>1, <4>2
      <3> QED BY <3>1, <3>2
    <2> QED BY <1>5, <1>6, <2>2, <2>5, <2>6, <2>7, <2>8, <2>9, <2>10
  <1>8. CASE Mark
    <2>1. UNCHANGED <<folder, choice, mem>> /\ at = "placed" BY <1>8 DEF Mark, pointerVars
    <2>2. OwnPlaces' BY <1>1, <2>1 DEF OwnPlaces
    <2>3. \A p \in Folders : marker'[p] = marker[p] \/ (p = To /\ marker'[p] = kind)
      BY <1>2, <1>8 DEF Mark, TypeOK
    <2>4. To \in Folders => marker[To] \in {kind, Nobody} BY <1>1, Moves
    <2>5. \A p \in Folders : \A j \in Kinds : marker[p] = j => marker'[p] = j
      BY <2>3, <2>4
    <2>6. HeldIsReady' /\ ChosenIsReady' BY <1>1, <2>1, <2>5 DEF HeldIsReady, ChosenIsReady
    <2>8. Targets'
      <3> SUFFICES ASSUME NEW j \in Kinds, steps'[j] # "none"
                   PROVE  /\ request[j] # Stay
                          /\ request[j] \in Folders => marker'[request[j]] \in {j, Nobody}
                          /\ \A i \in Kinds : request[j] # dir[i]
                          /\ \A i \in Kinds \ {j} : steps'[i] # "none" => request[i] # request[j]
                          /\ dir[j] \in Folders => marker'[dir[j]] \in {j, Nobody}
        BY <1>1 DEF Targets
      <3>1. steps[j] # "none" BY <1>3
      <3>2. request[j] \in Folders => marker'[request[j]] \in {j, Nobody}
        BY <1>2, <2>3, <3>1 DEF Targets
      <3>3. dir[j] \in Folders => marker'[dir[j]] \in {j, Nobody}
        BY <1>2, <2>3, <3>1 DEF Targets
      <3> QED BY <1>3, <3>1, <3>2, <3>3 DEF Targets
    <2>9. Waiting'
      <3> SUFFICES ASSUME NEW j \in Kinds, steps'[j] = "Copy", j # kind'
                   PROVE  /\ folder[request[j]] = Nothing
                          /\ request[j] \in Folders => marker'[request[j]] = Nobody
        BY <1>1, <2>1 DEF Waiting
      <3>1. j # kind BY <1>4
      <3>2. steps[j] = "Copy" BY <1>3
      <3> QED BY <1>2, <2>3, <3>1, <3>2 DEF Waiting
    <2>10. Step'
      <3>1. at' \in {"applying", "ready"} BY <1>8 DEF Mark
      <3>2. at' = "ready" => (To \in Folders => marker'[To] = kind)
        BY <1>2, <1>8 DEF Mark, TypeOK
      <3> QED BY <1>1, <1>2, <1>4, <3>1, <3>2 DEF Step, InMove, To
    <2>11. NothingIsLost' BY <1>1, <2>1 DEF NothingIsLost, Somewhere
    <2>12. ~short /\ To \in Folders => ~folder[To].cut BY <1>2, <2>1 DEF Whole, To
    <2>13. MarkedIsWhole' BY <1>1, <2>1, <2>3, <2>12 DEF MarkedIsWhole
    <2>14. Whole' BY <1>1, <1>3, <2>1 DEF Whole
    <2> QED BY <1>5, <1>6, <2>2, <2>6, <2>8, <2>9, <2>10, <2>11, <2>13, <2>14
  <1>9. CASE Choose
    <2>1. UNCHANGED <<folder, marker>> /\ at = "ready" BY <1>9 DEF Choose, diskVars
    <2>2. mem'.choice = [mem.choice EXCEPT ![kind] = To] BY <1>9 DEF Choose, TypeOK
    <2>3. choice' = choice \/ choice' = mem'.choice BY <1>9 DEF Choose, pointerVars
    <2>4. To \in Folders => marker[To] = kind BY <2>1 DEF Step
    <2>5. \A j \in Kinds : mem'.choice[j] = IF j = kind THEN To ELSE mem.choice[j]
      BY <1>2, <2>2 DEF TypeOK
    <2>6. OwnPlaces' BY <1>1, <1>2, <2>3, <2>5 DEF OwnPlaces
    <2>7. HeldIsReady' BY <1>1, <2>1, <2>4, <2>5 DEF HeldIsReady
    <2>8. ChosenIsReady' BY <1>1, <2>1, <2>3, <2>7 DEF HeldIsReady, ChosenIsReady
    <2>10. Targets' BY <1>1, <1>3, <2>1 DEF Targets
    <2>11. Waiting'
      <3> SUFFICES ASSUME NEW j \in Kinds, steps'[j] = "Copy", j # kind'
                   PROVE  steps[j] = "Copy" /\ j # kind
        BY <1>1, <2>1 DEF Waiting
      <3> QED BY <1>3, <1>4
    <2>12. Step'
      <3>1. at' = "applying" \/ (at' = "saved" /\ choice' = mem'.choice) BY <1>9 DEF Choose
      <3>2. at' = "saved" => choice'[kind] = To /\ mem'.choice = choice'
        BY <1>2, <2>5, <3>1
      <3> QED BY <1>1, <1>2, <1>4, <2>1, <2>4, <3>1, <3>2 DEF Step, InMove, To
    <2>13. NothingIsLost' BY <1>1, <2>1 DEF NothingIsLost, Somewhere
    <2>14. MarkedIsWhole' BY <1>1, <2>1 DEF MarkedIsWhole
    <2>15. Whole' BY <1>1, <1>3, <1>4, <2>1 DEF Whole
    <2> QED BY <1>5, <1>6, <2>6, <2>7, <2>8, <2>10, <2>11, <2>12, <2>13, <2>14, <2>15
  <1> QED BY <1>7, <1>8, <1>9

\* The old folder goes out of use only after the choice names another.
LEMMA StepSetAside == Inv /\ SetAside => Rest'
  <1> SUFFICES ASSUME Inv, SetAside PROVE Rest'
    OBVIOUS
  <1> USE Distinct DEF Inv, Rest, history, Over, Goes
  <1>1. /\ InMove /\ at = "saved"
        /\ UNCHANGED <<choice, left, request, mem, dir, wanted, short, behind, behindMark>>
    BY DEF SetAside, InMove, pointerVars, weather
  <1>2. /\ kind \in Kinds /\ steps[kind] # "none"
        /\ To \in {kind} \cup Folders /\ To \in Places /\ From \in Places
        /\ \A j \in Kinds : To # dir[j] /\ dir[j] \in Places
        /\ \A j \in Kinds \ {kind} : steps[j] # "none" =>
             request[j] # To /\ request[j] # From /\ request[j] \in Places
        /\ From \in Folders => marker[From] \in {kind, Nobody}
        /\ \A j \in Kinds \ {kind} : dir[j] # From
    BY <1>1, Moves
  <1>3. \A j \in Kinds : steps'[j] # "none" => steps'[j] = steps[j]
    BY <1>2 DEF SetAside, TypeOK
  <1>4. (at' = "applying" /\ kind' = Nobody /\ steps'[kind] = "none")
        \/ (at' = "renamed" /\ kind' = kind /\ steps' = steps)
    BY <1>2 DEF SetAside, TypeOK
  <1>5. OwnPlaces' /\ WantedIsWhole' /\ BehindIsWhole'
    BY <1>1 DEF OwnPlaces, WantedIsWhole, BehindIsWhole
  <1>6. InPlace' BY <1>1 DEF InPlace
  <1>7. CASE Over /\ UNCHANGED diskVars
    <2>1. UNCHANGED <<folder, marker, moved>> BY <1>7 DEF diskVars
    <2>2. HeldIsReady' /\ ChosenIsReady' BY <1>1, <2>1 DEF HeldIsReady, ChosenIsReady
    <2>3. at' = "applying" /\ kind' = Nobody /\ steps'[kind] = "none"
      BY <1>4, <1>7
    <2>4. Targets' BY <1>1, <1>3, <2>1 DEF Targets
    <2>5. Waiting'
      <3> SUFFICES ASSUME NEW j \in Kinds, steps'[j] = "Copy" PROVE steps[j] = "Copy" /\ j # kind
        BY <1>1, <2>1 DEF Waiting
      <3> QED BY <1>3, <2>3
    <2>6. Step' BY <2>3 DEF Step, InMove
    <2>7. NothingIsLost' BY <1>1, <2>1 DEF NothingIsLost, Somewhere
    <2>8. MarkedIsWhole' BY <1>1, <2>1 DEF MarkedIsWhole
    <2>9. Whole' BY <1>1, <1>3, <2>1 DEF Whole
    <2> QED BY <1>5, <1>6, <2>2, <2>4, <2>5, <2>6, <2>7, <2>8, <2>9
  <1>8. CASE /\ moved' = Append(moved, folder[From])
             /\ folder' = [folder EXCEPT ![From] = Nothing]
             /\ marker' = [p \in Folders |-> IF p = From THEN Nobody ELSE marker[p]]
             /\ at' = "renamed" /\ kind' = kind /\ steps' = steps
    <2>1. \A p \in Places : folder'[p] = IF p = From THEN Nothing ELSE folder[p]
      BY <1>2, <1>8 DEF TypeOK
    <2>2. \A p \in Folders : marker'[p] = IF p = From THEN Nobody ELSE marker[p]
      BY <1>8
    <2>3. choice[kind] = To /\ mem.choice = choice /\ (To \in Folders => marker[To] = kind)
      BY <1>1 DEF Step
    <2>4. To # From BY <1>2 DEF From
    <2>6. ChosenIsReady'
      <3> SUFFICES ASSUME NEW j \in Kinds, choice[j] \in Folders
                   PROVE  j \in {marker'[choice[j]], behindMark[choice[j]]}
        BY <1>1 DEF ChosenIsReady
      <3>1. j \in {marker[choice[j]], behindMark[choice[j]]} BY DEF ChosenIsReady
      <3>2. CASE choice[j] = From
        <4>1. j # kind BY <2>3, <2>4, <3>2
        <4> QED BY <1>2, <3>1, <3>2, <4>1
      <3> QED BY <2>2, <3>1, <3>2
    <2>5. HeldIsReady' BY <1>1, <2>3, <2>6 DEF HeldIsReady, ChosenIsReady
    <2>7. Targets'
      <3> SUFFICES ASSUME NEW j \in Kinds, steps[j] # "none"
                   PROVE  /\ request[j] \in Folders => marker'[request[j]] \in {j, Nobody}
                          /\ dir[j] \in Folders => marker'[dir[j]] \in {j, Nobody}
        BY <1>1, <1>8 DEF Targets
      <3>1. request[j] \in Folders => marker'[request[j]] \in {j, Nobody}
        BY <2>2 DEF Targets
      <3>2. dir[j] \in Folders => marker'[dir[j]] \in {j, Nobody}
        BY <2>2 DEF Targets
      <3> QED BY <3>1, <3>2
    <2>8. Waiting'
      <3> SUFFICES ASSUME NEW j \in Kinds, steps[j] = "Copy", j # kind
                   PROVE  /\ folder'[request[j]] = Nothing
                          /\ request[j] \in Folders => marker'[request[j]] = Nobody
        BY <1>1, <1>8 DEF Waiting
      <3>1. request[j] # From /\ request[j] \in Places BY <1>2
      <3> QED BY <2>1, <2>2, <3>1 DEF Waiting
    <2>9. Step'
      <3>1. To \in Folders => marker'[To] = kind BY <2>2, <2>3, <2>4
      <3>2. Len(moved') \in 1..Len(moved')
        <4>1. folder[From] \in Contents BY <1>2 DEF TypeOK
        <4>2. Len(moved') = Len(moved) + 1 /\ Len(moved) \in Nat BY <1>8, <4>1 DEF TypeOK
        <4> QED BY <4>2
      <3> QED BY <1>1, <1>2, <1>8, <3>1, <3>2 DEF Step, InMove, To
    <2>10. NothingIsLost'
      <3> SUFFICES ASSUME NEW c \in wanted PROVE c \in Somewhere'
        BY <1>1 DEF NothingIsLost
      <3>0. folder[From] \in Contents BY <1>2 DEF TypeOK
      <3>1. Len(moved) \in Nat /\ Len(moved') = Len(moved) + 1 /\ moved'[Len(moved) + 1] = folder[From]
        BY <1>8, <3>0 DEF TypeOK
      <3>2. \A i \in 1..Len(moved) : moved'[i] = moved[i] BY <1>8, <3>0 DEF TypeOK
      <3>3. \A i \in 1..Len(moved) : i \in 1..Len(moved') BY <3>1
      <3>4. Len(moved) + 1 \in 1..Len(moved') BY <3>1
      <3>5. c \in Somewhere BY DEF NothingIsLost
      <3>6. CASE c = folder[From] BY <3>1, <3>4, <3>6 DEF Somewhere
      <3>7. CASE \E i \in 1..Len(moved) : c = moved[i] BY <3>2, <3>3, <3>7 DEF Somewhere
      <3>8. CASE \E p \in Places \ {From} : c = folder[p] BY <2>1, <3>8 DEF Somewhere
      <3>9. CASE \E p \in Folders : c = behind[p] BY <1>1, <3>9 DEF Somewhere
      <3> QED BY <1>2, <3>5, <3>6, <3>7, <3>8, <3>9 DEF Somewhere
    <2>11. MarkedIsWhole' BY <1>1, <2>1, <2>2 DEF MarkedIsWhole
    <2>12. ~Nothing.cut BY ContentsFacts
    <2>13. \A p \in Places : ~folder[p].cut => ~folder'[p].cut BY <2>1, <2>12
    <2>14. \A j \in Kinds : dir[j] \in Places BY <1>2
    <2>15. Whole' BY <1>1, <1>8, <2>13, <2>14 DEF Whole
    <2> QED BY <1>5, <1>6, <2>5, <2>6, <2>7, <2>8, <2>9, <2>10, <2>11, <2>15
  <1> QED BY <1>7, <1>8 DEF SetAside

\* A folder that is listed, and a step that changes nothing.
LEMMA StepRecord == Inv /\ (Record \/ UNCHANGED vars) => Rest'
  <1> SUFFICES ASSUME Inv, Record \/ UNCHANGED vars PROVE Rest'
    OBVIOUS
  <1> USE Distinct
      DEF Inv, Rest, vars, diskVars, pointerVars, applyVars, weather, lastSeen, history, Over
  <1>1. CASE Record
    <2>1. /\ at = "renamed" /\ at' = "applying" /\ kind' = Nobody
          /\ UNCHANGED <<folder, marker, behind, behindMark, moved, request, dir, wanted, short>>
      BY <1>1 DEF Record
    <2>2. mem'.choice = mem.choice BY <1>1 DEF Record, TypeOK
    <2>3. choice' = choice \/ choice' = mem.choice BY <1>1, <2>2 DEF Record
    <2>4. kind \in Kinds BY <2>1 DEF Step, InMove
    <2>5. \A j \in Kinds : steps'[j] # "none" => steps'[j] = steps[j] /\ j # kind
      BY <1>1, <2>4 DEF Record, TypeOK
    <2>6. OwnPlaces' BY <2>1, <2>2, <2>3 DEF OwnPlaces
    <2>7. HeldIsReady' /\ ChosenIsReady' BY <2>1, <2>2, <2>3 DEF HeldIsReady, ChosenIsReady
    <2>8. Targets' BY <2>1, <2>5 DEF Targets
    <2>9. Waiting' BY <2>1, <2>5 DEF Waiting
    <2>10. Step' BY <2>1 DEF Step, InMove
    <2>11. WantedIsWhole' /\ NothingIsLost' BY <2>1 DEF WantedIsWhole, NothingIsLost, Somewhere
    <2>12. InPlace' BY <2>1 DEF InPlace
    <2>13. MarkedIsWhole' /\ BehindIsWhole' /\ Whole'
      BY <2>1, <2>5 DEF MarkedIsWhole, BehindIsWhole, Whole
    <2> QED BY <2>6, <2>7, <2>8, <2>9, <2>10, <2>11, <2>12, <2>13
  <1>2. CASE UNCHANGED vars
    <2>1. OwnPlaces' /\ HeldIsReady' /\ Targets' /\ Waiting' /\ Step'
      BY <1>2 DEF OwnPlaces, HeldIsReady, Targets, Waiting, Step, InMove, To
    <2>2. WantedIsWhole' /\ InPlace' /\ Whole' /\ ChosenIsReady' /\ NothingIsLost'
      BY <1>2 DEF WantedIsWhole, InPlace, Whole, ChosenIsReady, NothingIsLost, Somewhere
    <2>3. MarkedIsWhole' /\ BehindIsWhole' BY <1>2 DEF MarkedIsWhole, BehindIsWhole
    <2> QED BY <2>1, <2>2, <2>3
  <1> QED BY <1>1, <1>2

-----------------------------------------------------------------------------
LEMMA StepInv == Inv /\ [Next]_vars => Inv'
  <1> SUFFICES ASSUME Inv, [Next]_vars PROVE Inv'
    OBVIOUS
  <1>1. TypeOK' BY StepType
  <1>2. Rest'
    <2>1. CASE User BY <2>1, StepUser
    <2>2. CASE Stop \/ Start \/ Drop \/ Forget BY <2>2, StepStart
    <2>8. CASE Weather BY <2>8, StepWeather
    <2>3. CASE Apply BY <2>3, StepApply
    <2>4. CASE \E k \in Kinds : CarryOut(k) BY <2>4, StepCarryOut
    <2>5. CASE Copied \/ Mark \/ Choose BY <2>5, StepPlace
    <2>6. CASE SetAside BY <2>6, StepSetAside
    <2>7. CASE Record \/ UNCHANGED vars BY <2>7, StepRecord
    <2> QED BY <2>1, <2>2, <2>3, <2>4, <2>5, <2>6, <2>7, <2>8 DEF Next, Starting, Moving
  <1> QED BY <1>1, <1>2 DEF Inv

LEMMA Invariance == Spec => []Inv
  <1> QED BY InitInv, StepInv, PTL DEF Spec

\* Every variable keeps its type, with any number of kinds, folders and moves.
THEOREM TypeCorrect == Spec => []TypeOK
  <1>1. Inv => TypeOK BY DEF Inv
  <1> QED BY <1>1, Invariance, PTL

\* Whatever step of a move fails or is cut short, and however often it is asked again, what the
\* user did not change or delete is whole in some folder.
THEOREM Lossless == Spec => []NothingIsLost
  <1>1. Inv => NothingIsLost BY DEF Inv, Rest
  <1> QED BY <1>1, Invariance, PTL

\* The folder that locations.toml names is always under its name and marked for its kind,
\* where it is or behind another that its drive left there.
THEOREM ReadyChoices == Spec => []ChosenIsReady
  <1>1. Inv => ChosenIsReady BY DEF Inv, Rest
  <1> QED BY <1>1, Invariance, PTL

\* A marked folder never holds a part of a copy, as long as none was taken for data.
THEOREM MarkedFolders == Spec => []MarkedIsWhole
  <1>1. Inv => MarkedIsWhole BY DEF Inv, Rest
  <1> QED BY <1>1, Invariance, PTL

\* No two kinds are ever read from one folder, whatever locations.toml says of a folder that
\* comes and goes.
THEOREM KindsApart == Spec => []KindsStayApart
  <1>1. Inv => KindsStayApart BY DEF Inv, Rest, InPlace, KindsStayApart
  <1> QED BY <1>1, Invariance, PTL

-----------------------------------------------------------------------------
(* The last change is shown.  The place where the data of a kind is keeps it *)
(* through every step of a move: it is left only when the saved choice       *)
(* names a place that holds the same, or data that is taken on purpose, and  *)
(* no step for another kind touches it.                                      *)

Under == at \notin {"off", "running"}

\* A place holds what a kind should show, or a part that was cut short.
Shows(p, k) == folder[p] = seen[k] \/ folder[p].cut

\* The choice that apply_pending holds for a kind is not saved yet.
Held(k) == mem.choice[k] # choice[k]

\* Where the data of each kind is: where it is read from, until a move is saved; and no
\* step for another kind reads from it, goes to it or goes where a held choice is.
Homes ==
  /\ \A k \in Kinds : home[k] = choice[k] \/ k \in fell
  /\ at = "running" => \A k \in Kinds : home[k] = dir[k]
  /\ at \in {"saved", "renamed"} => home[kind] = choice[kind]
  /\ Under => \A k \in Kinds :
       /\ steps[k] # "none" /\ ~(k = kind /\ at \in {"saved", "renamed"}) =>
            home[k] = dir[k] /\ ~Held(k)
       /\ steps[k] \in {"Adopt", "Switch"} => k \in taken
       /\ \A j \in Kinds \ {k} :
            /\ home[j] # dir[k] /\ (Held(j) => mem.choice[j] # dir[k])
            /\ steps[k] # "none" => home[j] # request[k] /\ (Held(j) => mem.choice[j] # request[k])

\* What each kind should show is where its data is, where a held choice goes and, once it
\* was copied, in the place it is moved to.
Shown ==
  /\ \A k \in Kinds : Shows(home[k], k)
  /\ Under => \A k \in Kinds \ taken : Held(k) => Shows(mem.choice[k], k)
  /\ at \in {"placed", "ready"} /\ kind \notin taken => Shows(To, kind)

\* A start that finds a kind elsewhere than its data was has lost its folder, or has it back.
LEMMA UseHome ==
  ASSUME Inv, Homes, Shown, Use(choice), UNCHANGED <<folder, choice>>
  PROVE  \A k \in Kinds :
           home'[k] = dir'[k] /\ (home'[k] = choice'[k] \/ k \in fell') /\ Shows(home[k], k)'
  <1> SUFFICES ASSUME NEW k \in Kinds
               PROVE  home'[k] = dir'[k] /\ (home'[k] = choice'[k] \/ k \in fell')
                      /\ Shows(home[k], k)'
    OBVIOUS
  <1>1. home[k] = choice[k] \/ k \in fell BY DEF Homes
  <1>2. /\ home'[k] = IF Elsewhere(k, choice) THEN dir'[k] ELSE home[k]
        /\ seen'[k] = IF Elsewhere(k, choice) THEN folder[dir'[k]] ELSE seen[k]
        /\ k \in fell' <=> dir'[k] # choice[k]
    BY DEF Use
  <1>3. ~Elsewhere(k, choice) => home[k] = dir'[k] BY <1>1 DEF Elsewhere
  <1>4. Shows(home[k], k)' BY <1>2 DEF Shown, Shows
  <1> QED BY <1>2, <1>3, <1>4

\* The steps of the user, of a stop and of the drives.
LEMMA ShownQuiet ==
  Inv /\ Homes /\ Shown /\ (User \/ Stop \/ Weather \/ UNCHANGED vars) => Homes' /\ Shown'
  <1> SUFFICES ASSUME Inv, Homes, Shown, User \/ Stop \/ Weather \/ UNCHANGED vars
               PROVE  Homes' /\ Shown'
    OBVIOUS
  <1> USE Distinct DEF diskVars, pointerVars, applyVars, weather, lastSeen, history
  <1>c. /\ folder \in [Places -> Contents] /\ seen \in [Kinds -> Contents]
        /\ home \in [Kinds -> Places] /\ dir \in [Kinds -> Places]
    BY DEF Inv, TypeOK
  <1>1. ASSUME NEW k \in Kinds, Edit(k) PROVE Homes' /\ Shown'
    <2>1. /\ at = "running" /\ folder' = [folder EXCEPT ![dir[k]] = Data(k, made + 1)]
          /\ seen' = [seen EXCEPT ![k] = Data(k, made + 1)]
          /\ UNCHANGED <<choice, mem, dir, home, fell, taken, at, kind, steps, request>>
      BY <1>1 DEF Edit
    <2>2. Homes' BY <2>1 DEF Homes, Under, Held
    <2>3. ASSUME NEW j \in Kinds PROVE Shows(home[j], j)'
      <3>1. home[j] = dir[j] /\ home[k] = dir[k] /\ Shows(home[j], j)
        BY <2>1 DEF Homes, Shown
      <3>2. CASE j = k BY <1>c, <2>1, <3>1, <3>2 DEF Shows
      <3>3. CASE j # k
        <4>1. dir[j] # dir[k] BY <2>1, <3>3 DEF Inv, Rest, InPlace
        <4>2. folder'[home[j]] = folder[home[j]] /\ seen'[j] = seen[j]
          BY <1>c, <2>1, <3>1, <3>3, <4>1
        <4> QED BY <2>1, <3>1, <4>2 DEF Shows
      <3> QED BY <3>2, <3>3
    <2> QED BY <2>1, <2>2, <2>3 DEF Shown, Under
  <1>2. CASE Cancel \/ (\E r \in Asked : Stage(r)) \/ (\E i \in left : DeleteLeftover(i))
    <2>1. /\ UNCHANGED <<folder, seen, choice, mem, dir, home, fell, taken, at, kind, steps>>
          /\ at = "running"
      BY <1>2 DEF Cancel, Stage, DeleteLeftover
    <2> QED BY <2>1 DEF Homes, Shown, Shows, Under
  <1>3. CASE Stop
    <2>1. at' = "off" /\ UNCHANGED <<folder, seen, choice, home, fell>> BY <1>3 DEF Stop
    <2> QED BY <2>1 DEF Homes, Shown, Shows, Under
  <1>4. CASE Weather
    <2>1. PICK turned \in SUBSET MayVanish :
            /\ folder' = [p \in Places |-> IF p \in turned THEN behind[p] ELSE folder[p]]
            /\ seen' = [k \in Kinds |-> IF home[k] \in turned THEN behind[home[k]] ELSE seen[k]]
      BY <1>4 DEF Weather
    <2>2. at = "off" /\ UNCHANGED <<choice, home, fell, at>> BY <1>4 DEF Weather
    <2>3. Homes' BY <2>2 DEF Homes, Under
    <2>4. ASSUME NEW k \in Kinds PROVE Shows(home[k], k)'
      <3>1. Shows(home[k], k) BY DEF Shown
      <3>2. folder'[home[k]] = IF home[k] \in turned THEN behind[home[k]] ELSE folder[home[k]]
        BY <1>c, <2>1
      <3>3. seen'[k] = IF home[k] \in turned THEN behind[home[k]] ELSE seen[k]
        BY <2>1
      <3> QED BY <2>2, <3>1, <3>2, <3>3 DEF Shows
    <2> QED BY <2>2, <2>3, <2>4 DEF Shown, Under
  <1>5. CASE UNCHANGED vars
    BY <1>5 DEF vars, Homes, Shown, Shows, Under, Held, To
  <1> QED BY <1>1, <1>2, <1>3, <1>4, <1>5 DEF User

\* The steps that look the places up.
LEMMA ShownStart ==
  Inv /\ Homes /\ Shown /\ (Start \/ Drop \/ Apply \/ Forget) => Homes' /\ Shown'
  <1> SUFFICES ASSUME Inv, Homes, Shown, Start \/ Drop \/ Apply \/ Forget PROVE Homes' /\ Shown'
    OBVIOUS
  <1> USE Distinct DEF diskVars, pointerVars
  <1>1. Use(choice) /\ UNCHANGED <<folder, choice>> BY DEF Start, Drop, Apply, Forget
  <1>2. \A k \in Kinds :
          home'[k] = dir'[k] /\ (home'[k] = choice'[k] \/ k \in fell') /\ Shows(home[k], k)'
    BY <1>1, UseHome
  <1>3. CASE at' = "running"
    BY <1>2, <1>3 DEF Homes, Shown, Under
  <1>4. CASE Apply
    <2>1. /\ at' = "applying" /\ mem'.choice = choice /\ UNCHANGED request
          /\ taken' = {k \in Kinds : steps'[k] \in {"Adopt", "Switch"}}
      BY <1>4 DEF Apply
    <2>2. \A k \in Kinds : ~Held(k)' BY <1>1, <2>1 DEF Held
    <2>3. \A k \in Kinds : \A j \in Kinds \ {k} :
            dir'[j] # dir'[k] /\ (steps'[k] # "none" => dir'[j] # request[k])
      <3>1. Rest' BY <1>4, StepApply
      <3> QED BY <2>1, <3>1 DEF Rest, InPlace, Targets
    <2>4. Homes' BY <1>2, <2>1, <2>2, <2>3 DEF Homes
    <2> QED BY <1>2, <2>1, <2>2, <2>4 DEF Shown
  <1> QED BY <1>3, <1>4 DEF Start, Drop, Forget

\* The steps that put files in a place, or take them away.
LEMMA ShownFiles ==
  ASSUME Inv, Homes, Shown, Under, Under', NEW p \in Places, NEW c \in Contents,
         folder' = [folder EXCEPT ![p] = c],
         UNCHANGED <<choice, mem, home, seen, taken>>,
         \A j \in Kinds : home[j] # p /\ (Held(j) => mem.choice[j] # p)
  PROVE  /\ \A k \in Kinds : Shows(home[k], k)'
         /\ \A k \in Kinds \ taken : Held(k)' => Shows(mem.choice[k], k)'
  <1>1. \A q \in Places : q # p => folder'[q] = folder[q] BY DEF Inv, TypeOK
  <1>2. \A k \in Kinds : home[k] \in Places /\ mem.choice[k] \in Places BY DEF Inv, TypeOK
  <1> QED BY <1>1, <1>2 DEF Shown, Shows, Held

LEMMA ShownMove == ASSUME Inv, Homes, Shown, Moving PROVE Homes' /\ Shown'
  <1> USE Distinct DEF diskVars, pointerVars, weather, lastSeen, history
  <1>c. /\ folder \in [Places -> Contents] /\ choice \in [Kinds -> Places]
        /\ dir \in [Kinds -> Places] /\ mem.choice \in [Kinds -> Places]
        /\ home \in [Kinds -> Places] /\ seen \in [Kinds -> Contents]
        /\ steps \in [Kinds -> Actions]
    BY DEF Inv, TypeOK
  <1>m. InMove => /\ kind \in Kinds /\ steps[kind] # "none" /\ Under
                  /\ To \in Places /\ From \in Places /\ \A j \in Kinds : To # dir[j]
                  /\ \A j \in Kinds \ {kind} : steps[j] # "none" => request[j] # To
    BY Moves DEF Inv, Rest, Step, InMove, Under
  <1>o. Over /\ kind \in Kinds => /\ at' = "applying" /\ kind' = Nobody
                /\ steps'[kind] = "none" /\ \A j \in Kinds \ {kind} : steps'[j] = steps[j]
    BY <1>c DEF Over
  <1>1. ASSUME NEW k \in Kinds, CarryOut(k) PROVE Homes' /\ Shown'
    <2>1. /\ at = "applying" /\ steps[k] # "none"
          /\ UNCHANGED <<choice, mem, dir, home, seen, fell, taken, request>>
      BY <1>1 DEF CarryOut
    <2>2. kind = Nobody /\ Under BY <2>1 DEF Inv, Rest, Step, InMove, Under
    <2>3. CASE UNCHANGED <<folder, kind>> /\ at' = "applying" /\ steps' = [steps EXCEPT ![k] = "none"]
      <3>1. \A j \in Kinds : steps'[j] # "none" => steps'[j] = steps[j] BY <1>c, <2>3
      <3>2. \A j \in Kinds : steps'[j] \in {"Adopt", "Switch"} => steps'[j] = steps[j] BY <3>1
      <3>3. Homes' BY <2>1, <2>2, <2>3, <3>1, <3>2 DEF Homes, Under, Held
      <3> QED BY <2>1, <2>2, <2>3, <3>3 DEF Shown, Shows, Held
    <2>4. CASE /\ steps[k] = "Copy" /\ at' = "copying" /\ kind' = k /\ UNCHANGED steps
               /\ folder' = [folder EXCEPT ![request[k]] = PartOf(folder[dir[k]])]
      <3>1. Homes' BY <2>1, <2>2, <2>4 DEF Homes, Under, Held
      <3>2. request[k] \in Places BY <2>1 DEF Inv, Rest, OwnPlaces, Targets
      <3>3. PartOf(folder[dir[k]]) \in Contents BY <1>c, ContentsFacts
      <3>4. \A j \in Kinds : home[j] # request[k] /\ (Held(j) => mem.choice[j] # request[k])
        <4>1. home[k] = dir[k] /\ ~Held(k) BY <2>1, <2>2 DEF Homes
        <4>2. request[k] # dir[k] BY <2>1 DEF Inv, Rest, Targets
        <4> QED BY <2>1, <2>2, <4>1, <4>2 DEF Homes
      <3>5. Under' BY <2>4 DEF Under
      <3>6. /\ \A j \in Kinds : Shows(home[j], j)'
            /\ \A j \in Kinds \ taken : Held(j)' => Shows(mem.choice[j], j)'
        BY <2>1, <2>2, <2>4, <3>2, <3>3, <3>4, <3>5, ShownFiles
      <3> QED BY <2>1, <2>4, <3>1, <3>6 DEF Shown
    <2>5. CASE steps[k] # "Copy" /\ at' = "placed" /\ kind' = k /\ UNCHANGED <<steps, folder>>
      <3>1. Homes' BY <2>1, <2>2, <2>5 DEF Homes, Under, Held
      <3>2. k \in taken
        <4>1. steps[k] \in {"Adopt", "Switch"} BY <1>c, <2>1, <2>5 DEF Actions
        <4> QED BY <2>2, <4>1 DEF Homes
      <3> QED BY <2>1, <2>2, <2>5, <3>1, <3>2 DEF Shown, Shows, Held
    <2> QED BY <1>1, <2>3, <2>4, <2>5 DEF CarryOut
  <1>2. CASE Copied
    <2>1. /\ at = "copying" /\ InMove
          /\ UNCHANGED <<choice, mem, dir, home, seen, fell, taken, request>>
      BY <1>2 DEF Copied, InMove
    <2>2. PICK c \in Contents : folder' = [folder EXCEPT ![To] = c]
      BY <1>2, <1>c, <1>m, <2>1, ContentsFacts DEF Copied
    <2>3. home[kind] = dir[kind] /\ ~Held(kind) BY <1>m, <2>1 DEF Homes
    <2>4. \A j \in Kinds : home[j] # To /\ (Held(j) => mem.choice[j] # To)
      BY <1>m, <2>1, <2>3 DEF Homes, To
    <2>5. Under' BY <1>2 DEF Copied, Goes, Over, Under
    <2>6. /\ \A j \in Kinds : Shows(home[j], j)'
          /\ \A j \in Kinds \ taken : Held(j)' => Shows(mem.choice[j], j)'
      BY <1>m, <2>1, <2>2, <2>4, <2>5, ShownFiles
    <2>7. CASE folder' = [folder EXCEPT ![To] = folder[From]] /\ Goes("placed")
      <3>1. folder'[To] = folder[From] /\ at' = "placed" /\ UNCHANGED <<kind, steps>>
        BY <1>c, <1>m, <2>1, <2>7 DEF Goes
      <3>2. Shows(From, kind) BY <1>m, <2>1, <2>3 DEF Shown, From
      <3>3. Shows(To, kind)' BY <2>1, <3>1, <3>2 DEF Shows, To
      <3>4. Homes' BY <1>m, <2>1, <3>1 DEF Homes, Under, Held
      <3> QED BY <2>1, <2>6, <3>3, <3>4 DEF Shown
    <2>8. CASE Over
      <3>1. /\ at' = "applying" /\ kind' = Nobody
            /\ \A j \in Kinds : steps'[j] # "none" => steps'[j] = steps[j] /\ j # kind
        BY <1>m, <1>o, <2>1, <2>8
      <3>2. Homes' BY <1>m, <2>1, <3>1 DEF Homes, Under, Held
      <3> QED BY <2>1, <2>6, <3>1, <3>2 DEF Shown
    <2> QED BY <1>2, <2>7, <2>8 DEF Copied
  <1>3. CASE Mark
    <2>1. /\ at = "placed" /\ InMove
          /\ UNCHANGED <<folder, choice, mem, dir, home, seen, fell, taken, request>>
      BY <1>3 DEF Mark, InMove
    <2>2. CASE Goes("ready")
      <3>1. at' = "ready" /\ UNCHANGED <<kind, steps>> BY <2>2 DEF Goes
      <3>2. Homes' BY <1>m, <2>1, <3>1 DEF Homes, Under, Held
      <3> QED BY <1>m, <2>1, <3>1, <3>2 DEF Shown, Shows, Held, To
    <2>3. CASE Over
      <3>1. /\ at' = "applying" /\ kind' = Nobody
            /\ \A j \in Kinds : steps'[j] # "none" => steps'[j] = steps[j] /\ j # kind
        BY <1>m, <1>o, <2>1, <2>3
      <3>2. Homes' BY <1>m, <2>1, <3>1 DEF Homes, Under, Held
      <3> QED BY <1>m, <2>1, <3>1, <3>2 DEF Shown, Shows, Held
    <2> QED BY <1>3, <2>2, <2>3 DEF Mark
  <1>4. CASE Choose
    <2>1. /\ at = "ready" /\ InMove /\ UNCHANGED <<folder, dir, fell, taken, request>>
          /\ \A j \in Kinds : mem'.choice[j] = IF j = kind THEN To ELSE mem.choice[j]
      BY <1>4, <1>c DEF Choose, InMove, Inv, TypeOK
    <2>2. home[kind] = dir[kind] /\ ~Held(kind) BY <1>m, <2>1 DEF Homes
    <2>3. CASE Over /\ UNCHANGED <<choice, home, seen>>
      <3>1. /\ at' = "applying" /\ kind' = Nobody
            /\ \A j \in Kinds : steps'[j] # "none" => steps'[j] = steps[j] /\ j # kind
        BY <1>m, <1>o, <2>1, <2>3
      <3>2. \A j \in Kinds \ {kind} : Held(j)' <=> Held(j) BY <2>1, <2>3 DEF Held
      <3>3. Homes'
        <4>1. ASSUME NEW k \in Kinds, NEW j \in Kinds \ {k}
              PROVE  /\ Held(j)' => mem'.choice[j] # dir[k]
                     /\ steps'[k] # "none" /\ Held(j)' => mem'.choice[j] # request[k]
          BY <1>m, <2>1, <3>1, <3>2 DEF Homes
        <4> QED BY <1>m, <2>1, <2>3, <3>1, <3>2, <4>1 DEF Homes, Under
      <3>4. ASSUME NEW k \in Kinds \ taken, Held(k)' PROVE Shows(mem.choice[k], k)'
        BY <1>m, <2>1, <2>3, <3>2, <3>4 DEF Shown, Shows
      <3>5. \A k \in Kinds : Shows(home[k], k)' BY <2>1, <2>3 DEF Shown, Shows
      <3> QED BY <2>1, <3>1, <3>3, <3>4, <3>5 DEF Shown
    <2>4. CASE /\ choice' = mem'.choice /\ Settled
               /\ (at' = "saved" /\ UNCHANGED <<kind, steps>>) \/ Over
      <3>1. /\ at' \in {"applying", "saved"} /\ Under'
            /\ \A j \in Kinds : steps'[j] # "none" => steps'[j] = steps[j]
            /\ \A j \in Kinds : steps'[j] # "none" /\ j = kind => at' = "saved" /\ kind' = kind
            /\ at' = "saved" => kind' = kind
        BY <1>m, <1>o, <2>1, <2>4 DEF Under
      <3>2. \A j \in Kinds : ~Held(j)' BY <2>4 DEF Held
      <3>3. \A j \in Kinds : home'[j] = IF j = kind \/ Held(j) THEN choice'[j] ELSE home[j]
        <4>1. \A j \in Kinds \ {kind} : choice'[j] # choice[j] <=> Held(j)
          BY <2>1, <2>4 DEF Held
        <4> QED BY <2>4, <4>1 DEF Settled
      <3>4. \A j \in Kinds : choice'[j] = IF j = kind THEN To ELSE mem.choice[j]
        BY <2>1, <2>4
      <3>5. ASSUME NEW k \in Kinds, NEW j \in Kinds \ {k}
            PROVE  /\ home'[j] # dir[k]
                   /\ steps'[k] # "none" => home'[j] # request[k]
        <4>1. CASE j = kind BY <1>m, <2>1, <3>1, <3>3, <3>4, <4>1
        <4>2. CASE j # kind BY <1>m, <2>1, <3>1, <3>3, <3>4, <4>2 DEF Homes
        <4> QED BY <4>1, <4>2
      <3>6. Homes'
        <4>1. \A k \in Kinds : home'[k] = choice'[k] \/ k \in fell'
          BY <2>1, <3>3, <3>4 DEF Homes, Held
        <4>2. \A k \in Kinds : steps'[k] # "none" /\ ~(k = kind' /\ at' = "saved") =>
                home'[k] = dir[k]
          BY <1>m, <2>1, <3>1, <3>3 DEF Homes
        <4>3. \A k \in Kinds : steps'[k] \in {"Adopt", "Switch"} => k \in taken
          BY <1>m, <2>1, <3>1 DEF Homes
        <4>4. at' = "saved" => home'[kind'] = choice'[kind']
          BY <1>m, <2>1, <3>1, <3>3
        <4> QED BY <2>1, <3>1, <3>2, <3>5, <4>1, <4>2, <4>3, <4>4 DEF Homes
      <3>7. ASSUME NEW k \in Kinds PROVE Shows(home[k], k)'
        <4>1. seen'[k] = IF k \in taken /\ home'[k] # home[k] /\ ~folder[home'[k]].cut
                         THEN folder[home'[k]] ELSE seen[k]
          BY <2>1, <2>4 DEF Settled
        <4>2. CASE k \in taken /\ home'[k] # home[k] BY <2>1, <4>1, <4>2 DEF Shows
        <4>3. CASE home'[k] = home[k] BY <2>1, <4>1, <4>3 DEF Shown, Shows
        <4>4. CASE k \notin taken /\ home'[k] # home[k]
          <5>1. Shows(home'[k], k)
            BY <1>m, <2>1, <3>3, <3>4, <4>4 DEF Shown
          <5> QED BY <2>1, <4>1, <4>4, <5>1 DEF Shows
        <4> QED BY <4>2, <4>3, <4>4
      <3> QED BY <3>1, <3>2, <3>6, <3>7 DEF Shown
    <2> QED BY <1>4, <2>3, <2>4 DEF Choose, Goes
  <1>5. CASE SetAside
    <2>1. /\ at = "saved" /\ InMove
          /\ UNCHANGED <<choice, mem, dir, home, seen, fell, taken, request>>
      BY <1>5 DEF SetAside, InMove
    <2>2. mem.choice = choice /\ choice[kind] = To BY <2>1 DEF Inv, Rest, Step
    <2>3. \A j \in Kinds : ~Held(j) BY <2>2 DEF Held
    <2>4. CASE folder' = [folder EXCEPT ![From] = Nothing] /\ Goes("renamed")
      <3>1. at' = "renamed" /\ UNCHANGED <<kind, steps>> BY <2>4 DEF Goes
      <3>2. Homes' BY <1>m, <2>1, <3>1 DEF Homes, Under, Held
      <3>3. \A j \in Kinds : home[j] # From
        <4>1. home[kind] = To /\ To # From BY <1>m, <2>1, <2>2 DEF Homes, From
        <4> QED BY <1>m, <2>1, <4>1 DEF Homes, From
      <3>4. Under' BY <3>1 DEF Under
      <3>5. /\ \A j \in Kinds : Shows(home[j], j)'
            /\ \A j \in Kinds \ taken : Held(j)' => Shows(mem.choice[j], j)'
        BY <1>m, <2>1, <2>3, <2>4, <3>3, <3>4, ShownFiles, ContentsFacts
      <3> QED BY <2>1, <3>1, <3>2, <3>5 DEF Shown
    <2>5. CASE Over /\ UNCHANGED <<folder, marker, moved>>
      <3>1. /\ at' = "applying" /\ kind' = Nobody
            /\ \A j \in Kinds : steps'[j] # "none" => steps'[j] = steps[j] /\ j # kind
        BY <1>m, <1>o, <2>1, <2>5
      <3>2. Homes' BY <1>m, <2>1, <3>1 DEF Homes, Under, Held
      <3> QED BY <1>m, <2>1, <2>5, <3>1, <3>2 DEF Shown, Shows, Held
    <2> QED BY <1>5, <2>4, <2>5 DEF SetAside
  <1>6. CASE Record
    <2>1. /\ at = "renamed" /\ InMove
          /\ UNCHANGED <<folder, dir, home, seen, fell, taken, request>>
          /\ mem'.choice = mem.choice /\ choice' \in {choice, mem'.choice} /\ Over
      BY <1>6 DEF Record, InMove, Inv, TypeOK
    <2>2. mem.choice = choice BY <2>1 DEF Inv, Rest, Step
    <2>3. UNCHANGED choice BY <2>1, <2>2
    <2>4. /\ at' = "applying" /\ kind' = Nobody
          /\ \A j \in Kinds : steps'[j] # "none" => steps'[j] = steps[j] /\ j # kind
      BY <1>m, <1>o, <2>1
    <2>5. Homes' BY <1>m, <2>1, <2>3, <2>4 DEF Homes, Under, Held
    <2> QED BY <1>m, <2>1, <2>3, <2>4, <2>5 DEF Shown, Shows, Held
  <1> QED BY <1>1, <1>2, <1>3, <1>4, <1>5, <1>6 DEF Moving

\* A running app shows the last change of every kind, whatever step of whichever move
\* failed or was cut short before, but for a copy that was itself cut short
\* (relocate.rs, apply_pending and resolve).
THEOREM LastChangeIsShown == Spec => []NewestIsShown
  <1>1. Init => Homes /\ Shown
    <2> SUFFICES ASSUME Init PROVE Homes /\ Shown
      OBVIOUS
    <2>1. \A k \in Kinds : folder[k] = Data(k, 1) BY Distinct DEF Init
    <2>2. /\ at = "running"
          /\ \A k \in Kinds : dir[k] = k /\ choice[k] = k /\ home[k] = k /\ seen[k] = Data(k, 1)
      BY DEF Init
    <2> QED BY <2>1, <2>2 DEF Homes, Shown, Shows, Under
  <1>2. Inv /\ Homes /\ Shown /\ [Next]_vars => Homes' /\ Shown'
    BY ShownQuiet, ShownStart, ShownMove DEF Next, Starting
  <1>3. Homes /\ Shown => NewestIsShown
    BY DEF Homes, Shown, Shows, NewestIsShown
  <1> QED BY <1>1, <1>2, <1>3, Invariance, PTL DEF Spec
=============================================================================
