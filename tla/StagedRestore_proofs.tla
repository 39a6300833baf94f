------------------------- MODULE StagedRestore_proofs -------------------------
(***************************************************************************)
(* Proofs about StagedRestore: no text is lost by a restore or a reset,    *)
(* and what was asked for is done whole, with any number of documents,     *)
(* texts, copies and requests, and a failure or a crash at any step.       *)
(***************************************************************************)
EXTENDS StagedRestore, SequenceTheorems, TLAPS

\* The kinds of copies that only the user deletes.
Lasting == Kinds \ Pruned

\* What is about to be replaced is in a copy.
Prepared ==
  /\ at = "clearing" => \A d \in Docs : doc[d] # None => Says(d, doc[d]) \in Held(Lasting)
  /\ at = "writing" => \A d \in todo :
       doc[d] \in {None, pending[d]} \/ Says(d, doc[d]) \in Held(Lasting)

\* How far the start came with what waits.
Progress ==
  /\ at \in {"reset", "clearing"} => resetWaits
  /\ at \in {"import", "writing"} => ~resetWaits
  /\ at = "clearing" => todo \subseteq Docs /\ \A d \in Docs \ todo : doc[d] = None
  /\ at = "writing" =>
       pending # Empty /\ todo \subseteq Brought /\ \A d \in Brought \ todo : doc[d] = pending[d]

\* What is known to wait alone is what was asked for last.
Asking ==
  /\ sure => /\ ~damaged
             /\ resetWaits => asked = Empty /\ pending = Empty
             /\ pending # Empty => pending = asked
  /\ sure /\ at = "import" /\ pending = Empty => asked = Empty /\ \A d \in Docs : doc[d] = None

Inv == TypeOK /\ ReplacedIsKept /\ Prepared /\ Progress /\ Asking /\ AskedIsDone /\ AppliedIsOver

LEMMA InHeld ==
  \A K, w : w \in Held(K) <=>
    \E k \in K : \E i \in 1..Len(copies[k]) : w \in Sayings(copies[k][i])
  BY DEF Held

LEMMA InSayings ==
  \A holds, w : w \in Sayings(holds) <=> \E d \in Items : holds[d] # None /\ w = Says(d, holds[d])
  BY DEF Sayings

LEMMA Facts ==
  /\ Empty \in Holding /\ Sayings(Empty) = {} /\ Docs \subseteq Items
  /\ "before-reset" \in Lasting /\ "before-import" \in Lasting /\ Lasting \subseteq Kinds
  /\ "manual" \in Kinds /\ Pruned \subseteq Kinds
  BY RestoreAssumption DEF Empty, Holding, Sayings, Items, Lasting, Kinds

LEMMA CollectType == ASSUME TypeOK, NEW S PROVE Collect(S) \in Holding
  BY DEF TypeOK, Collect, Holding

\* A copy that is saved holds what it was given, and no other goes.
LEMMA Saving ==
  ASSUME TypeOK, NEW kind \in Kinds, NEW holds \in Holding, copies' = Saved(kind, holds)
  PROVE  /\ copies' \in [Kinds -> Seq(Holding)]
         /\ \A k \in Kinds : k # kind => copies'[k] = copies[k]
         /\ Held(Lasting) \subseteq Held(Lasting)'
         /\ kind \in Lasting => Sayings(holds) \subseteq Held(Lasting)'
  <1>1. CASE holds = Empty
    <2>1. copies' = copies BY <1>1 DEF Saved
    <2>2. Held(Lasting)' = Held(Lasting) BY <2>1 DEF Held
    <2> QED BY <1>1, <2>1, <2>2, Facts DEF TypeOK
  <1>2. CASE holds # Empty
    <2>1. copies' = [copies EXCEPT ![kind] = Append(@, holds)] BY <1>2 DEF Saved
    <2>2. copies \in [Kinds -> Seq(Holding)] BY DEF TypeOK
    <2>3. copies' \in [Kinds -> Seq(Holding)] BY <2>1, <2>2
    <2>4. \A k \in Kinds : k # kind => copies'[k] = copies[k] BY <2>1, <2>2
    <2>5. /\ Len(copies'[kind]) = Len(copies[kind]) + 1
          /\ copies'[kind][Len(copies[kind]) + 1] = holds
          /\ \A i \in 1..Len(copies[kind]) : copies'[kind][i] = copies[kind][i]
      BY <2>1, <2>2
    <2>6. ASSUME NEW w \in Held(Lasting) PROVE w \in Held(Lasting)'
      <3>1. PICK k \in Lasting : \E i \in 1..Len(copies[k]) : w \in Sayings(copies[k][i])
        BY <2>6, InHeld
      <3>2. PICK i \in 1..Len(copies[k]) : w \in Sayings(copies[k][i]) BY <3>1
      <3>3. k \in Kinds /\ Len(copies[k]) \in Nat BY <2>2, Facts
      <3>4. i \in 1..Len(copies'[k]) /\ copies'[k][i] = copies[k][i]
        BY <2>4, <2>5, <3>3
      <3>5. Sayings(copies'[k][i]) = Sayings(copies[k][i]) BY <3>4
      <3> QED BY <3>2, <3>4, <3>5 DEF Held, Sayings
    <2>7. kind \in Lasting => Sayings(holds) \subseteq Held(Lasting)'
      <3>1. Len(copies[kind]) \in Nat BY <2>2
      <3>2. Len(copies[kind]) + 1 \in 1..Len(copies'[kind]) BY <2>5, <3>1
      <3>3. Sayings(copies'[kind][Len(copies[kind]) + 1]) = Sayings(holds) BY <2>5
      <3>4. ASSUME NEW w \in Sayings(holds), kind \in Lasting PROVE w \in Held(Lasting)'
        BY <3>2, <3>3, <3>4 DEF Held
      <3> QED BY <3>4
    <2> QED BY <2>3, <2>4, <2>6, <2>7
  <1> QED BY <1>1, <1>2

LEMMA InitInv == Init => Inv
  <1> SUFFICES ASSUME Init PROVE Inv
    OBVIOUS
  <1> USE RestoreAssumption, Facts DEF Init
  <1>1. TypeOK
    <2>1. doc \in Holding OBVIOUS
    <2>2. wanted \subseteq Items \X (1..MaxText) \X {"read"}
      BY <2>1 DEF InUse, Sayings, Says, Holding, Texts
    <2>3. copies \in [Kinds -> Seq(Holding)] OBVIOUS
    <2>4. side \in [Docs -> SUBSET Texts] OBVIOUS
    <2>5. made \in 2..MaxText /\ acts \in 0..MaxActs /\ todo \subseteq Items OBVIOUS
    <2>6. at \in Stages BY DEF Stages
    <2>7. /\ pending \in Holding /\ asked \in Holding
          /\ damaged \in BOOLEAN /\ resetWaits \in BOOLEAN /\ sure \in BOOLEAN /\ failed \in BOOLEAN
      OBVIOUS
    <2> QED BY <2>1, <2>2, <2>3, <2>4, <2>5, <2>6, <2>7 DEF TypeOK
  <1>2. ReplacedIsKept BY DEF ReplacedIsKept, InUse
  <1>3. Prepared /\ Progress /\ Asking /\ AskedIsDone /\ AppliedIsOver
    BY DEF Prepared, Progress, Asking, AskedIsDone, AppliedIsOver
  <1> QED BY <1>1, <1>2, <1>3 DEF Inv

LEMMA StepInv == Inv /\ [Next]_vars => Inv'
  <1> SUFFICES ASSUME Inv, [Next]_vars PROVE Inv'
    OBVIOUS
  <1> USE RestoreAssumption, Facts DEF Inv, disk, waiting
  <1>01. ASSUME copies' = copies PROVE Held(Lasting)' = Held(Lasting)
    BY <1>01 DEF Held, Sayings, Says
  <1>02. ASSUME doc' = doc PROVE Sayings(doc)' = Sayings(doc)
    BY <1>02 DEF Sayings, Says
  <1>0. /\ copies' = copies => Held(Lasting)' = Held(Lasting)
        /\ doc' = doc => Sayings(doc)' = Sayings(doc)
    BY <1>01, <1>02
  <1>1. CASE Act /\ UNCHANGED <<disk, at, todo, made, failed>> /\ UNCHANGED <<waiting, asked, sure>>
             /\ copies' \in [Kinds -> Seq(Holding)] /\ wanted' \subseteq wanted
             /\ wanted' \subseteq Sayings(doc)' \cup Held(Lasting)'
    <2>1. TypeOK' BY <1>1 DEF Act, TypeOK
    <2>2. ReplacedIsKept' BY <1>1 DEF ReplacedIsKept, Lasting
    <2>3. (Prepared /\ Progress /\ Asking)'
      BY <1>1 DEF Act, Prepared, Progress, Asking, Brought
    <2>4. (AskedIsDone /\ AppliedIsOver)' BY <1>1 DEF Act, AskedIsDone, AppliedIsOver
    <2> QED BY <2>1, <2>2, <2>3, <2>4
  <1>2. CASE SaveCopy \/ \E kind \in Pruned : Snapshot(kind)
    <2> SUFFICES /\ copies' \in [Kinds -> Seq(Holding)]
                 /\ Held(Lasting) \subseteq Held(Lasting)'
      BY <1>0, <1>1, <1>2 DEF SaveCopy, Snapshot, ReplacedIsKept, Lasting
    <2>1. CASE SaveCopy
      BY <2>1, Saving, CollectType DEF SaveCopy
    <2>2. CASE \E kind \in Pruned : copies' = Saved(kind, Collect(Items))
      BY <2>2, Saving, CollectType
    <2>3. ASSUME NEW kind \in Pruned, copies' = Prune(kind, Saved(kind, Collect(Items)))
          PROVE  copies' \in [Kinds -> Seq(Holding)] /\ Held(Lasting) \subseteq Held(Lasting)'
      <3> DEFINE all == Saved(kind, Collect(Items))
      <3>1. all \in [Kinds -> Seq(Holding)] /\ \A k \in Kinds : k # kind => all[k] = copies[k]
        <4>1. CASE Collect(Items) = Empty BY <4>1 DEF Saved, TypeOK
        <4>2. CASE Collect(Items) # Empty
          <5>1. Append(copies[kind], Collect(Items)) \in Seq(Holding) BY CollectType DEF TypeOK
          <5> QED BY <4>2, <5>1 DEF Saved, TypeOK
        <4> QED BY <4>1, <4>2
      <3> HIDE DEF all
      <3>2. Keep[kind] \in Nat \ {0} OBVIOUS
      <3>3. copies' \in [Kinds -> Seq(Holding)] /\ \A k \in Kinds : k # kind => copies'[k] = all[k]
        <4>1. CASE Len(all[kind]) > Keep[kind]
          <5>1. SubSeq(all[kind], Len(all[kind]) - Keep[kind] + 1, Len(all[kind])) \in Seq(Holding)
            BY <3>1, <3>2, <4>1
          <5> QED BY <2>3, <3>1, <4>1, <5>1 DEF Prune, all
        <4>2. CASE ~(Len(all[kind]) > Keep[kind])
          BY <2>3, <3>1, <4>2 DEF Prune, all
        <4> QED BY <4>1, <4>2
      <3>4. \A k \in Lasting : copies'[k] = copies[k] BY <3>1, <3>3 DEF Lasting
      <3>5. ASSUME NEW w \in Held(Lasting) PROVE w \in Held(Lasting)'
        <4>1. PICK k \in Lasting : \E i \in 1..Len(copies[k]) : w \in Sayings(copies[k][i])
          BY <3>5, InHeld
        <4>2. PICK i \in 1..Len(copies[k]) : w \in Sayings(copies[k][i]) BY <4>1
        <4>3. Sayings(copies'[k][i]) = Sayings(copies[k][i]) BY <3>4
        <4> QED BY <3>4, <4>2, <4>3 DEF Held, Sayings
      <3> QED BY <3>3, <3>5
    <2> QED BY <1>2, <2>1, <2>2, <2>3 DEF Snapshot
  <1>3. ASSUME NEW kind \in Kinds, NEW i \in 1..Len(copies[kind]), DeleteCopy(kind, i) PROVE Inv'
    <2> SUFFICES /\ copies' \in [Kinds -> Seq(Holding)]
                 /\ wanted' \subseteq Sayings(doc)' \cup Held(Lasting)'
      BY <1>1, <1>3 DEF DeleteCopy
    <2> DEFINE s == copies[kind]
               t == SubSeq(s, 1, i - 1) \o SubSeq(s, i + 1, Len(s))
    <2>1. s \in Seq(Holding) /\ Len(s) \in Nat /\ i \in 1..Len(s) BY DEF TypeOK
    <2>2. copies' = [copies EXCEPT ![kind] = t] BY <1>3 DEF DeleteCopy
    <2> HIDE DEF s
    <2>3. SubSeq(s, 1, i - 1) \in Seq(Holding) /\ SubSeq(s, i + 1, Len(s)) \in Seq(Holding)
      BY <2>1
    <2>31. Len(SubSeq(s, 1, i - 1)) = i - 1 /\ Len(SubSeq(s, i + 1, Len(s))) = Len(s) - i
      BY <2>1
    <2> DEFINE before == SubSeq(s, 1, i - 1)
               after == SubSeq(s, i + 1, Len(s))
    <2>32. (\A j \in 1..(i - 1) : before[j] = s[j]) /\ \A j \in 1..(Len(s) - i) : after[j] = s[i + j]
      BY <2>1
    <2> HIDE DEF before, after
    <2>33. /\ t \in Seq(Holding) /\ Len(t) = Len(before) + Len(after)
           /\ \A j \in 1..Len(before) + Len(after) :
                t[j] = IF j <= Len(before) THEN before[j] ELSE after[j - Len(before)]
      <3>1. before \in Seq(Holding) /\ after \in Seq(Holding) BY <2>3 DEF before, after
      <3>2. t = before \o after BY DEF before, after
      <3> HIDE DEF t
      <3> QED BY <3>1, <3>2, ConcatProperties
    <2>34. Len(before) = i - 1 /\ Len(after) = Len(s) - i BY <2>31 DEF before, after
    <2> HIDE DEF t
    <2>4. t \in Seq(Holding) /\ Len(t) = Len(s) - 1 BY <2>1, <2>33, <2>34
    <2>5. \A j \in 1..Len(s) : j < i => j \in 1..Len(t) /\ t[j] = s[j]
      BY <2>1, <2>32, <2>33, <2>34
    <2>6. \A j \in 1..Len(s) : j > i => j - 1 \in 1..Len(t) /\ t[j - 1] = s[j]
      <3> SUFFICES ASSUME NEW j \in 1..Len(s), j > i PROVE j - 1 \in 1..Len(t) /\ t[j - 1] = s[j]
        OBVIOUS
      <3>1. j - i \in 1..(Len(s) - i) /\ j - 1 \in 1..(Len(s) - 1) /\ ~(j - 1 <= i - 1)
            /\ (j - 1) - (i - 1) = j - i /\ i + (j - i) = j
        BY <2>1
      <3>2. t[j - 1] = after[j - i] BY <2>1, <2>33, <2>34, <3>1
      <3> QED BY <2>1, <2>32, <2>4, <3>1, <3>2
    <2>7. copies' \in [Kinds -> Seq(Holding)] /\ copies'[kind] = t
          /\ \A k \in Kinds : k # kind => copies'[k] = copies[k]
      BY <2>2, <2>4 DEF TypeOK
    <2>8. ASSUME NEW w \in wanted' PROVE w \in Sayings(doc)' \cup Held(Lasting)'
      <3>1. w \in Sayings(doc) \cup Held(Lasting) /\ (w \in Sayings(s[i]) => w \in Sayings(doc))
        BY <1>3 DEF DeleteCopy, ReplacedIsKept, Lasting, s
      <3>2. Sayings(doc)' = Sayings(doc) BY <1>0, <1>3 DEF DeleteCopy
      <3>3. CASE w \in Held(Lasting) /\ w \notin Sayings(doc)
        <4>1. PICK k \in Lasting : \E j \in 1..Len(copies[k]) : w \in Sayings(copies[k][j])
          BY <3>3, InHeld
        <4>2. PICK j \in 1..Len(copies[k]) : w \in Sayings(copies[k][j]) BY <4>1
        <4>3. \E n \in 1..Len(copies'[k]) : copies'[k][n] = copies[k][j]
          <5>1. CASE k # kind BY <2>7, <5>1
          <5>2. CASE k = kind
            <6>1. j # i BY <3>1, <3>3, <4>2, <5>2 DEF s
            <6>2. j \in 1..Len(s) BY <5>2 DEF s
            <6>3. j < i \/ j > i BY <2>1, <6>1, <6>2
            <6> QED BY <2>5, <2>6, <2>7, <5>2, <6>2, <6>3 DEF s
          <5> QED BY <5>1, <5>2
        <4>4. PICK n \in 1..Len(copies'[k]) : copies'[k][n] = copies[k][j] BY <4>3
        <4>5. Sayings(copies'[k][n]) = Sayings(copies[k][j]) BY <4>4
        <4> QED BY <4>2, <4>4, <4>5 DEF Held, Sayings
      <3> QED BY <3>1, <3>2, <3>3
    <2> QED BY <2>7, <2>8
  <1>4. ASSUME NEW d \in Items, Edit(d) PROVE Inv'
    <2>0. at = "running" BY <1>4 DEF Edit, Act
    <2>1. TypeOK'
      <3>1. made + 1 \in 2..MaxText BY <1>4 DEF Edit, TypeOK
      <3>2. doc' \in Holding BY <1>4, <3>1 DEF Edit, TypeOK, Holding, Texts, Layouts
      <3>3. wanted' \subseteq Items \X (1..MaxText) \X {"read"} BY <1>4, <3>1 DEF Edit, TypeOK
      <3> QED BY <1>4, <3>1, <3>2, <3>3 DEF Edit, Act, TypeOK
    <2>2. ReplacedIsKept'
      <3>1. Held(Lasting)' = Held(Lasting) BY <1>0, <1>4 DEF Edit
      <3>2. doc'[d] = [n |-> made + 1, layout |-> "current"] /\ \A e \in Items : e # d => doc'[e] = doc[e]
        BY <1>4 DEF Edit, TypeOK, Holding
      <3>3. doc'[d] # None
        <4>1. doc'[d] \in Texts BY <3>2, <2>1, <1>4 DEF Edit, TypeOK, Texts, Layouts
        <4> QED BY <4>1
      <3>4. <<d, made + 1, "read">> \in Sayings(doc)'
        <4>1. Says(d, doc'[d]) = <<d, made + 1, "read">> BY <3>2 DEF Says
        <4> QED BY <3>3, <4>1 DEF Sayings, Says
      <3>5. ASSUME NEW w \in Sayings(doc), w[1] # d PROVE w \in Sayings(doc)'
        <4>1. PICK e \in Items : doc[e] # None /\ w = Says(e, doc[e]) BY <3>5, InSayings
        <4>2. e # d BY <3>5, <4>1 DEF Says
        <4>3. doc'[e] = doc[e] BY <3>2, <4>2
        <4> QED BY <4>1, <4>3 DEF Sayings, Says
      <3>6. wanted' \subseteq {w \in wanted : w \in Sayings(doc) => w[1] # d} \cup {<<d, made + 1, "read">>}
        BY <1>4 DEF Edit
      <3> QED BY <3>1, <3>4, <3>5, <3>6 DEF ReplacedIsKept, Lasting
    <2>3. (Prepared /\ Progress /\ AskedIsDone /\ AppliedIsOver)'
      BY <1>4, <2>0 DEF Edit, Prepared, Progress, AskedIsDone, AppliedIsOver
    <2>4. Asking' BY <1>4, <2>0 DEF Edit, Asking
    <2> QED BY <2>1, <2>2, <2>3, <2>4
  <1>5. ASSUME NEW holds \in Restorable, StageImport(holds) PROVE Inv'
    <2>1. holds \in Holding
      BY <1>5 DEF Restorable, TypeOK
    <2>2. TypeOK'
      <3>1. (doc \in Holding /\ side \in [Docs -> SUBSET Texts] /\ copies \in [Kinds -> Seq(Holding)])'
        BY <1>5 DEF StageImport, TypeOK
      <3>2. (pending \in Holding /\ asked \in Holding)' BY <1>5, <2>1 DEF StageImport
      <3>3. (damaged \in BOOLEAN /\ resetWaits \in BOOLEAN /\ sure \in BOOLEAN /\ failed \in BOOLEAN)'
        BY <1>5, Zenon DEF StageImport, TypeOK
      <3>4. (at \in Stages /\ todo \subseteq Items /\ made \in 2..MaxText)'
        BY <1>5 DEF StageImport, TypeOK
      <3>5. acts' \in 0..MaxActs BY <1>5 DEF StageImport, Act, TypeOK
      <3>6. (wanted \subseteq Items \X (1..MaxText) \X {"read"})' BY <1>5 DEF StageImport, TypeOK
      <3> QED BY <3>1, <3>2, <3>3, <3>4, <3>5, <3>6 DEF TypeOK
    <2>3. ReplacedIsKept' BY <1>0, <1>5 DEF StageImport, ReplacedIsKept, Lasting
    <2>4. (Prepared /\ Progress /\ AskedIsDone /\ AppliedIsOver)'
      BY <1>5 DEF StageImport, Act, Prepared, Progress, AskedIsDone, AppliedIsOver
    <2>5. Asking' BY <1>5 DEF StageImport, Act, Asking
    <2> QED BY <2>2, <2>3, <2>4, <2>5
  <1>6. CASE CancelImport \/ StageReset
    <2>1. TypeOK'
      <3> USE DEF CancelImport, StageReset
      <3>1. (doc \in Holding /\ side \in [Docs -> SUBSET Texts] /\ copies \in [Kinds -> Seq(Holding)])'
        BY <1>6 DEF TypeOK
      <3>2. (pending \in Holding /\ asked \in Holding)' BY <1>6 DEF TypeOK
      <3>3. (damaged \in BOOLEAN /\ resetWaits \in BOOLEAN /\ sure \in BOOLEAN /\ failed \in BOOLEAN)'
        BY <1>6 DEF TypeOK
      <3>4. (at \in Stages /\ todo \subseteq Items /\ made \in 2..MaxText)'
        BY <1>6 DEF TypeOK, Stages
      <3>5. acts' \in 0..MaxActs BY <1>6 DEF Act, TypeOK
      <3>6. (wanted \subseteq Items \X (1..MaxText) \X {"read"})' BY <1>6 DEF TypeOK
      <3> QED BY <3>1, <3>2, <3>3, <3>4, <3>5, <3>6 DEF TypeOK
    <2>2. ReplacedIsKept'
      BY <1>0, <1>6 DEF CancelImport, StageReset, ReplacedIsKept, Lasting
    <2>3. (Prepared /\ Progress /\ AskedIsDone /\ AppliedIsOver)'
      BY <1>6 DEF CancelImport, StageReset, Act, Prepared, Progress, AskedIsDone, AppliedIsOver
    <2>4. Asking' BY <1>6 DEF CancelImport, StageReset, Act, Asking
    <2> QED BY <2>1, <2>2, <2>3, <2>4
  <1>7. CASE Stop \/ Damage
    <2>1. TypeOK' BY <1>7 DEF Stop, Damage, TypeOK, Stages
    <2>2. ReplacedIsKept' BY <1>0, <1>7 DEF Stop, Damage, ReplacedIsKept, Lasting
    <2>3. (Prepared /\ Progress /\ AskedIsDone /\ AppliedIsOver)'
      BY <1>7 DEF Stop, Damage, Prepared, Progress, AskedIsDone, AppliedIsOver
    <2>4. Asking' BY <1>7 DEF Stop, Damage, Asking
    <2> QED BY <2>1, <2>2, <2>3, <2>4
  <1>8. CASE Start \/ Fail \/ ResetEnds \/ NothingToImport \/ ImportEnds \/ Run
    <2> USE DEF Start, Fail, ResetEnds, NothingToImport, ImportEnds, Run, Goes
    <2>1. TypeOK' BY <1>8 DEF TypeOK, Stages
    <2>2. ReplacedIsKept' BY <1>0, <1>8 DEF ReplacedIsKept, Lasting
    <2>3. Prepared' BY <1>8 DEF Prepared
    <2>4. Progress' BY <1>8 DEF Progress
    <2>5. Asking'
      <3>1. CASE Start BY <3>1 DEF Asking
      <3>2. CASE Fail \/ ImportEnds \/ Run BY <3>2 DEF Asking
      <3>3. CASE ResetEnds BY <3>3 DEF Asking, Progress
      <3>4. CASE NothingToImport BY <3>4 DEF Asking
      <3> QED BY <1>8, <3>1, <3>2, <3>3, <3>4
    <2>6. AppliedIsOver' BY <1>8 DEF AppliedIsOver, Progress
    <2>7. AskedIsDone'
      <3>1. CASE Start \/ ResetEnds \/ Run BY <3>1 DEF AskedIsDone
      <3>2. CASE Fail BY <3>2 DEF AskedIsDone, Progress, TypeOK
      <3>3. CASE NothingToImport BY <3>3 DEF AskedIsDone, Asking
      <3>4. CASE ImportEnds
        <4>1. sure => pending = asked /\ asked # Empty BY <3>4 DEF Progress, Asking
        <4>2. \A d \in Items : pending[d] # None => doc[d] = pending[d]
          BY <3>4 DEF Progress, Brought
        <4> QED BY <3>4, <4>1, <4>2 DEF AskedIsDone
      <3> QED BY <1>8, <3>1, <3>2, <3>3, <3>4
    <2> QED BY <2>1, <2>2, <2>3, <2>4, <2>5, <2>6, <2>7
  <1>9. CASE ResetCopies
    <2> USE DEF ResetCopies, Goes
    <2>1. Collect(Docs) \in Holding BY CollectType
    <2>2. /\ copies' \in [Kinds -> Seq(Holding)] /\ Held(Lasting) \subseteq Held(Lasting)'
          /\ Sayings(Collect(Docs)) \subseteq Held(Lasting)'
      BY <1>9, <2>1, Saving
    <2>3. TypeOK' BY <1>9, <2>2 DEF TypeOK, Stages
    <2>4. ReplacedIsKept' BY <1>0, <1>9, <2>2 DEF ReplacedIsKept, Lasting
    <2>5. \A d \in Docs : doc[d] # None => Says(d, doc[d]) \in Sayings(Collect(Docs))
      BY DEF Sayings, Collect
    <2>6. \A d \in Docs : Says(d, doc[d])' = Says(d, doc[d]) BY <1>9 DEF Says
    <2>7. Prepared' BY <1>9, <2>2, <2>5, <2>6 DEF Prepared
    <2>8. (Progress /\ Asking /\ AskedIsDone /\ AppliedIsOver)'
      BY <1>9 DEF Progress, Asking, AskedIsDone, AppliedIsOver
    <2> QED BY <2>3, <2>4, <2>7, <2>8
  <1>10. CASE ImportCopies
    <2> USE DEF ImportCopies, Goes
    <2> DEFINE S == {d \in Brought : doc[d] # None /\ doc[d] # pending[d]}
    <2>1. Collect(S) \in Holding BY CollectType
    <2>2. /\ copies' \in [Kinds -> Seq(Holding)] /\ Held(Lasting) \subseteq Held(Lasting)'
          /\ Sayings(Collect(S)) \subseteq Held(Lasting)'
      BY <1>10, <2>1, Saving
    <2>3. TypeOK' BY <1>10, <2>2 DEF TypeOK, Stages, Brought
    <2>4. ReplacedIsKept' BY <1>0, <1>10, <2>2 DEF ReplacedIsKept, Lasting
    <2>5. \A d \in S : Says(d, doc[d]) \in Sayings(Collect(S))
      BY DEF Sayings, Collect, Brought
    <2>6. \A d \in Items : Says(d, doc[d])' = Says(d, doc[d]) BY <1>10 DEF Says
    <2>7. Prepared' BY <1>10, <2>2, <2>5, <2>6 DEF Prepared, Brought
    <2>8. (Progress /\ Asking /\ AskedIsDone /\ AppliedIsOver)'
      BY <1>10 DEF Progress, Asking, AskedIsDone, AppliedIsOver, Brought
    <2> QED BY <2>3, <2>4, <2>7, <2>8
  <1>11. ASSUME NEW d \in Docs, ResetClears(d) PROVE Inv'
    <2> USE DEF ResetClears, NextIs
    <2>1. TypeOK' BY <1>11 DEF TypeOK, Holding
    <2>2. Held(Lasting)' = Held(Lasting) BY <1>0, <1>11
    <2>3. doc'[d] = None /\ \A e \in Items : e # d => doc'[e] = doc[e] BY <1>11 DEF TypeOK, Holding
    <2>4. ReplacedIsKept'
      <3>1. ASSUME NEW w \in Sayings(doc) PROVE w \in Sayings(doc)' \cup Held(Lasting)
        <4>1. PICK e \in Items : doc[e] # None /\ w = Says(e, doc[e]) BY <3>1, InSayings
        <4>2. CASE e = d BY <1>11, <4>1, <4>2 DEF Prepared
        <4>3. CASE e # d BY <2>3, <4>1, <4>3 DEF Sayings, Says
        <4> QED BY <4>2, <4>3
      <3> QED BY <1>11, <2>2, <3>1 DEF ReplacedIsKept, Lasting
    <2>5. Prepared' BY <1>11, <2>2, <2>3 DEF Prepared, Says
    <2>6. Progress' BY <1>11, <2>3 DEF Progress
    <2>7. (Asking /\ AskedIsDone /\ AppliedIsOver)'
      BY <1>11 DEF Asking, AskedIsDone, AppliedIsOver
    <2> QED BY <2>1, <2>4, <2>5, <2>6, <2>7
  <1>12. ASSUME NEW d \in Items, ImportWrites(d) PROVE Inv'
    <2> USE DEF ImportWrites, NextIs
    <2>0. d \in Brought /\ pending[d] \in Texts
      BY <1>12 DEF Progress, Brought, TypeOK, Holding
    <2>1. doc' \in Holding BY <1>12 DEF TypeOK, Holding
    <2>2. Held(Lasting)' = Held(Lasting) BY <1>0, <1>12
    <2>3. doc'[d] = pending[d] /\ \A e \in Items : e # d => doc'[e] = doc[e]
      BY <1>12 DEF TypeOK, Holding
    <2>4. TypeOK'
      <3>1. InUse(doc') \subseteq Items \X (1..MaxText) \X {"read"}
        BY <2>1 DEF InUse, Sayings, Says, Holding, Texts
      <3>2. wanted' \subseteq Items \X (1..MaxText) \X {"read"} BY <1>12, <3>1 DEF TypeOK
      <3> QED BY <1>12, <2>1, <3>2 DEF TypeOK
    <2>5. ReplacedIsKept'
      <3>1. ASSUME NEW w \in Sayings(doc) PROVE w \in Sayings(doc)' \cup Held(Lasting)
        <4>1. PICK e \in Items : doc[e] # None /\ w = Says(e, doc[e]) BY <3>1, InSayings
        <4>2. CASE e = d /\ doc[d] # pending[d] BY <1>12, <4>1, <4>2 DEF Prepared
        <4>3. CASE e # d \/ doc[d] = pending[d] BY <2>3, <4>1, <4>3 DEF Sayings, Says
        <4> QED BY <4>2, <4>3
      <3>2. InUse(doc') \subseteq Sayings(doc)' BY DEF InUse, Sayings
      <3>3. wanted' \subseteq wanted \cup Sayings(doc)' BY <1>12, <3>2
      <3> QED BY <2>2, <3>1, <3>3 DEF ReplacedIsKept, Lasting
    <2>6. Prepared' BY <1>12, <2>2, <2>3 DEF Prepared, Says
    <2>7. Progress'
      <3>1. Brought' = Brought BY <1>12 DEF Brought
      <3>2. \A e \in Brought \ todo' : doc'[e] = pending'[e]
        BY <1>12, <2>3 DEF Progress, Brought
      <3> QED BY <1>12, <3>1, <3>2 DEF Progress
    <2>8. (Asking /\ AskedIsDone /\ AppliedIsOver)'
      BY <1>12 DEF Asking, AskedIsDone, AppliedIsOver
    <2> QED BY <2>4, <2>5, <2>6, <2>7, <2>8
  <1>13. ASSUME NEW d \in Docs, Upgrade(d) PROVE Inv'
    <2> USE DEF Upgrade, NextIs
    <2>0. at = "applied" /\ at' = "applied" /\ d \in todo /\ todo' = todo \ {d} BY <1>13
    <2>1. Held(Lasting)' = Held(Lasting) BY <1>0, <1>13
    <2>2. \/ doc' = doc
          \/ /\ doc[d] \in Texts
             /\ \/ doc[d].layout = "newer" /\ doc' = [doc EXCEPT ![d] = None]
                \/ doc[d].layout = "old" /\ doc' = [doc EXCEPT ![d] = [@ EXCEPT !.layout = "current"]]
      BY <1>13 DEF TypeOK, Holding, Texts, Layouts
    <2>3. doc' \in Holding
      <3>1. doc[d] \in Texts => [doc[d] EXCEPT !.layout = "current"] \in Texts
        BY DEF Texts, Layouts
      <3>2. doc \in [Items -> Texts \cup {None}] /\ d \in Items BY DEF TypeOK, Holding
      <3>3. CASE doc' = doc BY <3>2, <3>3 DEF Holding
      <3>4. CASE doc' = [doc EXCEPT ![d] = None] BY <3>2, <3>4 DEF Holding
      <3>5. CASE doc[d] \in Texts /\ doc' = [doc EXCEPT ![d] = [@ EXCEPT !.layout = "current"]]
        BY <3>1, <3>2, <3>5 DEF Holding
      <3> QED BY <2>2, <3>3, <3>4, <3>5
    <2>4. TypeOK'
      <3>1. doc[d] # None => doc[d] \in Texts BY DEF TypeOK, Holding
      <3>2. doc[d] # None /\ doc[d].layout # "current" => KeptBeside(d) \in SUBSET Texts
        <4> SUFFICES ASSUME doc[d] \in Texts, doc[d].layout # "current" PROVE KeptBeside(d) \subseteq Texts
          BY <3>1
        <4>1. side[d] \subseteq Texts BY DEF TypeOK
        <4>2. CASE doc[d].layout = "old" BY <4>1, <4>2 DEF KeptBeside
        <4>3. CASE doc[d].layout = "newer" BY <4>1, <4>3 DEF KeptBeside
        <4> QED BY <4>2, <4>3 DEF Texts, Layouts
      <3>3. side' \in [Docs -> SUBSET Texts] BY <1>13, <3>2 DEF TypeOK
      <3> QED BY <1>13, <2>3, <3>3 DEF TypeOK
    <2>5. ReplacedIsKept'
      <3>1. ASSUME NEW w \in Sayings(doc), w[3] = "read" PROVE w \in Sayings(doc)'
        <4>1. PICK e \in Items : doc[e] # None /\ w = Says(e, doc[e]) BY <3>1, InSayings
        <4>2. CASE doc'[e] = doc[e] BY <4>1, <4>2 DEF Sayings, Says
        <4>3. CASE doc'[e] # doc[e]
          <5>1. e = d /\ doc[d] \in Texts BY <2>2, <4>3 DEF TypeOK, Holding
          <5>2. doc[d].layout # "newer" BY <3>1, <4>1, <5>1 DEF Says
          <5>3. doc'[d] = [doc[d] EXCEPT !.layout = "current"] /\ doc[d].layout = "old"
            BY <2>2, <4>3, <5>1, <5>2 DEF TypeOK, Holding
          <5>4. doc'[d] \in Texts /\ doc'[d].n = doc[d].n /\ doc'[d].layout = "current"
            BY <5>1, <5>3 DEF Texts, Layouts
          <5>5. Says(d, doc'[d]) = w BY <4>1, <5>1, <5>2, <5>4 DEF Says
          <5> QED BY <5>1, <5>4, <5>5 DEF Sayings, Says
        <4> QED BY <4>2, <4>3
      <3>2. \A w \in wanted : w[3] = "read" BY DEF TypeOK
      <3> QED BY <1>13, <2>1, <3>1, <3>2 DEF ReplacedIsKept, Lasting
    <2>6. (Prepared /\ Progress /\ Asking)' BY <1>13 DEF Prepared, Progress, Asking
    <2>7. (AskedIsDone /\ AppliedIsOver)' BY <1>13 DEF AskedIsDone, AppliedIsOver
    <2> QED BY <2>4, <2>5, <2>6, <2>7
  <1>14. CASE UNCHANGED vars
    <2>1. TypeOK' BY <1>14 DEF vars, TypeOK
    <2>2. ReplacedIsKept' BY <1>0, <1>14 DEF vars, ReplacedIsKept, Lasting
    <2>3. Prepared' BY <1>0, <1>14 DEF vars, Prepared, Says
    <2>4. (Progress /\ Asking)' BY <1>14 DEF vars, Progress, Asking, Brought
    <2>5. (AskedIsDone /\ AppliedIsOver)' BY <1>14 DEF vars, AskedIsDone, AppliedIsOver
    <2> QED BY <2>1, <2>2, <2>3, <2>4, <2>5
  <1> QED BY <1>2, <1>3, <1>4, <1>5, <1>6, <1>7, <1>8, <1>9, <1>10, <1>11, <1>12, <1>13, <1>14
          DEF Next, User, Applying

LEMMA Invariance == Spec => []Inv
  <1> QED BY InitInv, StepInv, PTL DEF Spec

\* Every variable keeps its type.
THEOREM TypeCorrect == Spec => []TypeOK
  BY Invariance, PTL DEF Inv

\* What a restore or a reset replaces is kept, whatever fails, is cut short or is applied
\* again (apply_reset and apply_import save a copy before they write anything).
THEOREM NoTextIsLost == Spec => []ReplacedIsKept
  BY Invariance, PTL DEF Inv

\* What was asked for last is done whole before it stops waiting.
THEOREM DoneWhole == Spec => []AskedIsDone
  BY Invariance, PTL DEF Inv

\* A start without a failure leaves nothing to be applied again.
THEOREM AppliedOnce == Spec => []AppliedIsOver
  BY Invariance, PTL DEF Inv
=============================================================================
