---------------------------- MODULE MCStagedRestore ----------------------------
(* A small instance of StagedRestore for TLC. *)
EXTENDS StagedRestore, TLC

\* A document of all accounts, one of an account, and a script.
RankOf == "prefs" :> 1 @@ "alerts" :> 2 @@ "rsi" :> 3

\* A copy is pruned when one more is there.
KeepOne == "auto" :> 1

Text(n, layout) == [n |-> n, layout |-> layout]
All(prefs, alerts, rsi) == "prefs" :> prefs @@ "alerts" :> alerts @@ "rsi" :> rsi

\* A fresh install, and one that another build saved.
Installs == {Empty, All(Text(1, "old"), Text(1, "newer"), Text(1, "current"))}

\* An older backup, and one of a newer build.
Backups ==
  {All(Text(2, "old"), None, None), All(None, Text(2, "newer"), Text(2, "current"))}
=============================================================================
