---------------------------- MODULE DurableDocument ----------------------------
(***************************************************************************)
(* What the app promises of a document that it saves while it is being     *)
(* changed (crates/wyck-app/src/saver.rs over DocumentStore and            *)
(* atomic_write): whatever stops the app, the next start finds a whole     *)
(* document that was once on the screen, and one that could not be read    *)
(* is set aside rather than destroyed.                                     *)
(***************************************************************************)
CONSTANTS Values, Fresh   \* the documents, and the one of an app that saved nothing

VARIABLES
  doc,     \* the document on the screen
  shown,   \* those that were ever on the screen
  kept,    \* those that the next start may find
  aside    \* the one that was set aside last

vars == <<doc, shown, kept, aside>>

Init == doc = Fresh /\ shown = {Fresh} /\ kept = {Fresh} /\ aside = Fresh

Edit ==
  /\ \E v \in Values \ shown : doc' = v /\ shown' = shown \cup {v}
  /\ UNCHANGED <<kept, aside>>

\* A write reaches the disk, but perhaps not for good ...
Write ==
  /\ \E v \in shown : kept' = kept \cup {v}
  /\ UNCHANGED <<doc, shown, aside>>

\* ... until the disk, or a power cut, settles on one.
Settle ==
  /\ \E v \in kept : kept' = {v}
  /\ UNCHANGED <<doc, shown, aside>>

Open ==
  /\ doc' \in kept
  /\ UNCHANGED <<shown, kept, aside>>

\* The document cannot be read: the app starts with a fresh one.
SetAside ==
  /\ doc' = Fresh
  /\ \/ aside' \in kept /\ kept' = {Fresh}
     \/ UNCHANGED <<aside, kept>>
  /\ UNCHANGED shown

Next == Edit \/ Write \/ Settle \/ Open \/ SetAside

Spec == Init /\ [][Next]_vars
=============================================================================
