------------------------------- MODULE MCAlerts -------------------------------
(* Small instances of Alerts for TLC. *)
EXTENDS Alerts

Set(source, condition, trigger, price) ==
  [source |-> source, condition |-> condition, trigger |-> trigger, price |-> price, upper |-> price]

\* One alert for each way of being judged: on the price and on bars, once, each time, once
\* for a bar and as it closes; on a level, a zone, a move and a direction.
Kinds == {Set("price", "crossing", "once", 2), Set("price", "moves", "once per bar", 1),
          Set("price", "enters", "bar close", 1), Set("price", "exits", "every time", 2),
          Set("indicator", "direction", "every time", 2), Set("indicator", "below", "once", 2)}
=============================================================================
