----------------------------- MODULE NodeHistory -----------------------------
(***************************************************************************)
(* What the front end draws of a node (pmindd/src/ui/history.rs): the      *)
(* selected node's readings against their time, on an axis of fixed length *)
(* that begins at the oldest of them.                                      *)
(***************************************************************************)
EXTENDS PlantMinder

CONSTANTS
    Period,     \* seconds between two readings that arrive
    AxisLength  \* seconds the time axis covers (1000)

ASSUME HistoryAssumption == Period \in Nat \ {0} /\ AxisLength \in Nat

\* The broker's clock when the reading arrived there (data.ts).
Ts(reading) == Period * reading.n

\* min_t after the first i readings: zero stands for none yet.
MinT(history) ==
    LET minT[i \in 0 .. Len(history)] ==
          IF i = 0 THEN 0
          ELSE LET t == minT[i - 1]
               IN  IF t = 0 \/ Ts(history[i]) < t THEN Ts(history[i]) ELSE t
    IN  minT[Len(history)]

\* render_graph: the bounds of the time axis.
Axis(history) == MinT(history) .. MinT(history) + AxisLength

\* Whether a reading's point, which is drawn in any case, is on the chart.
Visible(history, reading) == Ts(reading) \in Axis(history)

\* The nodes whose chart can be selected: the row counts round the table.
Charted == {ip \in DOMAIN nodes : nodes[ip].history # <<>>}

\* README.md: "display sensor data as it is received": a node's newest reading
\* is on its chart.  Refuted by a run, with the code's numbers.
NewestOnChart ==
    \A ip \in Charted : Visible(nodes[ip].history, Last(nodes[ip].history))

=============================================================================
