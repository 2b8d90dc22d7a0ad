-------------------------- MODULE MCTelemetryWriter --------------------------
(***************************************************************************)
(* Small instances of TelemetryWriter: bounds per stream.                  *)
(***************************************************************************)
EXTENDS TelemetryWriter

PerStream(tel, top, ev) == Adding(tel, top, ev)

\* Two-row deques: the third row of an outage overflows one.
TwoEach == PerStream(2, 2, 2)

\* Enough status rows to overflow; the other streams only make the flush long.
StatusRows == PerStream(3, 1, 2)

\* Enough relayed rows for two batches to meet in the catalogue.
RelayRows == PerStream(1, 3, 1)
=============================================================================
