------------------------------- MODULE MCUplink -------------------------------
(***************************************************************************)
(* Small instances of Uplink: its own constants are numbers.  AgentFilter  *)
(* decides what Offer is given; it is evaluated over histories of samples  *)
(* that are long enough for a drift over the deadband in three steps and   *)
(* for a heartbeat after samples that were skipped.                        *)
(***************************************************************************)
EXTENDS Uplink

McConfigs ==
  [gap : {1, 3}, heartbeat : {0, 4}, deadband : {0, 1}, changeOnly : BOOLEAN]

\* Times one to three seconds apart, or after a clock that was set back.
McTimes(n) == {t \in [1..n -> 994..(997 + 3 * n)] :
                 t[1] = 1000 /\ \A i \in 2..n : t[i] - t[i - 1] \in {-2, 1, 2, 3}}

\* Up to four samples of three values.
McHistories ==
  UNION {{[i \in 1..n |-> [at |-> t[i], value |-> v[i]]] :
            t \in McTimes(n), v \in [1..n -> 0..2]} : n \in 1..4}
=============================================================================
