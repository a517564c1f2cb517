---------------------------- MODULE SingleFlight ----------------------------
(***************************************************************************)
(* What a shared promise, alone or one per key, of the form                 *)
(*     this.pending ??= work().finally(() => this.pending = undefined)      *)
(* promises its callers: one run of the work at a time for a key, everybody  *)
(* who asks meanwhile waits for that run, and nobody is left behind when it  *)
(* ends.                                                                    *)
(***************************************************************************)
CONSTANTS
  Keys,
  Callers,
  NoCaller

VARIABLES
  flight,   \* of each key the caller that started the run under way, or NoCaller
  aboard    \* of each key the callers that wait for its run

flightVars == <<flight, aboard>>

FlightInit ==
  /\ flight = [k \in Keys |-> NoCaller]
  /\ aboard = [k \in Keys |-> {}]

Board(k, c) ==
  /\ c \notin aboard[k]
  /\ \/ flight[k] = NoCaller /\ flight' = [flight EXCEPT ![k] = c]
     \/ flight[k] # NoCaller /\ UNCHANGED flight
  /\ aboard' = [aboard EXCEPT ![k] = @ \cup {c}]

Land(k) ==
  /\ flight[k] # NoCaller
  /\ flight' = [flight EXCEPT ![k] = NoCaller]
  /\ aboard' = [aboard EXCEPT ![k] = {}]

\* The process stops.
Ground ==
  /\ flight' = [k \in Keys |-> NoCaller]
  /\ aboard' = [k \in Keys |-> {}]

FlightNext ==
  \/ \E k \in Keys : Land(k) \/ \E c \in Callers : Board(k, c)
  \/ Ground

FlightSpec == FlightInit /\ [][FlightNext]_flightVars
=============================================================================
