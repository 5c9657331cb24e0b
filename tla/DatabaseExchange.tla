-------------------------- MODULE DatabaseExchange --------------------------
(***************************************************************************)
(* What a database exchange promises its user: it describes the LSAs of    *)
(* the neighbour, remembers every one of them that is missing until it is  *)
(* stored, and is full only when none is missing.  Neighbor implements it. *)
(*                                                                         *)
(* That none is missing is checked before the exchange becomes full; when  *)
(* it starts over in between, the check is stale, and fullness is claimed. *)
(***************************************************************************)
CONSTANT LSAs

VARIABLES
  phase,     \* "down", "exchange", "loading", "full" or "claimed"
  missing,   \* the LSAs the neighbour described that are not stored
  check      \* "none", "valid" or "stale"

vars == <<phase, missing, check>>

Init == phase = "down" /\ missing = {} /\ check = "none"

\* The neighbour describes LSAs, perhaps its last ones. What was missing
\* stays so: describing stores nothing.
Describe ==
  /\ phase \in {"down", "exchange"}
  /\ phase' \in {"exchange", "loading", "full"}
  /\ missing' \in SUBSET LSAs
  /\ phase = "exchange" => missing \subseteq missing'
  /\ phase' = "full" => missing' = {}
  /\ UNCHANGED check

\* LSAs are stored.
Store ==
  /\ phase # "down"
  /\ missing' \in SUBSET missing
  /\ UNCHANGED <<phase, check>>

Checked ==
  /\ phase = "loading" /\ missing = {} /\ check = "none"
  /\ check' = "valid"
  /\ UNCHANGED <<phase, missing>>

Complete ==
  /\ phase = "loading" /\ missing = {} /\ check = "valid"
  /\ phase' = "full" /\ check' = "none"
  /\ UNCHANGED missing

\* A mismatch, a bad request or a one-way Hello: everything starts over.
Restart ==
  /\ phase' = "down" /\ missing' = {}
  /\ check' = IF check = "none" THEN "none" ELSE "stale"

\* It describes nothing: out of "down", LSAs that the exchange described before it
\* was left are missing again.
Claim ==
  /\ check = "stale"
  /\ phase' = "claimed" /\ check' = "none"
  /\ missing' \in SUBSET LSAs
  /\ phase # "down" => missing' \subseteq missing

Next == Describe \/ Store \/ Checked \/ Complete \/ Restart \/ Claim

Spec == Init /\ [][Next]_vars
=============================================================================
