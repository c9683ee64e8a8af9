---------------------------- MODULE LinkSession ----------------------------
(***************************************************************************)
(* What the MQTT thread promises about its cloud link, without the calls   *)
(* behind it.  There is at most one client at a time; the link flag is set *)
(* only while that client serves, follows the outages the library reports, *)
(* and is withdrawn before the client is given up; after every failure the *)
(* thread rests before it tries again.                                     *)
(***************************************************************************)
EXTENDS Integers

VARIABLES stage, clients, online

sessionVars == <<stage, clients, online>>

Init == stage = "closed" /\ clients = 0 /\ online = FALSE

Open == stage = "closed" /\ stage' = "open" /\ clients' = 1 /\ UNCHANGED online

Refused == stage = "closed" /\ stage' = "resting" /\ UNCHANGED <<clients, online>>

Serve == stage = "open" /\ stage' = "serving" /\ online' = TRUE /\ UNCHANGED clients

\* The library loses its connection and finds it again by itself.
Outage == stage = "serving" /\ online' = ~online /\ UNCHANGED <<stage, clients>>

GiveUp ==
  /\ stage \in {"open", "serving"}
  /\ stage' = "closing" /\ online' = FALSE
  /\ UNCHANGED clients

Close == stage = "closing" /\ stage' = "resting" /\ clients' = 0 /\ UNCHANGED online

Retry == stage = "resting" /\ stage' = "closed" /\ UNCHANGED <<clients, online>>

Next == Open \/ Refused \/ Serve \/ Outage \/ GiveUp \/ Close \/ Retry

Spec == Init /\ [][Next]_sessionVars
=============================================================================
