--------------------------- MODULE LifecycleService ---------------------------
(***************************************************************************)
(* What the expert lifecycle manager promises to its clients, whatever it  *)
(* does with slots, loads and copies: a request is open until it is        *)
(* answered, once, or cancelled.                                           *)
(***************************************************************************)
CONSTANT Tokens

VARIABLE request   \* of every lifecycle token

Closed == {"ok", "failed", "cancelled"}

Init == request = [t \in Tokens |-> "none"]

Open == \E t \in Tokens :
          /\ request[t] = "none"
          /\ request' = [request EXCEPT ![t] = "open"]

\* One poll may answer several requests, some well and some badly.
Close == \E T \in SUBSET {t \in Tokens : request[t] = "open"} :
           \E how \in [T -> Closed] :
              /\ T # {}
              /\ request' = [t \in Tokens |-> IF t \in T THEN how[t] ELSE request[t]]

Spec == Init /\ [][Open \/ Close]_request

EveryRequestCloses == \A t \in Tokens : request[t] = "open" ~> request[t] \in Closed
===============================================================================
