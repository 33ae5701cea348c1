---------------------------- MODULE TransferService ----------------------------
(***************************************************************************)
(* What the transfer engine promises its callers: at most one live         *)
(* transfer per (expert, GPU, direction); every token settles at most once *)
(* - completed, failed or cancelled - and a cancelled token stays silent.  *)
(***************************************************************************)
EXTENDS Naturals

CONSTANTS Ids,       \* (expert, GPU, direction) triples
          MaxTokens

VARIABLES live,      \* the live token of every id, 0 when there is none
          outcome    \* what became of every token

Tokens == 1..MaxTokens

Init == /\ live = [i \in Ids |-> 0]
        /\ outcome = [t \in Tokens |-> "none"]

Issue(i, t) ==
  /\ live[i] = 0 /\ outcome[t] = "none"
  /\ live' = [live EXCEPT ![i] = t]
  /\ outcome' = [outcome EXCEPT ![t] = "live"]

Cancel(i) ==
  /\ live[i] # 0
  /\ outcome' = [outcome EXCEPT ![live[i]] = "cancelled"]
  /\ live' = [live EXCEPT ![i] = 0]

\* A batch of transfers reports, each one completed or failed.
Settle(I, Failed) ==
  /\ \A i \in I : live[i] # 0
  /\ outcome' = [t \in Tokens |->
                   IF \E i \in I : live[i] = t
                   THEN IF t \in Failed THEN "failed" ELSE "completed"
                   ELSE outcome[t]]
  /\ live' = [i \in Ids |-> IF i \in I THEN 0 ELSE live[i]]

Next == \/ \E i \in Ids, t \in Tokens : Issue(i, t)
        \/ \E i \in Ids : Cancel(i)
        \/ \E I \in SUBSET Ids, Failed \in SUBSET Tokens : Settle(I, Failed)

Spec == Init /\ [][Next]_<<live, outcome>>
================================================================================
