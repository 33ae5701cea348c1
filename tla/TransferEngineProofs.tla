-------------------------- MODULE TransferEngineProofs --------------------------
(***************************************************************************)
(* Proofs about TransferEngine, for any experts, GPUs, limits and pool.    *)
(***************************************************************************)
EXTENDS TransferEngine, FiniteSetTheorems, TLAPS

LEMMA InitTransferInv == Init => TransferInv
<1> SUFFICES ASSUME Init PROVE TransferInv
  OBVIOUS
<1> USE TransferAssumption DEF Init
<1>1. sweep \in [kind : {"idle", "flush", "replenish", "force", "drain"},
                 gpus : SUBSET Gpus, prio : Nat]
  BY DEF Idle
<1>2. bins \in [Gpus -> [Bins -> Int]]
  OBVIOUS
<1>3. closed \in BOOLEAN
  OBVIOUS
<1>4. outcome \in [Tokens -> {"none", "live", "completed", "failed", "cancelled"}]
  OBVIOUS
<1>5. next_token \in 1..MaxTokens + 1 /\ inflight \in [Ids -> 0..MaxTokens]
  OBVIOUS
<1>6. TypeOK
  BY <1>1, <1>2, <1>3, <1>4, <1>5 DEF TypeOK
<1>7. TokensUnique /\ DedupExact /\ SlotsOwned /\ NoSlotLeak
  BY DEF TokensUnique, DedupExact, SlotsOwned, NoSlotLeak
<1>8. QED
  BY <1>6, <1>7 DEF TransferInv

\* Counting one more or one less in a bin keeps the type of the counters.
LEMMA BinsType ==
  ASSUME NEW f \in [Gpus -> [Bins -> Int]], NEW g \in Gpus, NEW b
  PROVE  /\ [f EXCEPT ![g][b] = @ + 1] \in [Gpus -> [Bins -> Int]]
         /\ [f EXCEPT ![g][b] = @ - 1] \in [Gpus -> [Bins -> Int]]
<1>1. f[g] \in [Bins -> Int]
  OBVIOUS
<1>2. CASE b \in Bins
  <2>1. f[g][b] + 1 \in Int /\ f[g][b] - 1 \in Int
    BY <1>1, <1>2
  <2>2. /\ [f[g] EXCEPT ![b] = @ + 1] \in [Bins -> Int]
        /\ [f[g] EXCEPT ![b] = @ - 1] \in [Bins -> Int]
    BY <1>1, <1>2, <2>1
  <2>3. QED
    BY <2>2
<1>3. CASE b \notin Bins
  <2>1. /\ [f[g] EXCEPT ![b] = @ + 1] = f[g]
        /\ [f[g] EXCEPT ![b] = @ - 1] = f[g]
    BY <1>1, <1>3
  <2>2. QED
    BY <1>1, <2>1
<1>4. QED
  BY <1>2, <1>3

\* A dispatch of a token that is in no table keeps tokens and slots apart.
LEMMA DispatchSlots ==
  ASSUME TransferInv, NEW t \in Tokens, NEW id \in Ids, NEW p \in Priorities,
         Dispatch(t, id, p)
  PROVE  /\ in_use' \subseteq Slots
         /\ dma' \subseteq [token : Tokens, slot : 0..PoolSize]
         /\ \E new \in Pending :
              /\ new.token = t /\ new.id = id /\ new.state = "live"
              /\ pending' = pending \cup {new}
         /\ SlotsOwned' /\ NoSlotLeak'
<1> USE TransferAssumption
<1>1. PICK slot \in acquire_pinned_slot(id) :
         /\ pending' = pending \cup {[token |-> t, id |-> id, prio |-> p,
                                      slot |-> slot, state |-> "live"]}
         /\ in_use' = in_use \cup ({slot} \ {0})
         /\ dma' = dma \cup {[token |-> t, slot |-> slot]}
  BY DEF Dispatch
<1>2. slot \in 0..PoolSize /\ slot \notin in_use
  BY DEF acquire_pinned_slot, Slots, TransferInv, TypeOK
<1> DEFINE new == [token |-> t, id |-> id, prio |-> p, slot |-> slot, state |-> "live"]
           copy == [token |-> t, slot |-> slot]
<1>3. /\ new \in Pending /\ new.token = t /\ new.id = id /\ new.slot = slot
      /\ new.state = "live"
  BY <1>2 DEF Pending
<1>4. copy \in [token : Tokens, slot : 0..PoolSize] /\ copy.token = t /\ copy.slot = slot
  BY <1>2
<1>5. pending' = pending \cup {new} /\ dma' = dma \cup {copy}
  BY <1>1
<1> HIDE DEF new, copy
<1>6. in_use' \subseteq Slots /\ dma' \subseteq [token : Tokens, slot : 0..PoolSize]
  BY <1>1, <1>2, <1>4, <1>5 DEF TransferInv, TypeOK, Slots
<1>7. SlotsOwned'
  BY <1>1, <1>2, <1>3, <1>4, <1>5 DEF TransferInv, SlotsOwned
<1>8. NoSlotLeak'
  BY <1>1, <1>2, <1>3, <1>5 DEF TransferInv, NoSlotLeak
<1>9. QED
  BY <1>3, <1>5, <1>6, <1>7, <1>8

\* enqueue_impl issues a fresh token; whether it is dispatched or staged, the
\* tables stay consistent.
LEMMA EnqueueInv ==
  ASSUME TransferInv, NEW id \in Ids, NEW p \in Priorities, NEW delay \in Delays,
         Enqueue(id, p, delay)
  PROVE  TransferInv'
<1> USE TransferAssumption
<1> DEFINE t == next_token
<1>1. t \in Tokens /\ t \in Nat
  BY DEF Enqueue, TransferInv, TypeOK, Tokens
<1>2. /\ inflight' = [inflight EXCEPT ![id] = t] /\ inflight[id] = 0
      /\ outcome' = [outcome EXCEPT ![t] = "live"] /\ next_token' = t + 1
      /\ UNCHANGED <<sweep, closed>>
  BY DEF Enqueue
<1>3. /\ \A st \in staged : st.token \in Tokens /\ st.token # t /\ st.token \in Nat
      /\ \A q \in pending : q.token \in Tokens /\ q.token # t /\ q.token \in Nat
      /\ \A st \in staged : st.id # id
      /\ \A q \in pending : q.state = "live" => q.id # id
  <2>1. /\ \A st \in staged : st.token \in Tokens /\ st.token < t
        /\ \A q \in pending : q.token \in Tokens /\ q.token < t
    BY DEF TransferInv, TypeOK, TokensUnique, Staged, Pending
  <2>2. QED
    BY <1>1, <1>2, <2>1 DEF TransferInv, DedupExact, Tokens
<1>4. /\ inflight' \in [Ids -> 0..MaxTokens]
      /\ outcome' \in [Tokens -> {"none", "live", "completed", "failed", "cancelled"}]
      /\ next_token' \in 1..MaxTokens + 1
  BY <1>1, <1>2 DEF TransferInv, TypeOK, Tokens
<1>5. /\ \A u \in Tokens : outcome'[u] = IF u = t THEN "live" ELSE outcome[u]
      /\ \A u \in Tokens : u \in Nat
      /\ \A u \in Tokens : u >= t => outcome[u] = "none"
  BY <1>1, <1>2 DEF TransferInv, TypeOK, TokensUnique, Tokens
<1>6. /\ \A st \in staged : st.token < t /\ outcome[st.token] = "live"
      /\ \A q \in pending : q.token < t /\ outcome[q.token] = q.state
  BY DEF TransferInv, TokensUnique
<1> HIDE DEF t
<1>7. CASE /\ Dispatch(t, id, p)
           /\ UNCHANGED <<staged, staged_token_gpu, bins>>
  <2>1. PICK new \in Pending :
           /\ new.token = t /\ new.id = id /\ new.state = "live"
           /\ pending' = pending \cup {new}
    BY <1>1, <1>7, DispatchSlots
  <2>2. /\ in_use' \subseteq Slots
        /\ dma' \subseteq [token : Tokens, slot : 0..PoolSize]
        /\ SlotsOwned' /\ NoSlotLeak'
    BY <1>1, <1>7, DispatchSlots
  <2>3. TypeOK'
    BY <1>2, <1>4, <1>7, <2>1, <2>2 DEF TransferInv, TypeOK
  <2>4. TokensUnique'
    <3>1. /\ \A r, q \in staged' : r.token = q.token => r = q
          /\ \A r, q \in pending' : r.token = q.token => r = q
          /\ \A st \in staged', q \in pending' : st.token # q.token
      BY <1>3, <1>7, <2>1 DEF TransferInv, TokensUnique
    <3>2. /\ \A st \in staged' : st.token < next_token' /\ outcome'[st.token] = "live"
          /\ \A q \in pending' : q.token < next_token' /\ outcome'[q.token] = q.state
      BY <1>1, <1>2, <1>3, <1>7, <1>5, <1>6, <2>1
    <3>3. \A u \in Tokens : u >= next_token' => outcome'[u] = "none"
      BY <1>1, <1>2, <1>5
    <3>4. QED
      BY <3>1, <3>2, <3>3 DEF TokensUnique
  <2>5. DedupExact'
    BY <1>1, <1>2, <1>3, <1>7, <2>1 DEF TransferInv, TypeOK, DedupExact
  <2>6. QED
    BY <2>2, <2>3, <2>4, <2>5 DEF TransferInv
<1>8. CASE /\ staged' = staged \cup
                {[token |-> t, id |-> id, prio |-> p, delay |-> delay]}
           /\ staged_token_gpu' = staged_token_gpu \cup {t}
           /\ bins' = [bins EXCEPT ![id.gpu][bin_for(p)] = @ + 1]
           /\ UNCHANGED <<pending, in_use, dma>>
  <2> DEFINE new == [token |-> t, id |-> id, prio |-> p, delay |-> delay]
  <2>1. new \in Staged /\ new.token = t /\ new.id = id
    BY <1>1 DEF Staged
  <2>2. staged' = staged \cup {new}
    BY <1>8
  <2> HIDE DEF new
  <2>3. bins' \in [Gpus -> [Bins -> Int]]
    <3>1. bins \in [Gpus -> [Bins -> Int]] /\ id.gpu \in Gpus
      BY DEF TransferInv, TypeOK, Ids
    <3>2. QED
      BY <1>8, <3>1, BinsType
  <2>4. TypeOK'
    BY <1>1, <1>2, <1>4, <1>8, <2>1, <2>2, <2>3 DEF TransferInv, TypeOK
  <2>5. TokensUnique'
    <3>1. /\ \A r, q \in staged' : r.token = q.token => r = q
          /\ \A r, q \in pending' : r.token = q.token => r = q
          /\ \A st \in staged', q \in pending' : st.token # q.token
      BY <1>3, <1>8, <2>1, <2>2 DEF TransferInv, TokensUnique
    <3>2. /\ \A st \in staged' : st.token < next_token' /\ outcome'[st.token] = "live"
          /\ \A q \in pending' : q.token < next_token' /\ outcome'[q.token] = q.state
      BY <1>1, <1>2, <1>3, <1>8, <1>5, <1>6, <2>1, <2>2
    <3>3. \A u \in Tokens : u >= next_token' => outcome'[u] = "none"
      BY <1>1, <1>2, <1>5
    <3>4. QED
      BY <3>1, <3>2, <3>3 DEF TokensUnique
  <2>6. DedupExact'
    BY <1>1, <1>2, <1>3, <1>8, <2>1, <2>2 DEF TransferInv, TypeOK, DedupExact
  <2>7. SlotsOwned' /\ NoSlotLeak'
    BY <1>8 DEF TransferInv, SlotsOwned, NoSlotLeak
  <2>8. QED
    BY <2>4, <2>5, <2>6, <2>7 DEF TransferInv
<1>9. QED
  BY <1>7, <1>8 DEF Enqueue, t

\* dispatch_staged moves one transfer from the queue to the table.
LEMMA SweepDispatchInv == TransferInv /\ SweepDispatch => TransferInv'
<1> SUFFICES ASSUME TransferInv, SweepDispatch PROVE TransferInv'
  OBVIOUS
<1> USE TransferAssumption
<1>1. PICK st \in staged :
         /\ st.id.gpu = SweepGpu
         /\ Dispatch(st.token, st.id, st.prio)
         /\ staged' = staged \ {st}
         /\ staged_token_gpu' = staged_token_gpu \ {st.token}
         /\ bins' = [bins EXCEPT ![SweepGpu][bin_for(st.prio)] = @ - 1]
  BY DEF SweepDispatch, Top
<1>2. UNCHANGED <<next_token, inflight, sweep, closed, outcome>>
  BY DEF SweepDispatch
<1>3. st.token \in Tokens /\ st.id \in Ids /\ st.prio \in Priorities /\ st.id.gpu \in Gpus
  BY DEF TransferInv, TypeOK, Staged, Ids
<1>4. PICK new \in Pending :
         /\ new.token = st.token /\ new.id = st.id /\ new.state = "live"
         /\ pending' = pending \cup {new}
  BY <1>1, <1>3, DispatchSlots
<1>5. /\ in_use' \subseteq Slots
      /\ dma' \subseteq [token : Tokens, slot : 0..PoolSize]
      /\ SlotsOwned' /\ NoSlotLeak'
  BY <1>1, <1>3, DispatchSlots
<1>6. bins' \in [Gpus -> [Bins -> Int]]
  BY <1>1, <1>3, BinsType DEF TransferInv, TypeOK
<1>7. TypeOK'
  BY <1>1, <1>2, <1>4, <1>5, <1>6 DEF TransferInv, TypeOK
<1>8. TokensUnique'
  BY <1>1, <1>2, <1>4 DEF TransferInv, TokensUnique
<1>9. DedupExact'
  BY <1>1, <1>2, <1>4 DEF TransferInv, DedupExact
<1>10. QED
  BY <1>5, <1>7, <1>8, <1>9 DEF TransferInv

\* poll_completions: what leaves the table leaves the dedup map and the pool.
LEMMA PollInv ==
  ASSUME TransferInv, NEW D \in SUBSET Ready, NEW Failed, poll_completions(D, Failed)
  PROVE  TransferInv'
<1> USE TransferAssumption
<1> DEFINE Live == {p \in D : p.state = "live"}
<1>1. /\ pending' = pending \ D
      /\ in_use' = in_use \ {p.slot : p \in D}
      /\ inflight' = [i \in Ids |-> IF \E p \in Live : p.id = i THEN 0 ELSE inflight[i]]
      /\ outcome' = [t \in Tokens |->
                        IF \E p \in Live : p.token = t
                        THEN IF t \in Failed THEN "failed" ELSE "completed"
                        ELSE outcome[t]]
      /\ UNCHANGED <<next_token, staged, staged_token_gpu, bins, closed, dma>>
  BY DEF poll_completions
<1>2. D \subseteq pending /\ \A p \in D : \A d \in dma : d.token # p.token
  BY DEF Ready
<1>3. \A p \in pending : p \in Pending /\ p.token \in Tokens /\ p.id \in Ids
  BY DEF TransferInv, TypeOK, Pending
<1>4. \A st \in staged : st.token \in Tokens /\ st.id \in Ids
  BY DEF TransferInv, TypeOK, Staged
<1>5. sweep' \in [kind : {"idle", "flush", "replenish", "force", "drain"},
                  gpus : SUBSET Gpus, prio : Nat]
  <2>1. {p.id.gpu : p \in Live} \subseteq Gpus
    BY <1>2, <1>3 DEF Ids
  <2>2. sweep' = Idle \/ sweep' = [kind |-> "replenish",
                                  gpus |-> {p.id.gpu : p \in Live}, prio |-> 0]
    BY DEF poll_completions, StartSweep
  <2>3. QED
    BY <2>1, <2>2 DEF Idle
<1>6. TypeOK'
  <2>1. /\ inflight' \in [Ids -> 0..MaxTokens]
        /\ outcome' \in [Tokens -> {"none", "live", "completed", "failed", "cancelled"}]
    BY <1>1 DEF TransferInv, TypeOK
  <2>2. QED
    BY <1>1, <1>5, <2>1 DEF TransferInv, TypeOK
<1>7. TokensUnique'
  <2>1. \A st \in staged : outcome'[st.token] = outcome[st.token]
    BY <1>1, <1>2, <1>4 DEF TransferInv, TokensUnique
  <2>2. \A p \in pending' : outcome'[p.token] = outcome[p.token]
    BY <1>1, <1>2, <1>3 DEF TransferInv, TokensUnique
  <2>3. \A t \in Tokens : t >= next_token => outcome'[t] = outcome[t]
    <3> SUFFICES ASSUME NEW t \in Tokens, t >= next_token
                 PROVE  outcome'[t] = outcome[t]
      OBVIOUS
    <3>1. \A p \in Live : p.token # t
      BY <1>2, <1>3 DEF TransferInv, TypeOK, TokensUnique, Tokens
    <3>2. QED
      BY <1>1, <3>1
  <2>4. QED
    BY <1>1, <2>1, <2>2, <2>3 DEF TransferInv, TokensUnique
<1>8. DedupExact'
  <2>1. \A st \in staged : \A p \in Live : p.id # st.id
    BY <1>2 DEF TransferInv, DedupExact, TokensUnique
  <2>2. \A q \in pending' : q.state = "live" => \A p \in Live : p.id # q.id
    BY <1>1, <1>2 DEF TransferInv, DedupExact, TokensUnique
  <2>3. \A st \in staged' : inflight'[st.id] = st.token
    BY <1>1, <1>4, <2>1 DEF TransferInv, DedupExact
  <2>4. \A q \in pending' : q.state = "live" => inflight'[q.id] = q.token
    BY <1>1, <1>3, <2>2 DEF TransferInv, DedupExact
  <2>5. ASSUME NEW i \in Ids, inflight'[i] # 0
        PROVE  \/ \E st \in staged' : st.id = i /\ st.token = inflight'[i]
               \/ \E q \in pending' : q.id = i /\ q.token = inflight'[i] /\ q.state = "live"
    <3>1. inflight'[i] = inflight[i] /\ \A p \in Live : p.id # i
      BY <1>1, <2>5
    <3>2. \A q \in pending : q.id = i /\ q.state = "live" => q \in pending'
      BY <1>1, <3>1
    <3>3. QED
      BY <1>1, <2>5, <3>1, <3>2 DEF TransferInv, DedupExact
  <2>6. QED
    BY <2>3, <2>4, <2>5 DEF DedupExact
<1>9. SlotsOwned'
  BY <1>1, <1>2 DEF TransferInv, SlotsOwned
<1>10. NoSlotLeak'
  BY <1>1, <1>2 DEF TransferInv, NoSlotLeak
<1>11. QED
  BY <1>6, <1>7, <1>8, <1>9, <1>10 DEF TransferInv

\* cancel of a transfer that is still staged.
LEMMA CancelStagedInv ==
  ASSUME TransferInv, NEW st \in staged, CancelStaged(st)
  PROVE  TransferInv'
<1> USE TransferAssumption
<1>1. st.token \in Tokens /\ st.id \in Ids /\ st.id.gpu \in Gpus
  BY DEF TransferInv, TypeOK, Staged, Ids
<1>2. /\ \A r \in staged : r.token \in Tokens /\ r.id \in Ids
      /\ \A q \in pending : q.token \in Tokens /\ q.id \in Ids
  BY DEF TransferInv, TypeOK, Staged, Pending
<1>3. bins' \in [Gpus -> [Bins -> Int]]
  BY <1>1, BinsType DEF CancelStaged, TransferInv, TypeOK
<1>4. TypeOK'
  BY <1>1, <1>3 DEF CancelStaged, TransferInv, TypeOK
<1>5. TokensUnique'
  <2>1. \A t \in Tokens : t # st.token => outcome'[t] = outcome[t]
    BY <1>1 DEF CancelStaged, TransferInv, TypeOK
  <2>2. st.token < next_token /\ st.token \in Nat /\ next_token \in Nat
    BY <1>1 DEF TransferInv, TypeOK, TokensUnique, Tokens
  <2>3. QED
    BY <1>1, <1>2, <2>1, <2>2 DEF CancelStaged, TransferInv, TokensUnique, Tokens
<1>6. DedupExact'
  <2>1. /\ \A r \in staged' : r.id # st.id
        /\ \A q \in pending : q.state = "live" => q.id # st.id
    BY DEF CancelStaged, TransferInv, TokensUnique, DedupExact
  <2>2. \A i \in Ids : inflight'[i] = IF i = st.id THEN 0 ELSE inflight[i]
    BY <1>1 DEF CancelStaged, TransferInv, TypeOK
  <2>3. QED
    BY <1>1, <1>2, <2>1, <2>2 DEF CancelStaged, TransferInv, DedupExact
<1>7. SlotsOwned' /\ NoSlotLeak'
  BY DEF CancelStaged, TransferInv, SlotsOwned, NoSlotLeak
<1>8. QED
  BY <1>4, <1>5, <1>6, <1>7 DEF TransferInv

\* cancel of a transfer whose copy is running: only the mark and the dedup map
\* change, the slot stays with the entry.
LEMMA CancelDispatchedInv ==
  ASSUME TransferInv, NEW p \in pending, CancelDispatched(p)
  PROVE  TransferInv'
<1> USE TransferAssumption
<1> DEFINE new == [p EXCEPT !.state = "cancelled"]
<1>1. /\ p \in Pending /\ p.token \in Tokens /\ p.id \in Ids
      /\ new \in Pending /\ new.token = p.token /\ new.id = p.id /\ new.slot = p.slot
      /\ new.state = "cancelled" /\ p.state = "live"
  BY DEF CancelDispatched, TransferInv, TypeOK, Pending
<1>2. /\ pending' = (pending \ {p}) \cup {new}
      /\ inflight' = [inflight EXCEPT ![p.id] = 0]
      /\ outcome' = [outcome EXCEPT ![p.token] = "cancelled"]
      /\ UNCHANGED <<next_token, staged, staged_token_gpu, bins, in_use, sweep, closed, dma>>
  BY DEF CancelDispatched
<1> HIDE DEF new
<1>3. /\ \A r \in staged : r.token \in Tokens /\ r.id \in Ids
      /\ \A q \in pending : q.token \in Tokens /\ q.id \in Ids
  BY DEF TransferInv, TypeOK, Staged, Pending
<1>4. TypeOK'
  BY <1>1, <1>2 DEF TransferInv, TypeOK
<1>5. TokensUnique'
  <2>1. \A t \in Tokens : outcome'[t] = IF t = p.token THEN "cancelled" ELSE outcome[t]
    BY <1>1, <1>2 DEF TransferInv, TypeOK
  <2>2. p.token < next_token /\ p.token \in Nat /\ next_token \in Nat
    BY <1>1 DEF TransferInv, TypeOK, TokensUnique, Tokens
  <2>3. /\ \A r, q \in staged' : r.token = q.token => r = q
        /\ \A r, q \in pending' : r.token = q.token => r = q
        /\ \A st \in staged', q \in pending' : st.token # q.token
    BY <1>1, <1>2 DEF TransferInv, TokensUnique
  <2>4. \A st \in staged' : st.token < next_token' /\ outcome'[st.token] = "live"
    BY <1>1, <1>2, <1>3, <2>1 DEF TransferInv, TokensUnique
  <2>5. \A q \in pending' : q.token < next_token' /\ outcome'[q.token] = q.state
    BY <1>1, <1>2, <1>3, <2>1 DEF TransferInv, TokensUnique
  <2>6. \A t \in Tokens : t >= next_token' => outcome'[t] = "none"
    BY <1>2, <2>1, <2>2 DEF TransferInv, TokensUnique, Tokens
  <2>7. QED
    BY <2>3, <2>4, <2>5, <2>6 DEF TokensUnique
<1>6. DedupExact'
  <2>1. /\ \A r \in staged : r.id # p.id
        /\ \A q \in pending \ {p} : q.state = "live" => q.id # p.id
    BY <1>1 DEF TransferInv, TokensUnique, DedupExact
  <2>2. \A i \in Ids : inflight'[i] = IF i = p.id THEN 0 ELSE inflight[i]
    BY <1>1, <1>2 DEF TransferInv, TypeOK
  <2>3. \A r \in staged' : inflight'[r.id] = r.token
    BY <1>2, <1>3, <2>1, <2>2 DEF TransferInv, DedupExact
  <2>4. \A q \in pending' : q.state = "live" => inflight'[q.id] = q.token
    BY <1>1, <1>2, <1>3, <2>1, <2>2 DEF TransferInv, DedupExact
  <2>5. \A i \in Ids : inflight'[i] # 0 =>
           \/ \E st \in staged' : st.id = i /\ st.token = inflight'[i]
           \/ \E q \in pending' : q.id = i /\ q.token = inflight'[i] /\ q.state = "live"
    BY <1>1, <1>2, <2>2 DEF TransferInv, DedupExact
  <2>6. QED
    BY <2>3, <2>4, <2>5 DEF DedupExact
<1>7. SlotsOwned' /\ NoSlotLeak'
  BY <1>1, <1>2 DEF TransferInv, SlotsOwned, NoSlotLeak
<1>8. QED
  BY <1>4, <1>5, <1>6, <1>7 DEF TransferInv

\* A staged transfer may change its priority or its delay, nothing else.
LEMMA RestagedInv ==
  ASSUME TransferInv, NEW st \in staged, NEW new \in Staged,
         new.token = st.token, new.id = st.id,
         staged' = (staged \ {st}) \cup {new},
         bins' \in [Gpus -> [Bins -> Int]],
         UNCHANGED <<next_token, inflight, staged_token_gpu, pending, in_use, sweep,
                     closed, dma, outcome>>
  PROVE  TransferInv'
<1>1. TypeOK'
  BY DEF TransferInv, TypeOK
<1>2. TokensUnique'
  BY DEF TransferInv, TokensUnique
<1>3. DedupExact'
  BY DEF TransferInv, DedupExact
<1>4. SlotsOwned' /\ NoSlotLeak'
  BY DEF TransferInv, SlotsOwned, NoSlotLeak
<1>5. QED
  BY <1>1, <1>2, <1>3, <1>4 DEF TransferInv

LEMMA ReprioritizeInv ==
  ASSUME TransferInv, NEW st \in staged, NEW p \in Priorities, reprioritize(st, p)
  PROVE  TransferInv'
<1> DEFINE new == [st EXCEPT !.prio = p]
<1>1. new \in Staged /\ new.token = st.token /\ new.id = st.id
  BY DEF TransferInv, TypeOK, Staged
<1>2. staged' = (staged \ {st}) \cup {new}
  BY DEF reprioritize
<1>3. bins' \in [Gpus -> [Bins -> Int]]
  <2> DEFINE row == [b \in Bins |-> bins[st.id.gpu][b]
                                     - (IF b = bin_for(st.prio) THEN 1 ELSE 0)
                                     + (IF b = bin_for(p) THEN 1 ELSE 0)]
  <2>1. st.id.gpu \in Gpus /\ bins \in [Gpus -> [Bins -> Int]]
    BY DEF TransferInv, TypeOK, Staged, Ids
  <2>2. row \in [Bins -> Int]
    BY <2>1
  <2>3. bins' = [bins EXCEPT ![st.id.gpu] = row]
    BY DEF reprioritize
  <2> HIDE DEF row
  <2>4. QED
    BY <2>1, <2>2, <2>3
<1>4. UNCHANGED <<next_token, inflight, staged_token_gpu, pending, in_use, sweep,
                  closed, dma, outcome>>
  BY DEF reprioritize
<1> HIDE DEF new
<1>5. QED
  BY <1>1, <1>2, <1>3, <1>4, RestagedInv

LEMMA DelayElapsesInv ==
  ASSUME TransferInv, NEW st \in staged, DelayElapses(st)
  PROVE  TransferInv'
<1> DEFINE new == [st EXCEPT !.delay = "elapsed"]
<1>1. new \in Staged /\ new.token = st.token /\ new.id = st.id
  BY DEF TransferInv, TypeOK, Staged, Delays
<1>2. /\ staged' = (staged \ {st}) \cup {new}
      /\ bins' \in [Gpus -> [Bins -> Int]]
      /\ UNCHANGED <<next_token, inflight, staged_token_gpu, pending, in_use, sweep,
                     closed, dma, outcome>>
  BY DEF DelayElapses, TransferInv, TypeOK
<1> HIDE DEF new
<1>3. QED
  BY <1>1, <1>2, RestagedInv

\* Steps that only move the sweep, the GPUs or nothing.
LEMMA QuietInv ==
  ASSUME TransferInv,
         UNCHANGED <<next_token, inflight, staged, staged_token_gpu, bins, pending,
                     in_use, outcome>>,
         dma' \subseteq dma,
         closed' \in BOOLEAN,
         sweep' \in [kind : {"idle", "flush", "replenish", "force", "drain"},
                     gpus : SUBSET Gpus, prio : Nat]
  PROVE  TransferInv'
<1>1. TypeOK'
  BY DEF TransferInv, TypeOK
<1>2. QED
  BY <1>1 DEF TransferInv, TokensUnique, DedupExact, SlotsOwned, NoSlotLeak

LEMMA SweepType ==
  ASSUME NEW kind \in {"flush", "replenish", "force", "drain"},
         NEW gpus \in SUBSET Gpus, NEW p \in Nat, StartSweep(kind, gpus, p)
  PROVE  sweep' \in [kind : {"idle", "flush", "replenish", "force", "drain"},
                     gpus : SUBSET Gpus, prio : Nat]
<1>1. sweep' = Idle \/ sweep' = [kind |-> kind, gpus |-> gpus, prio |-> p]
  BY DEF StartSweep
<1>2. QED
  BY <1>1 DEF Idle

LEMMA NextTransferInv == TransferInv /\ [Next]_vars => TransferInv'
<1> SUFFICES ASSUME TransferInv, [Next]_vars PROVE TransferInv'
  OBVIOUS
<1> USE TransferAssumption
<1>1. CASE flush_staged
  <2>1. StartSweep("flush", Gpus, 0)
    BY <1>1 DEF flush_staged
  <2>2. QED
    BY <1>1, <2>1, SweepType, QuietInv DEF flush_staged, TransferInv, TypeOK
<1>2. ASSUME NEW g \in Gpus, NEW p \in Priorities, dispatch_staged_at_least(g, p)
      PROVE  TransferInv'
  <2>1. StartSweep("force", {g}, p) /\ {g} \in SUBSET Gpus /\ p \in Nat
    BY <1>2 DEF dispatch_staged_at_least
  <2>2. QED
    BY <1>2, <2>1, SweepType, QuietInv DEF dispatch_staged_at_least, TransferInv, TypeOK
<1>3. CASE drain
  <2>1. StartSweep("drain", Gpus, 0)
    BY <1>3 DEF drain
  <2>2. QED
    BY <1>3, <2>1, SweepType, QuietInv DEF drain, TransferInv, TypeOK
<1>4. CASE SweepGpuDone
  <2>1. /\ StartSweep(sweep.kind, sweep.gpus \ {SweepGpu}, sweep.prio)
        /\ sweep.gpus \ {SweepGpu} \in SUBSET Gpus /\ sweep.prio \in Nat
        /\ sweep.kind \in {"idle", "flush", "replenish", "force", "drain"}
    BY <1>4 DEF SweepGpuDone, TransferInv, TypeOK
  <2>2. sweep' \in [kind : {"idle", "flush", "replenish", "force", "drain"},
                    gpus : SUBSET Gpus, prio : Nat]
    <3>1. sweep' = Idle \/ sweep' = [kind |-> sweep.kind,
                                    gpus |-> sweep.gpus \ {SweepGpu}, prio |-> sweep.prio]
      BY <2>1 DEF StartSweep
    <3>2. QED
      BY <2>1, <3>1 DEF Idle
  <2>3. QED
    BY <1>4, <2>2, QuietInv DEF SweepGpuDone, TransferInv, TypeOK
<1>5. CASE Poll
  BY <1>5, PollInv DEF Poll
<1>6. ASSUME NEW d \in dma, DmaFinishes(d) PROVE TransferInv'
  BY <1>6, QuietInv DEF DmaFinishes, TransferInv, TypeOK
<1>7. CASE UNCHANGED vars
  BY <1>7, QuietInv DEF vars, TransferInv, TypeOK
<1>8. CASE Stopped
  BY <1>7, <1>8 DEF Stopped
<1>9. QED
  BY <1>1, <1>2, <1>3, <1>4, <1>5, <1>6, <1>7, <1>8, EnqueueInv, SweepDispatchInv,
     CancelStagedInv, CancelDispatchedInv, ReprioritizeInv, DelayElapsesInv DEF Next

\* The inductive invariant holds in every reachable state.
THEOREM TransferInvariant == Spec => []TransferInv
<1>1. Init => TransferInv
  BY InitTransferInv
<1>2. TransferInv /\ [Next]_vars => TransferInv'
  BY NextTransferInv
<1>3. QED
  BY <1>1, <1>2, PTL DEF Spec

\* No running copy, cancelled or not, ever shares its staging slot or loses it.
THEOREM StagingSlotSafety == Spec => []StagingSlotExclusive
<1>1. TransferInv => StagingSlotExclusive
  <2> SUFFICES ASSUME TransferInv, NEW d \in dma, d.slot # 0
               PROVE  /\ d.slot \in in_use
                      /\ \A e \in dma : e.slot = d.slot => e = d
    BY DEF StagingSlotExclusive
  <2>1. PICK p \in pending : p.token = d.token /\ p.slot = d.slot
    BY DEF TransferInv, SlotsOwned
  <2>2. ASSUME NEW e \in dma, e.slot = d.slot PROVE e = d
    <3>1. PICK q \in pending : q.token = e.token /\ q.slot = e.slot
      BY DEF TransferInv, SlotsOwned
    <3>2. e.token = d.token
      BY <2>1, <2>2, <3>1 DEF TransferInv, SlotsOwned
    <3>3. /\ d \in [token : Tokens, slot : 0..PoolSize]
          /\ e \in [token : Tokens, slot : 0..PoolSize]
      BY DEF TransferInv, TypeOK
    <3>4. QED
      BY <2>2, <3>2, <3>3
  <2>3. QED
    BY <2>1, <2>2 DEF TransferInv, SlotsOwned
<1>2. QED
  BY <1>1, TransferInvariant, PTL

\* The dedup map always describes the live transfers exactly.
THEOREM DedupExactness == Spec => []DedupExact
<1>1. TransferInv => DedupExact
  BY DEF TransferInv
<1>2. QED
  BY <1>1, TransferInvariant, PTL

-------------------------------------------------------------------------------
(* The engine implements the transfer service.                             *)

LEMMA ServiceStep ==
  ASSUME TransferInv, TransferInv', [Next]_vars
  PROVE  [Service!Next]_<<inflight, outcome>>
<1> USE TransferAssumption
<1> DEFINE Same == UNCHANGED <<inflight, outcome>>
<1>1. ASSUME NEW id \in Ids, NEW p \in Priorities, NEW delay \in Delays,
             Enqueue(id, p, delay)
      PROVE  Service!Next
  <2>1. next_token \in Tokens /\ next_token >= next_token
    BY <1>1 DEF Enqueue, TransferInv, TypeOK, Tokens
  <2>2. Service!Issue(id, next_token)
    BY <1>1, <2>1 DEF Enqueue, Service!Issue, TransferInv, TokensUnique
  <2>3. QED
    BY <2>1, <2>2 DEF Service!Next, Service!Tokens, Tokens
<1>2. ASSUME NEW st \in staged, CancelStaged(st) PROVE Service!Next
  <2>1. st.id \in Ids /\ inflight[st.id] = st.token /\ st.token # 0
    BY DEF TransferInv, TypeOK, Staged, DedupExact, Tokens
  <2>2. Service!Cancel(st.id)
    BY <1>2, <2>1 DEF CancelStaged, Service!Cancel
  <2>3. QED
    BY <2>1, <2>2 DEF Service!Next
<1>3. ASSUME NEW p \in pending, CancelDispatched(p) PROVE Service!Next
  <2>1. p.id \in Ids /\ inflight[p.id] = p.token /\ p.token # 0
    BY <1>3 DEF CancelDispatched, TransferInv, TypeOK, Pending, DedupExact, Tokens
  <2>2. Service!Cancel(p.id)
    BY <1>3, <2>1 DEF CancelDispatched, Service!Cancel
  <2>3. QED
    BY <2>1, <2>2 DEF Service!Next
<1>4. ASSUME NEW D \in SUBSET Ready, NEW Failed \in SUBSET {p.token : p \in D},
             poll_completions(D, Failed)
      PROVE  Service!Next
  <2> DEFINE Live == {p \in D : p.state = "live"}
             I == {p.id : p \in Live}
  <2>1. \A p \in Live : /\ p.id \in Ids /\ p.token \in Tokens
                        /\ inflight[p.id] = p.token /\ p.token # 0
    BY DEF Ready, TransferInv, TypeOK, Pending, DedupExact, Tokens
  <2>2. \A t \in Tokens : (\E i \in I : inflight[i] = t) <=> (\E p \in Live : p.token = t)
    BY <2>1
  <2>3. \A i \in Ids : i \in I <=> \E p \in Live : p.id = i
    OBVIOUS
  <2>4. Failed \in SUBSET Tokens /\ I \in SUBSET Ids
    BY <2>1 DEF Ready, TransferInv, TypeOK, Pending
  <2>5. outcome' = [t \in Tokens |->
                      IF \E i \in I : inflight[i] = t
                      THEN IF t \in Failed THEN "failed" ELSE "completed"
                      ELSE outcome[t]]
    BY <1>4, <2>2 DEF poll_completions
  <2>6. inflight' = [i \in Ids |-> IF i \in I THEN 0 ELSE inflight[i]]
    BY <1>4, <2>3 DEF poll_completions
  <2>7. \A i \in I : inflight[i] # 0
    BY <2>1
  <2> HIDE DEF I
  <2>8. Service!Settle(I, Failed)
    BY <2>5, <2>6, <2>7 DEF Service!Settle, Service!Tokens, Tokens
  <2>9. QED
    BY <2>4, <2>8 DEF Service!Next, Service!Tokens, Tokens
<1>5. CASE flush_staged \/ drain \/ SweepDispatch \/ SweepGpuDone \/ Stopped
  BY <1>5 DEF flush_staged, drain, SweepDispatch, SweepGpuDone, Stopped, vars
<1>6. ASSUME NEW g \in Gpus, NEW p \in Priorities, dispatch_staged_at_least(g, p)
      PROVE  Same
  BY <1>6 DEF dispatch_staged_at_least
<1>7. ASSUME NEW st \in staged, NEW p \in Priorities, reprioritize(st, p) PROVE Same
  BY <1>7 DEF reprioritize
<1>8. ASSUME NEW d \in dma, DmaFinishes(d) PROVE Same
  BY <1>8 DEF DmaFinishes
<1>9. ASSUME NEW st \in staged, DelayElapses(st) PROVE Same
  BY <1>9 DEF DelayElapses
<1>10. CASE UNCHANGED vars
  BY <1>10 DEF vars
<1>11. QED
  BY <1>1, <1>2, <1>3, <1>4, <1>5, <1>6, <1>7, <1>8, <1>9, <1>10 DEF Next, Poll

\* The engine keeps the promises of TransferService for every instance.
THEOREM EngineIsTransferService == Spec => IsTransferService
<1>1. Init => Service!Init
  BY DEF Init, Service!Init, Service!Tokens, Tokens
<1>2. TransferInv /\ TransferInv' /\ [Next]_vars => [Service!Next]_<<inflight, outcome>>
  BY ServiceStep
<1>3. QED
  BY <1>1, <1>2, TransferInvariant, PTL DEF Spec, IsTransferService, Service!Spec

-------------------------------------------------------------------------------
(* The index and the counters kept beside the queues.                      *)

InBin(S, g, b) == {st \in S : st.id.gpu = g /\ bin_for(st.prio) = b}

\* What a transfer of GPU h and priority p adds to the counter of bin b of GPU g.
One(h, p, g, b) == IF h = g /\ bin_for(p) = b THEN 1 ELSE 0

\* What the counters say is inductive together with the queues being finite.
IndexInv == IsFiniteSet(staged) /\ StagedIndexExact

\* A priority falls into one of the bins.
LEMMA BinForType == \A p : bin_for(p) \in Bins
<1> TAKE p
<1> DEFINE T == {t \in Thresholds : t <= p}
<1>1. T \in SUBSET Thresholds /\ IsFiniteSet(Thresholds)
  BY TransferAssumption
<1>2. Cardinality(T) <= Cardinality(Thresholds) /\ IsFiniteSet(T)
  BY <1>1, FS_Subset
<1>3. Cardinality(T) \in Nat /\ Cardinality(Thresholds) \in Nat
  BY <1>1, <1>2, FS_CardinalityType
<1>4. QED
  BY <1>2, <1>3 DEF bin_for, Bins

\* One more transfer in the queues is one more in its own bin.
LEMMA BinAdd ==
  ASSUME NEW S, IsFiniteSet(S), NEW x, x \notin S, NEW g, NEW b
  PROVE  Cardinality(InBin(S \cup {x}, g, b)) =
           Cardinality(InBin(S, g, b)) +
             One(x.id.gpu, x.prio, g, b)
<1>1. InBin(S, g, b) \in SUBSET S
  BY DEF InBin
<1>2. IsFiniteSet(InBin(S, g, b)) /\ Cardinality(InBin(S, g, b)) \in Nat
  BY <1>1, FS_Subset, FS_CardinalityType
<1>3. CASE x.id.gpu = g /\ bin_for(x.prio) = b
  <2>1. InBin(S \cup {x}, g, b) = InBin(S, g, b) \cup {x} /\ x \notin InBin(S, g, b)
    BY <1>1, <1>3 DEF InBin
  <2>2. Cardinality(InBin(S, g, b) \cup {x}) = Cardinality(InBin(S, g, b)) + 1
    BY <1>2, <2>1, FS_AddElement
  <2>3. One(x.id.gpu, x.prio, g, b) = 1
    BY <1>3 DEF One
  <2>4. QED
    BY <2>1, <2>2, <2>3
<1>4. CASE ~(x.id.gpu = g /\ bin_for(x.prio) = b)
  <2>1. InBin(S \cup {x}, g, b) = InBin(S, g, b)
    BY <1>4 DEF InBin
  <2>2. One(x.id.gpu, x.prio, g, b) = 0
    BY <1>4 DEF One
  <2>3. QED
    BY <1>2, <2>1, <2>2
<1>5. QED
  BY <1>3, <1>4

\* And one less is one less.
LEMMA BinRemove ==
  ASSUME NEW S, IsFiniteSet(S), NEW x, x \in S, NEW g, NEW b
  PROVE  Cardinality(InBin(S \ {x}, g, b)) =
           Cardinality(InBin(S, g, b)) - One(x.id.gpu, x.prio, g, b)
<1>1. IsFiniteSet(S \ {x}) /\ x \notin S \ {x} /\ (S \ {x}) \cup {x} = S
  BY FS_RemoveElement
<1>2. Cardinality(InBin((S \ {x}) \cup {x}, g, b)) =
        Cardinality(InBin(S \ {x}, g, b)) + One(x.id.gpu, x.prio, g, b)
  BY <1>1, BinAdd
<1>3. InBin(S \ {x}, g, b) \in SUBSET (S \ {x})
  BY DEF InBin
<1>4. Cardinality(InBin(S \ {x}, g, b)) \in Nat
  BY <1>1, <1>3, FS_Subset, FS_CardinalityType
<1>5. One(x.id.gpu, x.prio, g, b) \in {0, 1}
  BY DEF One
<1> DEFINE less == Cardinality(InBin(S \ {x}, g, b))
           one == One(x.id.gpu, x.prio, g, b)
<1>6. Cardinality(InBin(S, g, b)) = less + one
  BY <1>1, <1>2
<1>7. less \in Nat /\ one \in {0, 1}
  BY <1>4, <1>5
<1> HIDE DEF less, one
<1>8. less = Cardinality(InBin(S, g, b)) - one
  BY <1>6, <1>7
<1>9. QED
  BY <1>8 DEF less, one

\* What one count more or less does to the counters.
LEMMA BinsStep ==
  ASSUME NEW f \in [Gpus -> [Bins -> Int]], NEW h \in Gpus, NEW p,
         NEW g \in Gpus, NEW b \in Bins
  PROVE  /\ [f EXCEPT ![h][bin_for(p)] = @ + 1][g][b] = f[g][b] + One(h, p, g, b)
         /\ [f EXCEPT ![h][bin_for(p)] = @ - 1][g][b] = f[g][b] - One(h, p, g, b)
<1>1. f[g][b] \in Int /\ f[h] \in [Bins -> Int] /\ bin_for(p) \in Bins
  BY BinForType
<1>2. CASE h = g
  BY <1>1, <1>2 DEF One
<1>3. CASE h # g
  BY <1>1, <1>3 DEF One
<1>4. QED
  BY <1>2, <1>3

\* The parts of the invariant, with the counters as functions of the queues.
LEMMA IndexParts ==
  IndexInv <=> /\ IsFiniteSet(staged) /\ staged_token_gpu = {st.token : st \in staged}
               /\ \A g \in Gpus, b \in Bins : bins[g][b] = Cardinality(InBin(staged, g, b))
BY DEF IndexInv, StagedIndexExact, InBin

LEMMA NextIndexParts ==
  /\ IsFiniteSet(staged') /\ staged_token_gpu' = {st.token : st \in staged'}
  /\ \A g \in Gpus, b \in Bins : bins'[g][b] = Cardinality(InBin(staged', g, b))
  => IndexInv'
BY DEF IndexInv, StagedIndexExact, InBin

\* A transfer leaves the queues: dispatch_staged, or the cancel of a staged one.
LEMMA UnstagedIndex ==
  ASSUME TransferInv, IndexInv, NEW st \in staged, staged' = staged \ {st},
         staged_token_gpu' = staged_token_gpu \ {st.token},
         bins' = [bins EXCEPT ![st.id.gpu][bin_for(st.prio)] = @ - 1]
  PROVE  IndexInv'
<1>1. /\ IsFiniteSet(staged) /\ staged_token_gpu = {s.token : s \in staged}
      /\ \A g \in Gpus, b \in Bins : bins[g][b] = Cardinality(InBin(staged, g, b))
  BY IndexParts
<1>2. st.id.gpu \in Gpus /\ bins \in [Gpus -> [Bins -> Int]] /\ bin_for(st.prio) \in Bins
  BY BinForType DEF TransferInv, TypeOK, Staged, Ids
<1>3. IsFiniteSet(staged')
  BY <1>1, FS_RemoveElement
<1>4. staged_token_gpu' = {s.token : s \in staged'}
  <2>1. \A s \in staged : s.token = st.token => s = st
    BY DEF TransferInv, TokensUnique
  <2>2. QED
    BY <1>1, <2>1
<1>5. ASSUME NEW g \in Gpus, NEW b \in Bins
      PROVE  bins'[g][b] = Cardinality(InBin(staged', g, b))
  <2>1. bins'[g][b] = bins[g][b] - One(st.id.gpu, st.prio, g, b)
    BY <1>2, BinsStep
  <2>2. Cardinality(InBin(staged', g, b)) =
          Cardinality(InBin(staged, g, b)) -
            One(st.id.gpu, st.prio, g, b)
    BY <1>1, BinRemove
  <2>3. QED
    BY <1>1, <2>1, <2>2
<1>6. QED
  BY <1>3, <1>4, <1>5, NextIndexParts

\* A transfer is staged by enqueue_impl.
LEMMA StagedIndex ==
  ASSUME TransferInv, IndexInv, NEW new \in Staged, \A s \in staged : s.token # new.token,
         staged' = staged \cup {new}, staged_token_gpu' = staged_token_gpu \cup {new.token},
         bins' = [bins EXCEPT ![new.id.gpu][bin_for(new.prio)] = @ + 1]
  PROVE  IndexInv'
<1>1. /\ IsFiniteSet(staged) /\ staged_token_gpu = {s.token : s \in staged}
      /\ \A g \in Gpus, b \in Bins : bins[g][b] = Cardinality(InBin(staged, g, b))
  BY IndexParts
<1>2. new.id.gpu \in Gpus /\ bins \in [Gpus -> [Bins -> Int]] /\ bin_for(new.prio) \in Bins
  BY BinForType DEF TransferInv, TypeOK, Staged, Ids
<1>3. new \notin staged /\ IsFiniteSet(staged')
  BY <1>1, FS_AddElement
<1>4. staged_token_gpu' = {s.token : s \in staged'}
  BY <1>1
<1>5. ASSUME NEW g \in Gpus, NEW b \in Bins
      PROVE  bins'[g][b] = Cardinality(InBin(staged', g, b))
  <2>1. bins'[g][b] = bins[g][b] + One(new.id.gpu, new.prio, g, b)
    BY <1>2, BinsStep
  <2>2. Cardinality(InBin(staged', g, b)) =
          Cardinality(InBin(staged, g, b)) +
            One(new.id.gpu, new.prio, g, b)
    BY <1>1, <1>3, BinAdd
  <2>3. QED
    BY <1>1, <2>1, <2>2
<1>6. QED
  BY <1>3, <1>4, <1>5, NextIndexParts

\* A staged transfer changes its priority or its delay, and its bin with it.
LEMMA RestagedIndex ==
  ASSUME TransferInv, IndexInv, NEW st \in staged, NEW new \in Staged,
         new.token = st.token, new.id = st.id, staged' = (staged \ {st}) \cup {new},
         UNCHANGED staged_token_gpu,
         \A g \in Gpus, b \in Bins :
           bins'[g][b] = bins[g][b]
                         - One(st.id.gpu, st.prio, g, b)
                         + One(st.id.gpu, new.prio, g, b)
  PROVE  IndexInv'
<1>1. /\ IsFiniteSet(staged) /\ staged_token_gpu = {s.token : s \in staged}
      /\ \A g \in Gpus, b \in Bins : bins[g][b] = Cardinality(InBin(staged, g, b))
  BY IndexParts
<1>2. \A s \in staged : s.token = st.token => s = st
  BY DEF TransferInv, TokensUnique
<1>3. new \notin staged \ {st} /\ IsFiniteSet(staged \ {st})
  BY <1>1, <1>2, FS_RemoveElement
<1>4. IsFiniteSet(staged')
  BY <1>3, FS_AddElement
<1>5. staged_token_gpu' = {s.token : s \in staged'}
  BY <1>1
<1>6. ASSUME NEW g \in Gpus, NEW b \in Bins
      PROVE  bins'[g][b] = Cardinality(InBin(staged', g, b))
  <2>1. /\ Cardinality(InBin(staged \ {st}, g, b)) =
             Cardinality(InBin(staged, g, b)) -
               One(st.id.gpu, st.prio, g, b)
    BY <1>1, BinRemove
  <2>2. Cardinality(InBin(staged', g, b)) =
          Cardinality(InBin(staged \ {st}, g, b)) +
            One(new.id.gpu, new.prio, g, b)
    BY <1>3, BinAdd
  <2>3. QED
    BY <1>1, <2>1, <2>2
<1>7. QED
  BY <1>4, <1>5, <1>6, NextIndexParts

LEMMA ReprioritizeIndex ==
  ASSUME TransferInv, IndexInv, NEW st \in staged, NEW p \in Priorities, reprioritize(st, p)
  PROVE  IndexInv'
<1> DEFINE new == [st EXCEPT !.prio = p]
           row == [b \in Bins |-> bins[st.id.gpu][b]
                                  - (IF b = bin_for(st.prio) THEN 1 ELSE 0)
                                  + (IF b = bin_for(p) THEN 1 ELSE 0)]
<1>1. new \in Staged /\ new.token = st.token /\ new.id = st.id /\ new.prio = p
  BY DEF TransferInv, TypeOK, Staged
<1>2. /\ staged' = (staged \ {st}) \cup {new} /\ bins' = [bins EXCEPT ![st.id.gpu] = row]
      /\ UNCHANGED staged_token_gpu
  BY DEF reprioritize
<1>3. st.id.gpu \in Gpus /\ bins \in [Gpus -> [Bins -> Int]]
  BY DEF TransferInv, TypeOK, Staged, Ids
<1>4. ASSUME NEW g \in Gpus, NEW b \in Bins
      PROVE  bins'[g][b] = bins[g][b]
                           - One(st.id.gpu, st.prio, g, b)
                           + One(st.id.gpu, new.prio, g, b)
  <2>1. bins[g][b] \in Int
    BY <1>3
  <2>2. row[b] = bins[st.id.gpu][b] - (IF bin_for(st.prio) = b THEN 1 ELSE 0)
                                    + (IF bin_for(p) = b THEN 1 ELSE 0)
    OBVIOUS
  <2> HIDE DEF row, new
  <2>3. QED
    BY <1>1, <1>2, <1>3, <2>1, <2>2 DEF One
<1> HIDE DEF row, new
<1>5. QED
  BY <1>1, <1>2, <1>4, RestagedIndex

LEMMA NextIndexInv == TransferInv /\ IndexInv /\ [Next]_vars => IndexInv'
<1> SUFFICES ASSUME TransferInv, IndexInv, [Next]_vars PROVE IndexInv'
  OBVIOUS
<1>1. CASE UNCHANGED <<staged, staged_token_gpu, bins>>
  BY <1>1 DEF IndexInv, StagedIndexExact
<1>2. ASSUME NEW id \in Ids, NEW p \in Priorities, NEW delay \in Delays, Enqueue(id, p, delay)
      PROVE  IndexInv'
  <2> DEFINE new == [token |-> next_token, id |-> id, prio |-> p, delay |-> delay]
  <2>1. CASE /\ staged' = staged \cup {new}
             /\ staged_token_gpu' = staged_token_gpu \cup {next_token}
             /\ bins' = [bins EXCEPT ![id.gpu][bin_for(p)] = @ + 1]
    <3>1. next_token \in Tokens /\ next_token \in Nat
      BY <1>2, TransferAssumption DEF Enqueue, TransferInv, TypeOK, Tokens
    <3>2. new \in Staged /\ new.token = next_token /\ new.id = id /\ new.prio = p
      BY <3>1 DEF Staged
    <3>3. \A s \in staged : s.token # next_token
      BY <3>1, TransferAssumption DEF TransferInv, TypeOK, TokensUnique, Staged, Tokens
    <3> HIDE DEF new
    <3>4. QED
      BY <2>1, <3>2, <3>3, StagedIndex
  <2>2. QED
    BY <1>1, <1>2, <2>1 DEF Enqueue
<1>3. CASE SweepDispatch
  <2>1. PICK st \in staged :
           /\ st.id.gpu = SweepGpu /\ staged' = staged \ {st}
           /\ staged_token_gpu' = staged_token_gpu \ {st.token}
           /\ bins' = [bins EXCEPT ![SweepGpu][bin_for(st.prio)] = @ - 1]
    BY <1>3 DEF SweepDispatch, Top
  <2>2. QED
    BY <2>1, UnstagedIndex
<1>4. ASSUME NEW st \in staged, CancelStaged(st) PROVE IndexInv'
  BY <1>4, UnstagedIndex DEF CancelStaged
<1>5. ASSUME NEW st \in staged, DelayElapses(st) PROVE IndexInv'
  <2> DEFINE new == [st EXCEPT !.delay = "elapsed"]
  <2>1. new \in Staged /\ new.token = st.token /\ new.id = st.id /\ new.prio = st.prio
    BY DEF TransferInv, TypeOK, Staged, Delays
  <2>2. staged' = (staged \ {st}) \cup {new} /\ UNCHANGED <<staged_token_gpu, bins>>
    BY <1>5 DEF DelayElapses
  <2>3. \A g \in Gpus, b \in Bins : bins[g][b] \in Int
    BY DEF TransferInv, TypeOK
  <2> HIDE DEF new
  <2>4. \A g \in Gpus, b \in Bins :
          bins'[g][b] = bins[g][b]
                        - One(st.id.gpu, st.prio, g, b)
                        + One(st.id.gpu, new.prio, g, b)
    BY <2>1, <2>2, <2>3 DEF One
  <2>5. QED
    BY <2>1, <2>2, <2>4, RestagedIndex
<1>6. CASE flush_staged \/ drain \/ SweepGpuDone \/ Stopped
  BY <1>1, <1>6 DEF flush_staged, drain, SweepGpuDone, Stopped, vars
<1>7. CASE Poll
  BY <1>1, <1>7 DEF Poll, poll_completions
<1>8. CASE \/ \E g \in Gpus, p \in Priorities : dispatch_staged_at_least(g, p)
           \/ \E p \in pending : CancelDispatched(p)
           \/ \E d \in dma : DmaFinishes(d)
  BY <1>1, <1>8 DEF dispatch_staged_at_least, CancelDispatched, DmaFinishes
<1>9. CASE UNCHANGED vars
  BY <1>1, <1>9 DEF vars
<1>10. QED
  BY <1>2, <1>3, <1>4, <1>5, <1>6, <1>7, <1>8, <1>9, ReprioritizeIndex DEF Next

\* The token index and the counters of the priority bins, kept beside the queues,
\* always agree with them, whatever is staged, swept, cancelled or raised.
THEOREM StagedIndexSafety == Spec => []StagedIndexExact
<1>1. Init => IndexInv
  <2> SUFFICES ASSUME Init PROVE IndexInv
    OBVIOUS
  <2>1. \A g, b : InBin(staged, g, b) = {}
    BY DEF Init, InBin
  <2>2. QED
    BY <2>1, IndexParts, FS_EmptySet DEF Init
<1>2. TransferInv /\ IndexInv /\ [Next]_vars => IndexInv'
  BY NextIndexInv
<1>3. IndexInv => StagedIndexExact
  BY DEF IndexInv
<1>4. QED
  BY <1>1, <1>2, <1>3, TransferInvariant, PTL DEF Spec
===============================================================================
