---------------------------- MODULE MCSharedMemory ----------------------------
(***************************************************************************)
(* The two lock-free structures of the IPC region, for one run.  They      *)
(* share no memory, so a behaviour exercises one of them (used) and leaves *)
(* the other as it was set up: the run covers the sum of the two state     *)
(* spaces, not their product.                                              *)
(*                                                                         *)
(* The ring has two slots and is drained two at a time: the producer laps  *)
(* it while the consumer is inside a batch.  The snapshot has two fields   *)
(* of the publisher's transaction and one of the lifecycle manager's.      *)
(***************************************************************************)
EXTENDS SpscRing, StateSnapshot

CONSTANTS loop, elm, cycle, stats, tier

MCOwner == [f \in {cycle, stats, tier} |-> IF f = tier THEN elm ELSE loop]

VARIABLE used  \* the structure this behaviour exercises

MCInit == Init /\ SnapshotInit /\ used \in {"ring", "snapshot"}

MCNext ==
  \/ used = "ring" /\ Next /\ UNCHANGED <<snapshotVars, used>>
  \/ used = "snapshot" /\ SnapshotNext /\ UNCHANGED <<vars, used>>

\* FairSpec or FairSnapshotSpec, for the structure that is used.
MCSpec ==
  /\ MCInit /\ [][MCNext]_<<vars, snapshotVars, used>>
  /\ WF_vars(used = "ring" /\ Consumer)
  /\ WF_vars(used = "ring" /\ (WriteFull \/ WriteCopy \/ WriteCopied \/ WritePublish))
  /\ WF_snapshotVars(used = "snapshot" /\ Reader)
===============================================================================
