------------------------- MODULE MCQueuedPublisher -------------------------
(* Instances of QueuedPublisher for TLC. *)
EXTENDS QueuedPublisher

\* The publisher in use: nobody calls close().
Use == (\E p \in Producers : Publish(p) \/ Put(p)) \/ WorkerStep

UseSpec ==
    /\ Init /\ [][Use]_vars
    /\ WF_vars(WorkerStep)
    /\ \A p \in Producers : WF_vars(Put(p))
=============================================================================
