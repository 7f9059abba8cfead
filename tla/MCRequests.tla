----------------------------- MODULE MCRequests -----------------------------
(* The layers between an operation and the remote servers: Unified, Share  *)
(* and MuxData with small constants, checked one after another in one run. *)
(* part is the layer that is running.                                      *)
EXTENDS Share, MuxData, Unified

CONSTANTS o1, o2, o3, o4
MCOps == {o1, o2, o3, o4}
MCChannels == <<"c1", "c2">>
MCServers == {"r1", "r2"}
MCEntries == <<2, 1, 3>>

VARIABLE part

ASSUME MCRequestsAssumption == UnifiedParameters /\ MuxDataParameters

MCInit == part \in {"unified", "share", "mux"} /\ UnifiedInit /\ Init /\ MuxInit
MCNext ==
    \/ part = "unified" /\ UnifiedNext /\ UNCHANGED <<part, vars, mvars>>
    \/ part = "share" /\ Next /\ UNCHANGED <<part, uvars, mvars>>
    \/ part = "mux" /\ MuxNext /\ UNCHANGED <<part, vars, uvars>>

\* What does not run is in its initial state, where none of its fair actions
\* is possible.
MCSpec ==
    /\ MCInit /\ [][MCNext]_<<part, vars, uvars, mvars>>
    /\ UnifiedFairness /\ Fairness /\ MuxFairness

\* Operations are called back, in both layers, and a message is sent unless its
\* channel is stopped.
Progress == AllCalledBack /\ OpsEnd /\ DataFlows
=============================================================================
