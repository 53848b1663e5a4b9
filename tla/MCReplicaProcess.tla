-------------------------- MODULE MCReplicaProcess --------------------------
(***************************************************************************)
(* Instances of ReplicaProcess for TLC.                                    *)
(***************************************************************************)
EXTENDS ReplicaProcess

Msg(kind, arg) == [kind |-> kind, arg |-> arg]

\* Number 1, at which the primary is changed, is certified on the fast path and
\* number 2 on the slow path; a vote and the new view come when they like.
SwitchTraffic == {Msg("fast", 1), Msg("commit", 2), Msg("newview", 1),
                  Msg("vote", 0)}

\* The replica executes a batch, then distrusts the primary and leaves its view.
Distrust == {Msg("commit", 1), Msg("distrust", 0)}
=============================================================================
