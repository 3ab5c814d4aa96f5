-------------------------- MODULE MCAmqpConnector --------------------------
(***************************************************************************)
(* Model-checking instances of AmqpConnector.  The identity sets are as    *)
(* large as the bounds on calls and faults can ever use.                   *)
(***************************************************************************)
EXTENDS AmqpConnector

MCTasks  == 1..5
MCConns  == 1..4
MCChans  == 1..5
MCTimers == 1..4

\* Unlimited retries, a limited number of them, and no reconnection at all.
Unlimited == [enabled |-> TRUE, maxRetries |-> 0, lateReject |-> FALSE,
              builds |-> 1, closes |-> 1, faults |-> 2]
Limited   == [enabled |-> TRUE, maxRetries |-> 1, lateReject |-> TRUE,
              builds |-> 1, closes |-> 1, faults |-> 3]
Disabled  == [enabled |-> FALSE, maxRetries |-> 0, lateReject |-> TRUE,
              builds |-> 2, closes |-> 2, faults |-> 2]

MCConfigs == {Unlimited, Limited, Disabled}
MCUnlimited == {Unlimited}
=============================================================================
