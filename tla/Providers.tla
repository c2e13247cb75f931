------------------------------ MODULE Providers ------------------------------
(* The speech providers on either side of HTTP: a worker with any gateway, *)
(* and the gateway with any workers.  One knows of the other only what it  *)
(* is sent, so a behaviour is of one of them while the other rests.        *)
EXTENDS ProviderWorker, ProviderRouting

VARIABLE side

providerVars == <<side, vars, routingVars>>

WorkerRests  == Idle(MaxRequests) /\ engine = (CHOOSE e \in Engines : TRUE) /\ model = NoModel
RoutingRests == RoutingIdle(MaxAsks) /\ backends = Backend
                /\ \A p \in External : worker[p] = [condition |-> "up", catalog |-> Kept]

ProvidersInit ==
  \/ side = "worker"  /\ Init        /\ RoutingRests
  \/ side = "gateway" /\ WorkerRests /\ RoutingInit

WorkerStep  == side = "worker"  /\ Next        /\ UNCHANGED <<side, routingVars>>
GatewayStep == side = "gateway" /\ RoutingNext /\ UNCHANGED <<side, vars>>

(* Nothing of a side that rests is enabled, so its fairness asks nothing.  *)
ProvidersSpec ==
  /\ ProvidersInit /\ [][WorkerStep \/ GatewayStep]_providerVars
  /\ Fairness /\ RoutingFairness
=============================================================================
