------------------------------- MODULE Platform -------------------------------
(***************************************************************************)
(* The parts of the platform beside the Graph Runtime and the jobs: the    *)
(* model gateway, the native runtime with the administrative commands that *)
(* act on it, the delivery of events, forks, the scheduler lease and the   *)
(* upgrades the Admin Agents govern.                                       *)
(*                                                                         *)
(* They share no table, so a behaviour of the platform is an interleaving  *)
(* of independent behaviours, and a property of one part holds of it when  *)
(* it holds while the other parts rest.  Which part moves is chosen once.  *)
(***************************************************************************)
EXTENDS ModelGateway, PlatformCommands, GraphDelivery, GraphFork, SchedulerLease,
        AdminUpgrade

VARIABLE moving    \* the part that moves

runtimeVars == <<executionVars, commandVars>>
platformVars == <<moving, gatewayVars, runtimeVars, deliveryVars, forkVars, schedulerVars, upgradeVars>>

Parts == {"gateway", "runtime", "delivery", "fork", "scheduler", "upgrade"}

PlatformInit ==
    /\ moving \in Parts
    /\ GatewayInit /\ ExecutionInit /\ CommandInit
    /\ DeliveryInit /\ ForkInit /\ SchedulerInit /\ UpgradeInit

PlatformNext ==
    /\ UNCHANGED moving
    /\ \/ /\ moving = "gateway" /\ GatewayNext
          /\ UNCHANGED <<runtimeVars, deliveryVars, forkVars, schedulerVars, upgradeVars>>
       \/ /\ moving = "runtime" /\ CommandNext
          /\ UNCHANGED <<gatewayVars, deliveryVars, forkVars, schedulerVars, upgradeVars>>
       \/ /\ moving = "delivery" /\ DeliveryNext
          /\ UNCHANGED <<gatewayVars, runtimeVars, forkVars, schedulerVars, upgradeVars>>
       \/ /\ moving = "fork" /\ ForkNext
          /\ UNCHANGED <<gatewayVars, runtimeVars, deliveryVars, schedulerVars, upgradeVars>>
       \/ /\ moving = "scheduler" /\ SchedulerNext
          /\ UNCHANGED <<gatewayVars, runtimeVars, deliveryVars, forkVars, upgradeVars>>
       \/ /\ moving = "upgrade" /\ UpgradeNext
          /\ UNCHANGED <<gatewayVars, runtimeVars, deliveryVars, forkVars, schedulerVars>>

PlatformSpec == PlatformInit /\ [][PlatformNext]_platformVars

\* The tables and the calls in flight of every part keep their types.
PlatformTypeOK ==
    /\ GatewayTypeOK /\ ExecutionTypeOK /\ CommandTypeOK
    /\ DeliveryTypeOK /\ ForkTypeOK /\ SchedulerTypeOK /\ UpgradeTypeOK
===============================================================================
