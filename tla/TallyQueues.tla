---------------------------- MODULE TallyQueues ----------------------------
(***************************************************************************)
(* The two queues of the request worker that a request fills: the data     *)
(* jobs (TallyJobs) and the check of the gateway (GatewayCheck).  They     *)
(* share no state, so `queue` chooses the one a behaviour is about: the    *)
(* other one rests in its initial state, in which fairness asks nothing of *)
(* it.                                                                     *)
(***************************************************************************)
EXTENDS TallyJobs

CONSTANTS Workers, First, MaxChecks   \* see GatewayCheck

VARIABLES row, last, click, work, alive, crashes
gateway == <<row, last, click, work, alive, crashes>>
G == INSTANCE GatewayCheck WITH Clerks <- Askers, MaxCrashes <- MaxFaults

ASSUME GatewayAssumption ==
    /\ MaxChecks \in Nat /\ First \in Workers
    /\ None \notin G!Row

VARIABLE queue
everything == <<vars, gateway, queue>>

QueueInit == Init /\ G!Init /\ queue \in {"data", "gateway"}
QueueNext ==
    /\ \/ queue = "data" /\ Next /\ UNCHANGED gateway
       \/ queue = "gateway" /\ G!Next /\ UNCHANGED vars
    /\ UNCHANGED queue
QueueSpec == QueueInit /\ [][QueueNext]_everything /\ Fairness /\ G!Fairness

-----------------------------------------------------------------------------
(* The types of both queues: a worker is busy with what was asked for.     *)
Types == TypeOK /\ G!TypeOK
(* GatewayCheck: every check gets an answer, its own.                      *)
EveryCheckAnswered == G!EveryCheckAnswered
=============================================================================
