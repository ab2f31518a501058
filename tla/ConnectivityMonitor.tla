-------------------------- MODULE ConnectivityMonitor --------------------------
(***************************************************************************)
(* The life of the process (discord_ollama_agent/main.py): the check of the   *)
(* endpoint at start-up, the recheck loop of the ConnectivityMonitor while    *)
(* the System is degraded, the gateway and its on_ready handler, shutdown.    *)
(*                                                                         *)
(* The answer of the endpoint is as of the moment it was given: the monitor   *)
(* acts on it when its coroutine is resumed.                                 *)
(***************************************************************************)
EXTENDS OllamaClient

VARIABLES
  place,      \* where run_gateway is
  monitor,    \* the request under way, or the recheck loop asleep
  available,  \* monitor.available
  commands,   \* the slash commands: registered in the process, and synced
  listed,     \* Discord knows the commands, from this process or an earlier one
  confirmed   \* an answer in the life of this process listed the model

monitorVars == <<place, monitor, available, commands, confirmed>>
connectivityVars == <<endpoint, listed, monitorVars>>

ConnectivityTypeOK ==
  /\ endpoint \in Endpoint
  /\ place \in {"down", "checking", "connecting", "serving", "stopping", "closing"}
  /\ monitor \in {"none", "sleeping", "asking", "found", "missing"}
  /\ available \in BOOLEAN
  /\ commands \in {"none", "syncing", "synced", "unsynced"}
  /\ listed \in BOOLEAN
  /\ confirmed \in BOOLEAN

Fresh(p, m) ==
  /\ place' = p
  /\ monitor' = m
  /\ available' = FALSE
  /\ commands' = "none"
  /\ confirmed' = FALSE

ConnectivityInit ==
  /\ endpoint \in Endpoint
  /\ place = "down"
  /\ monitor = "none"
  /\ available = FALSE
  /\ commands = "none"
  /\ listed = FALSE
  /\ confirmed = FALSE

-----------------------------------------------------------------------------
(* build_application and the first await of run_gateway.  (A configuration or  *)
(* a registry that is rejected and a missing token end the process here.)     *)
Starts ==
  /\ place = "down"
  /\ Fresh("checking", "asking")
  /\ UNCHANGED <<endpoint, listed>>

(* The endpoint answers, or the budget of ten seconds runs out.              *)
Answers ==
  /\ monitor = "asking"
  /\ monitor' = IF check_connectivity THEN "found" ELSE "missing"
  /\ confirmed' = (confirmed \/ ServesModel)
  /\ UNCHANGED <<endpoint, place, available, commands, listed>>

(* check_once and start: the recheck loop exists only in degraded mode.       *)
check_connectivity_AtStartup ==
  /\ place = "checking"
  /\ monitor \in {"found", "missing"}
  /\ available' = (monitor = "found")
  /\ monitor' = IF monitor = "found" THEN "none" ELSE "sleeping"
  /\ place' = "connecting"
  /\ UNCHANGED <<endpoint, commands, listed, confirmed>>

(* The loop: sleep, ask, apply, until the model was confirmed.               *)
Rechecks ==
  /\ monitor = "sleeping"
  /\ monitor' = "asking"
  /\ UNCHANGED <<endpoint, place, available, commands, listed, confirmed>>

NextRecheck_OnlyOnce == "none"
NextRecheck == IF monitor = "found" THEN "none" ELSE "sleeping"

_recheck_loop ==
  /\ place # "checking"
  /\ monitor \in {"found", "missing"}
  /\ available' = (monitor = "found")
  /\ monitor' = NextRecheck
  /\ UNCHANGED <<endpoint, place, commands, listed, confirmed>>

(* The gateway is connected, or connected again: the commands are registered   *)
(* and synced the first time; every later time registering them raises, and   *)
(* the handler ends before it syncs.                                         *)
on_ready ==
  /\ place \in {"connecting", "serving"}
  /\ place' = "serving"
  /\ commands' = IF commands = "none" THEN "syncing" ELSE commands
  /\ UNCHANGED <<endpoint, monitor, available, listed, confirmed>>

SyncEnds ==
  /\ commands = "syncing"
  /\ \/ commands' = "synced" /\ listed' = TRUE
     \/ commands' = "unsynced" /\ UNCHANGED listed
  /\ UNCHANGED <<endpoint, place, monitor, available, confirmed>>

(* client.start ends, normally or not; app.shutdown stops the monitor, then    *)
(* the Job_Manager, then closes the client.                                  *)
GatewayEnds ==
  /\ place \in {"connecting", "serving"}
  /\ place' = "stopping"
  /\ UNCHANGED <<endpoint, monitor, available, commands, listed, confirmed>>

stop_Monitor ==
  /\ place = "stopping"
  /\ place' = "closing"
  /\ monitor' = "none"
  /\ UNCHANGED <<endpoint, available, commands, listed, confirmed>>

Exits ==
  /\ place = "closing"
  /\ Fresh("down", "none")
  /\ UNCHANGED <<endpoint, listed>>

Killed ==
  /\ place # "down"
  /\ Fresh("down", "none")
  /\ UNCHANGED <<endpoint, listed>>

ProcessStep ==
  \/ Answers \/ check_connectivity_AtStartup \/ Rechecks \/ _recheck_loop
  \/ SyncEnds \/ stop_Monitor

ConnectivityNext ==
  \/ Starts \/ ProcessStep \/ on_ready \/ GatewayEnds \/ Exits \/ Killed
  \/ EndpointChanges /\ UNCHANGED <<listed, monitorVars>>

(* The loop runs what is ready; the wait for an answer and the sleep between   *)
(* two checks are bounded.                                                   *)
ConnectivityFairness ==
  /\ WF_connectivityVars(Answers)
  /\ WF_connectivityVars(check_connectivity_AtStartup)
  /\ WF_connectivityVars(Rechecks)
  /\ WF_connectivityVars(_recheck_loop)

ConnectivitySpec == ConnectivityInit /\ [][ConnectivityNext]_connectivityVars

-----------------------------------------------------------------------------
(* Properties.                                                               *)

(* Degraded mode ends: a process that keeps running while the endpoint keeps   *)
(* serving the model comes to accept Jobs, whatever the endpoint did before    *)
(* and whenever the gateway connects (monitor.start vs. check_once).          *)
Running == place \in {"checking", "connecting", "serving"}
DegradedModeEnds == <>[](Running /\ ServesModel) => <>[]available

(* Nothing but an answer given to this process makes it available: not a       *)
(* partial answer, not the state of an earlier process.                       *)
AvailableWasConfirmed == available => confirmed
=============================================================================
