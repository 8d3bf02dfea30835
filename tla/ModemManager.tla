----------------------------- MODULE ModemManager -----------------------------
(***************************************************************************)
(* modem_manager: a task that sets the cellular modem up, waits for the    *)
(* network, dials, and re-dials whenever the PPP link drops.  It shares    *)
(* BIT_CONNECTED and BIT_LINK_DOWN with the handlers of the system event   *)
(* loop, which runs later than what it reports.                            *)
(*                                                                         *)
(* The modem, the network and the PPP interface are external: in data mode *)
(* PPP may come up (IP_EVENT_PPP_GOT_IP) and may drop at any moment, and   *)
(* leaving data mode stops it.  The end of PPP is posted once as "LOST":   *)
(* it comes as a PPP status and an IP_EVENT_PPP_LOST_IP right after each   *)
(* other, and the second of them finds BIT_CONNECTED cleared.              *)
(***************************************************************************)
EXTENDS Naturals, Sequences

CONSTANTS DialAttempts,  \* DIAL_RETRY_ATTEMPTS
          MaxEvents      \* bound: events waiting in the event loop's queue

ASSUME ModemAssumption == DialAttempts \in Nat \ {0} /\ MaxEvents \in Nat \ {0}

VARIABLES pc,         \* where the modem task is
          attempt,    \* attempt of dial_out()
          pm_lock,    \* light sleep is locked out; held until the first setup is done
          mode,       \* dce mode
          link,       \* PPP: "down", "opening" or "up"
          events,     \* posted, not handled yet
          handler,    \* the event loop: "idle", or inside the handler of a "LOST"
          CONNECTED,  \* BIT_CONNECTED
          LINK_DOWN   \* BIT_LINK_DOWN

taskVars == <<pc, attempt, pm_lock>>
pppVars == <<mode, link, events>>
bitVars == <<CONNECTED, LINK_DOWN>>
vars == <<taskVars, pppVars, handler, bitVars>>

(* One type invariant: task, interface, event loop and bits stay within their types. *)
ModemTypeOK ==
    /\ pc \in {"dispose", "clear", "setup", "dead", "reset", "register",
               "command", "forget", "dial", "ip_wait", "timeout", "up", "recover"}
    /\ attempt \in 0..DialAttempts - 1
    /\ pm_lock \in BOOLEAN
    /\ mode \in {"command", "data"}
    /\ link \in {"down", "opening", "up"}
    /\ events \in Seq({"GOT_IP", "LOST"}) /\ Len(events) <= MaxEvents
    /\ handler \in {"idle", "clear", "set"}
    /\ CONNECTED \in BOOLEAN
    /\ LINK_DOWN \in BOOLEAN

Init ==
    /\ pc = "dispose"
    /\ attempt = 0
    /\ pm_lock = TRUE
    /\ mode = "command"
    /\ link = "down"
    /\ events = <<>>
    /\ handler = "idle"
    /\ CONNECTED = FALSE
    /\ LINK_DOWN = FALSE

-------------------------------------------------------------------------------
(***************************************************************************)
(* The PPP interface.                                                      *)
(***************************************************************************)
StopPpp ==
    /\ link' = "down"
    /\ events' = IF link = "down" THEN events ELSE Append(events, "LOST")

CommandMode == mode' = "command" /\ StopPpp

(* set_mode() gave up half way: PPP may have been stopped, the modem is still in data mode. *)
CommandModeFails ==
    /\ mode = "data"
    /\ mode' = "data"
    /\ StopPpp \/ UNCHANGED <<link, events>>

PppUp ==
    /\ link = "opening"
    /\ link' = "up"
    /\ events' = Append(events, "GOT_IP")
    /\ UNCHANGED <<taskVars, mode, handler, bitVars>>

PppDrops ==
    /\ link # "down"
    /\ StopPpp
    /\ UNCHANGED <<taskVars, mode, handler, bitVars>>

-------------------------------------------------------------------------------
(***************************************************************************)
(* modem_task_handler().  The setup of a session: the old DCE goes, the    *)
(* bits are cleared, the modem is brought up.                              *)
(***************************************************************************)
dispose_modem ==
    /\ pc = "dispose"
    /\ CommandMode
    /\ pc' = "clear"
    /\ UNCHANGED <<attempt, pm_lock, handler, bitVars>>

ClearSession ==
    /\ pc = "clear"
    /\ CONNECTED' = FALSE
    /\ LINK_DOWN' = FALSE
    /\ pc' = "setup"
    /\ UNCHANGED <<attempt, pm_lock, pppVars, handler>>

(* A DTE or DCE that cannot be created fails the setup before the bits are cleared. *)
SetupFails ==
    /\ pc \in {"clear", "setup"}
    /\ pc' = IF pm_lock THEN "dead" ELSE "reset"
    /\ UNCHANGED <<attempt, pm_lock, pppVars, handler, bitVars>>

SetupOk ==
    /\ pc = "setup"
    /\ pc' = "register"
    /\ pm_lock' = FALSE
    /\ UNCHANGED <<attempt, pppVars, handler, bitVars>>

hardware_reset ==
    /\ pc = "reset"
    /\ CommandMode
    /\ pc' = "dispose"
    /\ UNCHANGED <<attempt, pm_lock, handler, bitVars>>

(***************************************************************************)
(* wait_for_registration(): AT commands are answered in command mode, and  *)
(* may be once PPP is down and the modem has left data mode by itself.     *)
(***************************************************************************)
wait_for_registration ==
    /\ pc = "register"
    /\ \/ (mode = "command" \/ link = "down") /\ pc' = "command"
       \/ pc' = "reset"
    /\ UNCHANGED <<attempt, pm_lock, pppVars, handler, bitVars>>

(* dial_out(): always from command mode, with BIT_CONNECTED of the last link forgotten. *)
DialCommandMode ==
    /\ pc = "command"
    /\ \/ CommandMode /\ pc' = "forget"
       \/ CommandModeFails /\ pc' = "register"
    /\ UNCHANGED <<attempt, pm_lock, handler, bitVars>>

DialForget ==
    /\ pc = "forget"
    /\ CONNECTED' = FALSE
    /\ attempt' = 0
    /\ pc' = "dial"
    /\ UNCHANGED <<pm_lock, pppVars, handler, LINK_DOWN>>

(* The bound on events stands for the event loop keeping up with the dials. *)
Dial ==
    /\ pc = "dial"
    /\ Len(events) + 2 <= MaxEvents
    /\ mode' = "data"
    /\ link' = "opening"
    /\ pc' = "ip_wait"
    /\ UNCHANGED <<attempt, pm_lock, events, handler, bitVars>>

(* Mutant: the last attempt is not the last. *)
DialFailsAgain ==
    /\ pc = "dial"
    /\ attempt' = attempt + 1
    /\ pc' = IF attempt = DialAttempts THEN "register" ELSE "dial"
    /\ UNCHANGED <<pm_lock, pppVars, handler, bitVars>>

DialFails ==
    /\ pc = "dial"
    /\ IF attempt + 1 < DialAttempts
       THEN attempt' = attempt + 1 /\ pc' = "dial"
       ELSE attempt' = 0 /\ pc' = "register"
    /\ UNCHANGED <<pm_lock, pppVars, handler, bitVars>>

IpAssigned ==
    /\ pc = "ip_wait"
    /\ CONNECTED
    /\ pc' = "up"
    /\ UNCHANGED <<attempt, pm_lock, pppVars, handler, bitVars>>

(* IP_WAIT_TIMEOUT_MS passes, and then the modem is taken back to command mode. *)
IpTimeout ==
    /\ pc = "ip_wait"
    /\ ~CONNECTED
    /\ pc' = "timeout"
    /\ UNCHANGED <<attempt, pm_lock, pppVars, handler, bitVars>>

AfterTimeout ==
    /\ pc = "timeout"
    /\ CommandMode \/ CommandModeFails
    /\ pc' = "register"
    /\ UNCHANGED <<attempt, pm_lock, handler, bitVars>>

LinkDown ==
    /\ pc = "up"
    /\ LINK_DOWN
    /\ LINK_DOWN' = FALSE
    /\ pc' = "recover"
    /\ UNCHANGED <<attempt, pm_lock, pppVars, handler, CONNECTED>>

(* recover_radio(): whether it worked is for the next registration to tell. *)
recover_radio ==
    /\ pc = "recover"
    /\ CommandMode \/ CommandModeFails
    /\ pc' = "register"
    /\ UNCHANGED <<attempt, pm_lock, handler, bitVars>>

-------------------------------------------------------------------------------
(***************************************************************************)
(* ip_event_handler() and ppp_event_handler().  Setting BIT_CONNECTED      *)
(* releases the task if it already waits for it.                           *)
(***************************************************************************)
GotIp ==
    /\ handler = "idle"
    /\ events # <<>> /\ Head(events) = "GOT_IP"
    /\ events' = Tail(events)
    /\ CONNECTED' = TRUE
    /\ pc' \in IF pc = "ip_wait" THEN {"ip_wait", "up"} ELSE {pc}
    /\ UNCHANGED <<attempt, pm_lock, mode, link, handler, LINK_DOWN>>

LostIp ==
    /\ handler = "idle"
    /\ events # <<>> /\ Head(events) = "LOST"
    /\ events' = Tail(events)
    /\ handler' = IF CONNECTED THEN "clear" ELSE "idle"
    /\ UNCHANGED <<taskVars, mode, link, bitVars>>

(* Mutant: the task is told, the bit that is_connected() reads stays. *)
ClearConnectedForgotten ==
    /\ handler = "clear"
    /\ handler' = "set"
    /\ UNCHANGED <<taskVars, pppVars, bitVars>>

ClearConnected ==
    /\ handler = "clear"
    /\ CONNECTED' = FALSE
    /\ handler' = "set"
    /\ UNCHANGED <<taskVars, pppVars, LINK_DOWN>>

(* Mutant: whether the link was up is tested after the bit that tells has been cleared. *)
SetLinkDownTested ==
    /\ handler = "set"
    /\ LINK_DOWN' = (LINK_DOWN \/ CONNECTED)
    /\ handler' = "idle"
    /\ UNCHANGED <<taskVars, pppVars, CONNECTED>>

SetLinkDown ==
    /\ handler = "set"
    /\ LINK_DOWN' = TRUE
    /\ handler' = "idle"
    /\ UNCHANGED <<taskVars, pppVars, CONNECTED>>

Setup == dispose_modem \/ ClearSession \/ SetupFails \/ SetupOk \/ hardware_reset
dial_out == DialCommandMode \/ DialForget \/ Dial \/ DialFails \/ IpAssigned \/ IpTimeout \/ AfterTimeout
Handle == GotIp \/ LostIp \/ ClearConnected \/ SetLinkDown

Next == Setup \/ wait_for_registration \/ dial_out \/ LinkDown \/ recover_radio
        \/ PppUp \/ PppDrops \/ Handle

Spec == Init /\ [][Next]_vars

(* The scheduler runs the event loop, and the task once the bit it waits for is set. *)
FairSpec == Spec /\ WF_vars(Handle) /\ WF_vars(LinkDown)

-------------------------------------------------------------------------------
(***************************************************************************)
(* is_connected() and wait_for_connect() tell the truth once the event     *)
(* loop has caught up, however re-dials, resets and drops interleave.      *)
(***************************************************************************)
StatusMatchesLink == events = <<>> /\ handler = "idle" => (CONNECTED <=> link = "up")

(* "Keep the PPP link alive, every drop gets a re-dial": the task never sleeps on a dead link. *)
DropNoticed == pc = "up" /\ link = "down" ~> pc # "up"

===============================================================================
