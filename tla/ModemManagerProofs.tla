-------------------------- MODULE ModemManagerProofs --------------------------
(***************************************************************************)
(* Proofs about ModemManager, for any number of dial attempts and any      *)
(* queue: the bit that is_connected() reads is the link's state once the   *)
(* event loop has caught up.                                               *)
(***************************************************************************)
EXTENDS ModemManager, SequenceTheorems, TLAPS

Event == {"GOT_IP", "LOST"}

(* The modem has been taken to command mode before bits are forgotten and before it dials. *)
LinkInv == pc \in {"clear", "forget", "dial"} => link = "down"

(* The bound on the queue leaves room for what the open link will post. *)
RoomInv ==
    /\ link = "opening" => Len(events) + 2 <= MaxEvents
    /\ link = "up" => Len(events) + 1 <= MaxEvents

(* The last event in the queue is about the link as it is. *)
LastInv == events # <<>> => (events[Len(events)] = "GOT_IP" <=> link = "up")

(* With an empty queue the bit is right, or the handler is about to make it right. *)
QuietInv ==
    /\ events = <<>> /\ handler = "idle" => (CONNECTED <=> link = "up")
    /\ events = <<>> /\ handler # "idle" => link # "up"
    /\ handler = "set" => ~CONNECTED

IInv ==
    /\ ModemTypeOK
    /\ LinkInv
    /\ RoomInv
    /\ LastInv
    /\ QuietInv

USE DEF taskVars, pppVars, bitVars

-------------------------------------------------------------------------------
(***************************************************************************)
(* The queue.                                                              *)
(***************************************************************************)
LEMMA Posted ==
    ASSUME NEW q \in Seq(Event), NEW e \in Event
    PROVE  /\ Append(q, e) \in Seq(Event)
           /\ Append(q, e) # <<>>
           /\ Len(Append(q, e)) = Len(q) + 1
           /\ Append(q, e)[Len(Append(q, e))] = e
  BY AppendProperties

LEMMA Handled ==
    ASSUME NEW q \in Seq(Event), q # <<>>
    PROVE  /\ Tail(q) \in Seq(Event)
           /\ Len(Tail(q)) = Len(q) - 1
           /\ Tail(q) # <<>> => Tail(q)[Len(Tail(q))] = q[Len(q)]
           /\ Tail(q) = <<>> => q[Len(q)] = Head(q)
<1>1. /\ Tail(q) \in Seq(Event) /\ Len(Tail(q)) = Len(q) - 1
      /\ \A i \in 1..Len(Tail(q)) : Tail(q)[i] = q[i + 1]
  BY HeadTailProperties
<1>2. Len(q) \in Nat /\ Len(q) # 0 /\ Head(q) = q[1]
  BY EmptySeq
<1>3. Tail(q) # <<>> => Len(Tail(q)) \in Nat \ {0}
  BY <1>1, EmptySeq
<1>4. Tail(q) = <<>> => Len(Tail(q)) = 0
  BY EmptySeq
<1>. QED
  BY <1>1, <1>2, <1>3, <1>4

(* What a step that stops PPP leaves: a link that is down, and an event that says so. *)
LEMMA Stopped ==
    ASSUME IInv, StopPpp
    PROVE  /\ link' = "down"
           /\ events' \in Seq(Event) /\ Len(events') <= MaxEvents
           /\ LastInv'
           /\ events' = <<>> => events = <<>> /\ link = "down"
<1>0. events \in Seq(Event) /\ Len(events) \in Nat /\ Len(events) <= MaxEvents
  BY LenProperties DEF IInv, ModemTypeOK, Event
<1>1. CASE link = "down"
  BY <1>0, <1>1 DEF StopPpp, IInv, LastInv
<1>2. CASE link # "down"
  <2>1. link \in {"opening", "up"} /\ events' = Append(events, "LOST") /\ link' = "down"
    BY <1>2 DEF StopPpp, IInv, ModemTypeOK
  <2>2. /\ events' \in Seq(Event) /\ events' # <<>>
        /\ Len(events') = Len(events) + 1 /\ events'[Len(events')] = "LOST"
    BY <1>0, <2>1, Posted DEF Event
  <2>3. Len(events) + 1 <= MaxEvents
    BY <1>0, <2>1, ModemAssumption DEF IInv, RoomInv
  <2>. QED
    BY <2>1, <2>2, <2>3 DEF LastInv
<1>. QED
  BY <1>1, <1>2

-------------------------------------------------------------------------------
(***************************************************************************)
(* The task and the interface.                                             *)
(***************************************************************************)

(* Steps that stop PPP and touch neither the bits nor the handler. *)
LEMMA StopStep ==
    ASSUME IInv, StopPpp, UNCHANGED <<attempt, pm_lock, handler, bitVars>>,
           mode' \in {"command", "data"},
           pc' \in {"dispose", "clear", "setup", "dead", "reset", "register",
                    "command", "forget", "dial", "ip_wait", "timeout", "up", "recover"}
    PROVE  IInv'
<1>1. /\ link' = "down" /\ LastInv'
      /\ events' \in Seq(Event) /\ Len(events') <= MaxEvents
      /\ events' = <<>> => events = <<>> /\ link = "down"
  BY Stopped
<1>2. ModemTypeOK'
  BY <1>1 DEF IInv, ModemTypeOK, Event
<1>3. LinkInv' /\ RoomInv'
  BY <1>1 DEF LinkInv, RoomInv
<1>4. QuietInv'
  BY <1>1 DEF IInv, QuietInv
<1>. QED
  BY <1>1, <1>2, <1>3, <1>4 DEF IInv

(* Steps of the task that leave the interface and the bits alone. *)
LEMMA TaskStep ==
    ASSUME IInv, UNCHANGED <<pppVars, handler, bitVars>>,
           attempt' \in 0..DialAttempts - 1, pm_lock' \in BOOLEAN,
           pc' \in {"dispose", "clear", "setup", "dead", "reset", "register",
                    "command", "forget", "dial", "ip_wait", "timeout", "up", "recover"},
           pc' \in {"clear", "forget", "dial"} => link = "down"
    PROVE  IInv'
<1>1. ModemTypeOK'
  BY DEF IInv, ModemTypeOK
<1>2. LinkInv' /\ RoomInv' /\ LastInv' /\ QuietInv'
  BY DEF IInv, LinkInv, RoomInv, LastInv, QuietInv
<1>. QED
  BY <1>1, <1>2 DEF IInv

LEMMA SetupStep ==
    ASSUME IInv, Setup
    PROVE  IInv'
<1>1. CASE dispose_modem \/ hardware_reset
  BY <1>1, StopStep DEF dispose_modem, hardware_reset, CommandMode
<1>2. CASE ClearSession
  <2>1. link = "down" /\ CONNECTED' = FALSE /\ LINK_DOWN' = FALSE /\ pc' = "setup"
        /\ UNCHANGED <<attempt, pm_lock, pppVars, handler>>
    BY <1>2 DEF ClearSession, IInv, LinkInv
  <2>2. ModemTypeOK'
    BY <2>1 DEF IInv, ModemTypeOK
  <2>3. LinkInv' /\ RoomInv' /\ LastInv' /\ QuietInv'
    BY <2>1 DEF IInv, LinkInv, RoomInv, LastInv, QuietInv
  <2>. QED
    BY <2>2, <2>3 DEF IInv
<1>3. CASE SetupFails \/ SetupOk
  <2>1. attempt' \in 0..DialAttempts - 1 /\ pm_lock' \in BOOLEAN /\ pc' \in {"dead", "reset", "register"}
    BY <1>3 DEF SetupFails, SetupOk, IInv, ModemTypeOK
  <2>2. UNCHANGED <<pppVars, handler, bitVars>>
    BY <1>3 DEF SetupFails, SetupOk
  <2>. QED
    BY <2>1, <2>2, TaskStep
<1>. QED
  BY <1>1, <1>2, <1>3 DEF Setup

(* dial_out(), recovery and registration, but for the two steps below. *)
LEMMA DialStep ==
    ASSUME IInv, \/ wait_for_registration \/ DialCommandMode \/ DialFails \/ IpAssigned
                 \/ IpTimeout \/ AfterTimeout \/ recover_radio
    PROVE  IInv'
<1>0. attempt \in 0..DialAttempts - 1 /\ pm_lock \in BOOLEAN /\ 0 \in 0..DialAttempts - 1
  BY ModemAssumption DEF IInv, ModemTypeOK
<1>1. CASE wait_for_registration \/ IpAssigned \/ IpTimeout
  <2>1. UNCHANGED <<attempt, pm_lock, pppVars, handler, bitVars>>
        /\ pc' \in {"command", "reset", "up", "timeout"}
    BY <1>1 DEF wait_for_registration, IpAssigned, IpTimeout
  <2>. QED
    BY <1>0, <2>1, TaskStep
<1>2. CASE DialFails
  <2>1. attempt' \in 0..DialAttempts - 1
    BY <1>0, <1>2, ModemAssumption DEF DialFails
  <2>2. UNCHANGED <<pm_lock, pppVars, handler, bitVars>> /\ pc' \in {"dial", "register"} /\ link = "down"
    BY <1>2 DEF DialFails, IInv, LinkInv
  <2>. QED
    BY <1>0, <2>1, <2>2, TaskStep
<1>3. CASE DialCommandMode \/ AfterTimeout \/ recover_radio
  <2>1. UNCHANGED <<attempt, pm_lock, handler, bitVars>> /\ mode' \in {"command", "data"}
        /\ pc' \in {"forget", "register"}
    BY <1>3 DEF DialCommandMode, AfterTimeout, recover_radio, CommandMode, CommandModeFails
  <2>2. CASE StopPpp
    BY <2>1, <2>2, StopStep
  <2>3. CASE ~StopPpp
    <3>1. UNCHANGED pppVars /\ pc' = "register"
      BY <1>3, <2>3 DEF DialCommandMode, AfterTimeout, recover_radio, CommandMode, CommandModeFails
    <3>. QED
      BY <1>0, <2>1, <3>1, TaskStep
  <2>. QED
    BY <2>2, <2>3
<1>. QED
  BY <1>1, <1>2, <1>3

(* BIT_CONNECTED is forgotten while the link is down, LINK_DOWN is nobody's state. *)
LEMMA ForgetStep ==
    ASSUME IInv, DialForget \/ LinkDown
    PROVE  IInv'
<1>1. CASE DialForget
  <2>1. link = "down" /\ CONNECTED' = FALSE /\ attempt' = 0 /\ pc' = "dial"
        /\ UNCHANGED <<pm_lock, pppVars, handler, LINK_DOWN>>
    BY <1>1 DEF DialForget, IInv, LinkInv
  <2>0. 0 \in 0..DialAttempts - 1
    BY ModemAssumption
  <2>2. ModemTypeOK'
    BY <2>0, <2>1 DEF IInv, ModemTypeOK
  <2>3. LinkInv' /\ RoomInv' /\ LastInv' /\ QuietInv'
    BY <2>1 DEF IInv, LinkInv, RoomInv, LastInv, QuietInv
  <2>. QED
    BY <2>2, <2>3 DEF IInv
<1>2. CASE LinkDown
  <2>1. LINK_DOWN' = FALSE /\ pc' = "recover"
        /\ UNCHANGED <<attempt, pm_lock, pppVars, handler, CONNECTED>>
    BY <1>2 DEF LinkDown
  <2>2. ModemTypeOK'
    BY <2>1 DEF IInv, ModemTypeOK
  <2>3. LinkInv' /\ RoomInv' /\ LastInv' /\ QuietInv'
    BY <2>1 DEF IInv, LinkInv, RoomInv, LastInv, QuietInv
  <2>. QED
    BY <2>2, <2>3 DEF IInv
<1>. QED
  BY <1>1, <1>2

(* A dial opens a link that is down; PPP comes up and drops. *)
LEMMA PppStep ==
    ASSUME IInv, Dial \/ PppUp \/ PppDrops
    PROVE  IInv'
<1>0. events \in Seq(Event) /\ Len(events) \in Nat
  BY LenProperties DEF IInv, ModemTypeOK, Event
<1>1. CASE Dial
  <2>1. link = "down" /\ link' = "opening" /\ mode' = "data" /\ pc' = "ip_wait"
        /\ Len(events) + 2 <= MaxEvents /\ UNCHANGED <<attempt, pm_lock, events, handler, bitVars>>
    BY <1>1 DEF Dial, IInv, LinkInv
  <2>2. ModemTypeOK'
    BY <2>1 DEF IInv, ModemTypeOK
  <2>3. LinkInv' /\ RoomInv'
    BY <2>1 DEF LinkInv, RoomInv
  <2>4. LastInv' /\ QuietInv'
    BY <2>1 DEF IInv, LastInv, QuietInv
  <2>. QED
    BY <2>2, <2>3, <2>4 DEF IInv
<1>2. CASE PppUp
  <2>1. link = "opening" /\ link' = "up" /\ events' = Append(events, "GOT_IP")
        /\ UNCHANGED <<taskVars, mode, handler, bitVars>>
    BY <1>2 DEF PppUp
  <2>2. /\ events' \in Seq(Event) /\ events' # <<>>
        /\ Len(events') = Len(events) + 1 /\ events'[Len(events')] = "GOT_IP"
    BY <1>0, <2>1, Posted DEF Event
  <2>3. Len(events') + 1 <= MaxEvents
    BY <1>0, <2>1, <2>2, ModemAssumption DEF IInv, RoomInv
  <2>4. ModemTypeOK'
    BY <1>0, <2>1, <2>2, <2>3, ModemAssumption DEF IInv, ModemTypeOK, Event
  <2>5. LinkInv' /\ RoomInv' /\ LastInv' /\ QuietInv'
    BY <2>1, <2>2, <2>3 DEF IInv, LinkInv, RoomInv, LastInv, QuietInv
  <2>. QED
    BY <2>4, <2>5 DEF IInv
<1>3. CASE PppDrops
  BY <1>3, StopStep DEF PppDrops, IInv, ModemTypeOK
<1>. QED
  BY <1>1, <1>2, <1>3

-------------------------------------------------------------------------------
(***************************************************************************)
(* The event loop.                                                         *)
(***************************************************************************)
LEMMA HandleStep ==
    ASSUME IInv, Handle
    PROVE  IInv'
<1>0. events \in Seq(Event) /\ Len(events) \in Nat
  BY LenProperties DEF IInv, ModemTypeOK, Event
<1>1. CASE GotIp \/ LostIp
  <2>1. events # <<>> /\ events' = Tail(events) /\ UNCHANGED <<attempt, pm_lock, mode, link, LINK_DOWN>>
    BY <1>1 DEF GotIp, LostIp
  <2>2. /\ events' \in Seq(Event) /\ Len(events') = Len(events) - 1
        /\ events' # <<>> => events'[Len(events')] = events[Len(events)]
        /\ events' = <<>> => events[Len(events)] = Head(events)
    BY <1>0, <2>1, Handled
  <2>3. LastInv' /\ RoomInv'
    BY <1>0, <2>1, <2>2, ModemAssumption DEF IInv, LastInv, RoomInv
  <2>4. pc' \in {pc} \cup {"ip_wait", "up"}
    BY <1>1 DEF GotIp, LostIp
  <2>5. LinkInv'
    BY <2>1, <2>4 DEF IInv, LinkInv
  <2>6. handler = "idle" /\ handler' \in {"idle", "clear"} /\ CONNECTED' \in BOOLEAN
    BY <1>1 DEF GotIp, LostIp, IInv, ModemTypeOK
  <2>7. ModemTypeOK'
    BY <1>0, <2>1, <2>2, <2>4, <2>6, ModemAssumption DEF IInv, ModemTypeOK, Event
  <2>8. QuietInv'
    <3>1. CASE GotIp
      <4>1. CONNECTED' = TRUE /\ handler' = "idle" /\ Head(events) = "GOT_IP"
        BY <3>1, <2>6 DEF GotIp
      <4>2. events' = <<>> => link' = "up"
        BY <4>1, <2>1, <2>2 DEF IInv, LastInv
      <4>. QED
        BY <4>1, <4>2 DEF QuietInv
    <3>2. CASE LostIp
      <4>1. CONNECTED' = CONNECTED /\ Head(events) = "LOST"
            /\ handler' = (IF CONNECTED THEN "clear" ELSE "idle")
        BY <3>2 DEF LostIp
      <4>2. events' = <<>> => link' # "up"
        BY <4>1, <2>1, <2>2 DEF IInv, LastInv
      <4>. QED
        BY <4>1, <4>2 DEF QuietInv
    <3>. QED
      BY <1>1, <3>1, <3>2
  <2>. QED
    BY <2>3, <2>5, <2>7, <2>8 DEF IInv
<1>2. CASE ClearConnected
  <2>1. handler = "clear" /\ handler' = "set" /\ CONNECTED' = FALSE
        /\ UNCHANGED <<taskVars, pppVars, LINK_DOWN>>
    BY <1>2 DEF ClearConnected
  <2>2. ModemTypeOK'
    BY <2>1 DEF IInv, ModemTypeOK
  <2>3. LinkInv' /\ RoomInv' /\ LastInv' /\ QuietInv'
    BY <2>1 DEF IInv, LinkInv, RoomInv, LastInv, QuietInv
  <2>. QED
    BY <2>2, <2>3 DEF IInv
<1>3. CASE SetLinkDown
  <2>1. handler = "set" /\ handler' = "idle" /\ LINK_DOWN' = TRUE
        /\ UNCHANGED <<taskVars, pppVars, CONNECTED>>
    BY <1>3 DEF SetLinkDown
  <2>2. ModemTypeOK'
    BY <2>1 DEF IInv, ModemTypeOK
  <2>3. LinkInv' /\ RoomInv' /\ LastInv' /\ QuietInv'
    BY <2>1 DEF IInv, LinkInv, RoomInv, LastInv, QuietInv
  <2>. QED
    BY <2>2, <2>3 DEF IInv
<1>. QED
  BY <1>1, <1>2, <1>3 DEF Handle

-------------------------------------------------------------------------------
(* The inductive invariant holds from the start of the task. *)
THEOREM Invariance == Spec => []IInv
<1>1. Init => IInv
  <2> SUFFICES ASSUME Init PROVE IInv
    OBVIOUS
  <2>0. 0 \in 0..DialAttempts - 1 /\ MaxEvents \in Nat
    BY ModemAssumption
  <2>e. events \in Seq(Event) /\ Len(events) <= MaxEvents
    BY <2>0, EmptySeq DEF Init
  <2>1. ModemTypeOK
    BY <2>0, <2>e DEF Init, ModemTypeOK, Event
  <2>2. LinkInv /\ RoomInv /\ LastInv /\ QuietInv
    BY DEF Init, LinkInv, RoomInv, LastInv, QuietInv
  <2>. QED
    BY <2>1, <2>2 DEF IInv
<1>2. IInv /\ [Next]_vars => IInv'
  <2> SUFFICES ASSUME IInv, [Next]_vars PROVE IInv'
    OBVIOUS
  <2>1. CASE UNCHANGED vars
    <3>1. ModemTypeOK'
      BY <2>1 DEF vars, IInv, ModemTypeOK
    <3>2. LinkInv' /\ RoomInv' /\ LastInv' /\ QuietInv'
      BY <2>1 DEF vars, IInv, LinkInv, RoomInv, LastInv, QuietInv
    <3>. QED
      BY <3>1, <3>2 DEF IInv
  <2>. QED
    BY <2>1, SetupStep, DialStep, ForgetStep, PppStep, HandleStep DEF Next, dial_out
<1>. QED
  BY <1>1, <1>2, PTL DEF Spec

(* Task, interface, event loop and bits stay within their types; the queue keeps its bound. *)
THEOREM TypeCorrect == Spec => []ModemTypeOK
<1>1. IInv => ModemTypeOK
  BY DEF IInv
<1>. QED
  BY <1>1, Invariance, PTL

(* is_connected() is the state of the link once the event loop has caught up. *)
THEOREM StatusIsLink == Spec => []StatusMatchesLink
<1>1. IInv => StatusMatchesLink
  BY DEF IInv, QuietInv, StatusMatchesLink
<1>. QED
  BY <1>1, Invariance, PTL

===============================================================================
