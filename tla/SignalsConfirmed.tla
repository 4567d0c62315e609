--------------------------- MODULE SignalsConfirmed ---------------------------
(***************************************************************************)
(* Laboratory 4, zad3b: sender and catcher of zad3a with a confirmation of  *)
(* every target signal.  Handlers wait in sigsuspend and never return: the  *)
(* next signal is handled on top of them, and so of a process only the      *)
(* handler on top is kept here.  A signal sent while it is pending is lost, *)
(* as it is in two of the three modes.                                      *)
(*                                                                          *)
(* The kernel delivers a signal that is not blocked before the next step.   *)
(***************************************************************************)
EXTENDS Integers

CONSTANT MaxSignals  \* bound: signals to send

Processes == {"sender", "catcher"}
Signals == {"target", "stop"}
Other(p) == CHOOSE q \in Processes : q # p

VARIABLES
  signals_count,  \* signals asked for
  at,             \* process -> "kill", "count", "suspend", "handle", "stop", "stopped", "ended" or "failed"
  masked,         \* process -> target signals are blocked
  pending,        \* process -> the signals pending
  sent, received, \* process -> sent_signals_count, received_signals_count
  early           \* history: the signals whose answer came before the sender had counted them

vars == <<signals_count, at, masked, pending, sent, received, early>>

(* The catcher has set its handlers and waits; the sender is about to send. *)
Init ==
  /\ signals_count \in 1 .. MaxSignals
  /\ at = [sender |-> "kill", catcher |-> "suspend"]
  /\ masked = [p \in Processes |-> FALSE] /\ pending = [p \in Processes |-> {}]
  /\ sent = [p \in Processes |-> 0] /\ received = [p \in Processes |-> 0] /\ early = {}

Gone(p) == at[p] \in {"ended", "failed"}
Deliverable(p, s) == ~Gone(p) /\ s \in pending[p] /\ (s = "target" => ~masked[p])
At(p, place) == at[p] = place /\ \A s \in Signals : ~Deliverable(p, s)
GoesTo(p, place) == at' = [at EXCEPT ![p] = place]

-------------------------------------------------------------------------------
(* A kill of a process that is no more fails, which ends the caller, but in the handler of    *)
(* the sender.                                                                                *)
Kills(p, s, next) ==
  IF Gone(Other(p))
  THEN /\ GoesTo(p, IF p = "sender" /\ received[p] > 0 THEN "suspend" ELSE "failed")
       /\ UNCHANGED pending
  ELSE GoesTo(p, next) /\ pending' = [pending EXCEPT ![Other(p)] = @ \cup {s}]

send_signal(p) ==
  /\ \/ At(p, "kill") /\ Kills(p, "target", "count") /\ UNCHANGED sent
     \/ At(p, "count") /\ GoesTo(p, "suspend") /\ sent' = [sent EXCEPT ![p] = @ + 1]
                       /\ UNCHANGED pending
  /\ UNCHANGED <<signals_count, masked, received, early>>

(* A stop signal is not counted: the counter goes down before the kill and up after it. *)
send_stop(p) ==
  /\ \/ At(p, "stop") /\ Kills(p, "stop", "stopped") /\ sent' = [sent EXCEPT ![p] = @ - 1]
     \/ At(p, "stopped") /\ GoesTo(p, IF p = "sender" THEN "suspend" ELSE "ended")
                         /\ sent' = [sent EXCEPT ![p] = @ + 1] /\ UNCHANGED pending
  /\ UNCHANGED <<signals_count, masked, received, early>>

(* sigsuspend lets target signals in. *)
sigsuspend(p) ==
  /\ At(p, "suspend") /\ masked[p]
  /\ masked' = [masked EXCEPT ![p] = FALSE]
  /\ UNCHANGED <<signals_count, at, pending, sent, received, early>>

(* The answer to a signal that the sender has sent and not counted yet. *)
Notices(p, s) ==
  early' = IF p = "sender" /\ at[p] \in {"count", "stopped"} THEN early \cup {s} ELSE early

(* Mutant: the handler is not protected against its own signal (SA_NODEFER). *)
DeliverAgain(p) ==
  /\ IF Deliverable(p, "target")
     THEN /\ GoesTo(p, "handle") /\ UNCHANGED masked
          /\ pending' = [pending EXCEPT ![p] = @ \ {"target"}] /\ Notices(p, "target")
     ELSE /\ Deliverable(p, "stop") /\ UNCHANGED masked
          /\ GoesTo(p, IF p = "sender" THEN "ended" ELSE "stop")
          /\ pending' = [pending EXCEPT ![p] = @ \ {"stop"}] /\ Notices(p, "stop")
  /\ UNCHANGED <<signals_count, sent, received>>

(* A signal interrupts whatever the process does; its own kind is blocked from here on. *)
Deliver(p) ==
  /\ IF Deliverable(p, "target")
     THEN /\ GoesTo(p, "handle") /\ masked' = [masked EXCEPT ![p] = TRUE]
          /\ pending' = [pending EXCEPT ![p] = @ \ {"target"}] /\ Notices(p, "target")
     ELSE /\ Deliverable(p, "stop") /\ UNCHANGED masked
          /\ GoesTo(p, IF p = "sender" THEN "ended" ELSE "stop")
          /\ pending' = [pending EXCEPT ![p] = @ \ {"stop"}] /\ Notices(p, "stop")
  /\ UNCHANGED <<signals_count, sent, received>>

(* target_signal_handler of the sender *)
Confirmed ==
  /\ At("sender", "handle") /\ received' = [received EXCEPT !["sender"] = @ + 1]
  /\ GoesTo("sender", IF sent["sender"] < signals_count THEN "kill"
                      ELSE IF sent["sender"] = signals_count THEN "stop" ELSE "failed")
  /\ UNCHANGED <<signals_count, masked, pending, sent, early>>

(* target_signal_handler of the catcher: the first one sets the mask, which lets the next one in. *)
Caught ==
  /\ At("catcher", "handle") /\ received' = [received EXCEPT !["catcher"] = @ + 1]
  /\ GoesTo("catcher", "kill")
  /\ masked' = [masked EXCEPT !["catcher"] = @ /\ received["catcher"] # 0]
  /\ UNCHANGED <<signals_count, pending, sent, early>>

Next == \/ Confirmed \/ Caught
        \/ \E p \in Processes : send_signal(p) \/ send_stop(p) \/ sigsuspend(p) \/ Deliver(p)

Spec == Init /\ [][Next]_vars

-------------------------------------------------------------------------------
Quiet ==
  \A p \in Processes : Gone(p) \/ (at[p] = "suspend" /\ ~masked[p] /\ pending[p] = {})

One(s) == IF s \in early THEN 1 ELSE 0

(* Nobody waits for a signal that does not come: when nothing moves any more both have ended  *)
(* without an error and have received the same number.  It is the number asked for, which is   *)
(* what the sender has counted: received, sent and asked for agree (README.md:29, 41), unless   *)
(* an answer came between kill and the counting (send_signal).  If that was the first           *)
(* confirmation, the handler started from 0 and one signal more was sent; if it was the answer  *)
(* to the stop signal, the sender ends with one signal less in its statistics.                  *)
EndsInAgreement ==
  Quiet =>
    /\ at = [p \in Processes |-> "ended"]
    /\ received["sender"] = received["catcher"]
    /\ received["catcher"] = signals_count + One("target")
    /\ sent["sender"] = signals_count - One("stop")

-------------------------------------------------------------------------------
(* The inductive invariant *)

TypeOK ==
  /\ signals_count \in 1 .. MaxSignals
  /\ at \in [Processes -> {"kill", "count", "suspend", "handle", "stop", "stopped", "ended"}]
  /\ masked \in [Processes -> BOOLEAN] /\ pending \in [Processes -> SUBSET Signals]
  /\ sent \in [Processes -> Int] /\ received \in [Processes -> Nat]
  /\ early \in SUBSET Signals

Phase(sender, itsSignals, catcher, theOthers) ==
  /\ at["sender"] \in sender /\ pending["sender"] = itsSignals
  /\ at["catcher"] \in catcher /\ pending["catcher"] = theOthers

(* One signal is under way, or its handler, or its confirmation. *)
InStep ==
  /\ received["sender"] = received["catcher"]
  /\ \/ Phase({"kill"}, {}, {"count", "suspend"}, {})
     \/ Phase({"count", "suspend"}, {}, {"count", "suspend"}, {"target"})
     \/ Phase({"count", "suspend"}, {}, {"handle"}, {})
OneAhead ==
  /\ received["sender"] + 1 = received["catcher"]
  /\ \/ Phase({"count", "suspend"}, {}, {"kill"}, {})
     \/ Phase({"count", "suspend"}, {"target"}, {"count", "suspend"}, {})
     \/ Phase({"handle"}, {}, {"count", "suspend"}, {})

(* The sender has counted what it sent, but for the first signal perhaps. *)
Counting ==
  /\ "stop" \notin early
  /\ IF at["sender"] \in {"kill", "count"}
     THEN /\ sent["sender"] \in 0 .. signals_count - 1
          /\ received["sender"] = sent["sender"] + One("target")
     ELSE /\ sent["sender"] \in 0 .. signals_count
          /\ received["sender"] + 1 = sent["sender"] + One("target")

(* So it goes with the stop signal, when enough were sent. *)
Stopping ==
  /\ received["sender"] = received["catcher"]
  /\ received["catcher"] = signals_count + One("target")
  /\ at["sender"] # "ended" => "stop" \notin early
  /\ sent["sender"] = signals_count - (IF at["sender"] = "stopped" THEN 1 ELSE One("stop"))
  /\ \/ Phase({"stop"}, {}, {"count", "suspend"}, {})
     \/ Phase({"stopped", "suspend"}, {}, {"count", "suspend"}, {"stop"})
     \/ Phase({"stopped", "suspend"}, {}, {"stop"}, {})
     \/ Phase({"stopped", "suspend"}, {"stop"}, {"stopped", "ended"}, {})
     \/ Phase({"ended"}, {}, {"stopped", "ended"}, {})

(* Until it waits for the next, a handler of the sender is not interrupted by a confirmation. *)
Protected ==
  /\ at["sender"] \in {"kill", "count"} /\ received["sender"] > 0 => masked["sender"]
  /\ at["sender"] = "handle" => masked["sender"]

Sending == (InStep \/ OneAhead) /\ Counting

IInv == TypeOK /\ (Sending \/ Stopping) /\ Protected
===============================================================================
