----------------------------- MODULE SignalsBurst -----------------------------
(***************************************************************************)
(* Laboratory 4, zad3a: sender sends a number of target signals and a stop  *)
(* signal at once, catcher counts them and sends as many back.  A signal    *)
(* sent while the same one is pending is lost ("kill", "sigqueue"), unless  *)
(* it is a real-time signal ("sigrt").  The kernel delivers a signal that   *)
(* is not blocked before the next step, targets before stop, and blocks it  *)
(* in its own handler.                                                      *)
(*                                                                          *)
(* The sender starts when the catcher has set its handlers, as it needs the *)
(* PID to be typed.  The payload of sigqueue and the printing are left out. *)
(***************************************************************************)
EXTENDS Integers, Sequences, FiniteSets

CONSTANT MaxSignals  \* bound: signals to send

VARIABLES
  mode,           \* of the sender: "standard" (kill, sigqueue) or "sigrt"
  signals_count,  \* signals asked for
  sender,         \* "send", "sent", "pause", "woken", "ended" or "failed"
  unsent,         \* targets the sender has still to send
  pending,        \* process -> signal -> how often it is pending
  received,       \* process -> received_signals_count
  catcher,        \* the catcher's main and the handlers it runs, each where it is and what was
                  \* blocked before it; <<>> when it has ended
  blocked,        \* the signals the catcher blocks, of the two
  mode_set,       \* the catcher's mode is not ""
  unanswered,     \* targets the catcher has still to send back
  exit_code       \* of the catcher

vars == <<mode, signals_count, sender, unsent, pending, received,
          catcher, blocked, mode_set, unanswered, exit_code>>
senderVars == <<mode, signals_count, sender, unsent>>
catcherVars == <<catcher, blocked, mode_set, unanswered, exit_code>>

Signals == {"target", "stop"}
None == [s \in Signals |-> 0]
Frame(at) == [at |-> at, blocked |-> blocked]

Init ==
  /\ mode \in {"standard", "sigrt"} /\ signals_count \in 1 .. MaxSignals
  /\ sender = "send" /\ unsent = signals_count
  /\ pending = [p \in {"sender", "catcher"} |-> None]
  /\ received = [p \in {"sender", "catcher"} |-> 0]
  /\ catcher = <<[at |-> "suspended", blocked |-> {}]>>
  /\ blocked = {} /\ mode_set = FALSE /\ unanswered = 0 /\ exit_code = 0

send_signal(p, s) ==
  pending' = [pending EXCEPT ![p][s] = IF mode = "sigrt" THEN @ + 1 ELSE 1]
Takes(p, s) ==
  pending[p][s] > 0 /\ pending' = [pending EXCEPT ![p][s] = @ - 1]

-------------------------------------------------------------------------------
(* The sender *)

SenderRuns == sender \notin {"ended", "failed"}
CatcherRuns == catcher # <<>>

(* A kill of a process that is no more fails, and ends the sender; until its parent has *)
(* waited for a process that has ended, what is sent to it is lost.                     *)
send_signals ==
  /\ sender = "send"
  /\ \/ ~CatcherRuns /\ sender' = "failed" /\ UNCHANGED <<pending, unsent>>
     \/ IF unsent > 0
        THEN send_signal("catcher", "target") /\ unsent' = unsent - 1 /\ UNCHANGED sender
        ELSE send_signal("catcher", "stop") /\ sender' = "sent" /\ UNCHANGED unsent
  /\ UNCHANGED <<mode, signals_count, received, catcherVars>>

pause ==
  /\ \/ sender = "sent" /\ sender' = "pause"
     \/ sender = "woken" /\ sender' = "ended"
  /\ UNCHANGED <<mode, signals_count, unsent, pending, received, catcherVars>>

(* Either handler ends pause(), when main is in it. *)
SenderHandles(s) ==
  /\ SenderRuns /\ Takes("sender", s)
  /\ received' = [received EXCEPT !["sender"] = IF s = "target" THEN @ + 1 ELSE @]
  /\ sender' = IF sender = "pause" THEN "woken" ELSE sender
  /\ UNCHANGED <<mode, signals_count, unsent, catcherVars>>

-------------------------------------------------------------------------------
(* The catcher *)

Top == catcher[Len(catcher)]
Below == SubSeq(catcher, 1, Len(catcher) - 1)
GoesTo(at) == catcher' = Append(Below, [Top EXCEPT !.at = at])
Leaves(code) == GoesTo("exiting") /\ exit_code' = code

Deliverable(s) == /\ CatcherRuns /\ Top.at # "exiting"
                  /\ pending["catcher"][s] > 0 /\ s \notin blocked
At(place) == CatcherRuns /\ Top.at = place /\ \A s \in Signals : ~Deliverable(s)

(* A handler starts; a sigsuspend it interrupts is over when it returns. *)
Deliver(s) ==
  /\ Deliverable(s) /\ (s = "stop" => ~Deliverable("target")) /\ Takes("catcher", s)
  /\ LET interrupted == IF Top.at = "suspended" THEN [Top EXCEPT !.at = "resumed"] ELSE Top
     IN catcher' = Below \o <<interrupted, Frame(s)>>
  /\ blocked' = blocked \cup {s}
  /\ UNCHANGED <<senderVars, received, mode_set, unanswered, exit_code>>

target_signal_handler ==
  /\ At("target")
  /\ received' = [received EXCEPT !["catcher"] = @ + 1]
  /\ GoesTo(IF received'["catcher"] = 1 THEN "first" ELSE "return")
  /\ UNCHANGED <<senderVars, pending, blocked, mode_set, unanswered, exit_code>>

(* The new mask is set in the handler: its own signal may interrupt it from here on. *)
update_mode(next) ==
  /\ mode_set' = TRUE /\ blocked' = {} /\ GoesTo(next)
  /\ UNCHANGED <<senderVars, pending, received, unanswered, exit_code>>

FirstTarget == At("first") /\ update_mode("suspend")

sigsuspend ==
  /\ At("suspend") /\ GoesTo("suspended")
  /\ UNCHANGED <<senderVars, pending, received, blocked, mode_set, unanswered, exit_code>>

(* sigsuspend returns -1 after every signal, which is taken for an error. *)
Resumed ==
  /\ At("resumed") /\ Leaves(1)
  /\ UNCHANGED <<senderVars, pending, received, blocked, mode_set, unanswered>>

Return ==
  /\ At("return")
  /\ catcher' = Below /\ blocked' = Top.blocked
  /\ UNCHANGED <<senderVars, pending, received, mode_set, unanswered, exit_code>>

(* Mutant: the signals are counted before the mode is set. *)
stop_signal_handlerCountingFirst ==
  /\ At("stop") /\ unanswered' = received["catcher"]
  /\ IF mode_set THEN UNCHANGED <<blocked, mode_set>> ELSE mode_set' = TRUE /\ blocked' = {}
  /\ GoesTo("answer")
  /\ UNCHANGED <<senderVars, pending, received, exit_code>>

stop_signal_handler ==
  /\ At("stop")
  /\ IF mode_set
     THEN /\ unanswered' = received["catcher"] /\ GoesTo("answer")
          /\ UNCHANGED <<senderVars, pending, received, blocked, mode_set, exit_code>>
     ELSE update_mode("stop")

Answer ==
  /\ At("answer")
  /\ \/ ~SenderRuns /\ Leaves(1) /\ UNCHANGED <<pending, unanswered>>
     \/ IF unanswered > 0
        THEN send_signal("sender", "target") /\ unanswered' = unanswered - 1 /\ UNCHANGED <<catcher, exit_code>>
        ELSE send_signal("sender", "stop") /\ GoesTo("answered") /\ UNCHANGED <<unanswered, exit_code>>
  /\ UNCHANGED <<senderVars, received, blocked, mode_set>>

Answered ==
  /\ At("answered") /\ Leaves(0)
  /\ UNCHANGED <<senderVars, pending, received, blocked, mode_set, unanswered>>

(* What is sent to a catcher that is in exit() is lost. *)
Exit ==
  /\ At("exiting") /\ catcher' = <<>>
  /\ UNCHANGED <<senderVars, pending, received, blocked, mode_set, unanswered, exit_code>>

-------------------------------------------------------------------------------
Next ==
  \/ send_signals \/ pause
  \/ target_signal_handler \/ FirstTarget \/ sigsuspend \/ Resumed \/ Return
  \/ stop_signal_handler \/ Answer \/ Answered \/ Exit
  \/ \E s \in Signals : SenderHandles(s) \/ Deliver(s)

Spec == Init /\ [][Next]_vars

-------------------------------------------------------------------------------
Uncounted == {n \in DOMAIN catcher : catcher[n].at = "target"}

(* With real-time signals nothing is lost on the way: what the sender has sent is counted, or *)
(* pending, or its handler was interrupted before it counted (target_signal_handler); and     *)
(* when the catcher has answered STOP, it has sent back as many as it counted by then, those   *)
(* included that came in when the mode was set in the handler of STOP (stop_signal_handler).   *)
SendsBackWhatItCounted ==
  mode = "sigrt" /\ CatcherRuns =>
    /\ signals_count - unsent =
         received["catcher"] + pending["catcher"]["target"] + Cardinality(Uncounted)
    /\ Top.at = "answered" =>
         received["sender"] + pending["sender"]["target"] = received["catcher"]

-------------------------------------------------------------------------------
(* The inductive invariant *)

Places == {"suspended", "resumed", "exiting", "target", "first", "suspend", "return",
           "stop", "answer", "answered"}
Frames == [at : Places, blocked : SUBSET Signals]
Counters == [{"sender", "catcher"} -> Nat]

TypeOK ==
  /\ mode \in {"standard", "sigrt"} /\ signals_count \in Nat /\ unsent \in Nat
  /\ sender \in {"send", "sent", "pause", "woken", "ended", "failed"}
  /\ pending \in [{"sender", "catcher"} -> [Signals -> Nat]] /\ received \in Counters
  /\ catcher \in Seq(Frames) /\ blocked \subseteq Signals /\ mode_set \in BOOLEAN
  /\ unanswered \in Nat

(* STOP is sent once, after all targets, and handled once. *)
Nowhere(places) == \A n \in DOMAIN catcher : catcher[n].at \notin places
OneStop ==
  /\ pending["catcher"]["stop"] \in 0 .. 1
  /\ sender = "send" \/ pending["catcher"]["stop"] = 1 => Nowhere({"stop", "answer", "answered"})
  /\ sender = "send" => pending["catcher"]["stop"] = 0

(* Nothing interrupts the answer: targets are blocked, or there are no more. *)
Uninterrupted ==
  /\ \A n \in 1 .. Len(catcher) - 1 : catcher[n].at \notin {"answer", "answered", "exiting"}
  /\ Top.at \in {"answer", "answered"} => "target" \in blocked \/ pending["catcher"]["target"] = 0

(* How many have come, and how many have been sent back. *)
Counted ==
  signals_count - unsent =
    received["catcher"] + pending["catcher"]["target"] + Cardinality(Uncounted)
Returned ==
  LET back == received["sender"] + pending["sender"]["target"] IN
    /\ Top.at \notin {"answer", "answered", "exiting"} => back = 0
    /\ Top.at = "answer" => back + unanswered = received["catcher"]
    /\ Top.at = "answered" => back = received["catcher"]

IInv ==
  /\ TypeOK
  /\ mode = "sigrt" /\ CatcherRuns => OneStop /\ Uninterrupted /\ Counted /\ Returned
===============================================================================
