--------------------------- MODULE LanEngagement ----------------------------
(***************************************************************************)
(* What `mcpscan lan` promises, without saying how: an engagement is       *)
(* decided first, a packet leaves only for an endpoint of the call's       *)
(* mandate and only while the engagement is open, never more probes than   *)
(* the ceiling, and exit status 2 means that nothing was sent.             *)
(***************************************************************************)
EXTENDS Integers, Sequences

CONSTANTS
  Call,         \* invocations
  Mandate(_),   \* the endpoints an invocation is authorised to probe
  Ceiling(_)    \* how many probes it may send

VARIABLES
  call,      \* the invocation
  phase,     \* "deciding", "engaged", "closing" or "over"
  log,       \* the probes sent, in order
  status     \* exit status, -1 until the process exits

vars == <<call, phase, log, status>>

Init ==
  /\ call \in Call
  /\ phase = "deciding"
  /\ log = << >>
  /\ status = -1

Decline ==
  /\ phase = "deciding"
  /\ phase' = "over"
  /\ status' = 2
  /\ UNCHANGED <<call, log>>

Engage ==
  /\ phase = "deciding"
  /\ Mandate(call) # {}
  /\ phase' = "engaged"
  /\ UNCHANGED <<call, log, status>>

(* A dry run: the plan is reported without engaging.                       *)
Preview ==
  /\ phase = "deciding"
  /\ phase' = "closing"
  /\ UNCHANGED <<call, log, status>>

(* No endpoint is probed twice.                                            *)
Touch(e) ==
  /\ phase = "engaged"
  /\ \A i \in 1 .. Len(log) : log[i] # e
  /\ Len(log) < Ceiling(call)
  /\ log' = Append(log, e)
  /\ UNCHANGED <<call, phase, status>>

Close ==
  /\ phase = "engaged"
  /\ phase' = "closing"
  /\ UNCHANGED <<call, log, status>>

Exit(s) ==
  /\ phase \in {"engaged", "closing"}
  /\ s # 2
  /\ phase' = "over"
  /\ status' = s
  /\ UNCHANGED <<call, log>>

Next ==
  \/ Decline
  \/ Engage
  \/ Preview
  \/ \E e \in Mandate(call) : Touch(e)
  \/ Close
  \/ \E s \in {0, 1, 130} : Exit(s)

Spec == Init /\ [][Next]_vars
=============================================================================
