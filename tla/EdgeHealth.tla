------------------------------- MODULE EdgeHealth -------------------------------
(***************************************************************************)
(* _execute_signed_health_plan: the runtime runs the signed local health   *)
(* gates in order.  A gate has a number of attempts, each with a deadline  *)
(* of its own; an attempt runs the checks of the gate one after the other, *)
(* while the services it asks go up and down.  The commands get what is    *)
(* left of the attempt as their timeout; file reads have none.             *)
(***************************************************************************)
EXTENDS Integers, Sequences, FiniteSets

CONSTANTS
  Timeout,      \* clock ticks of an attempt, 30 seconds in every signed plan
  PingTimeout,  \* most ticks of one RTPengine ping
  SlowRead,     \* most ticks a read of immutable files takes
  MaxFlips      \* bound: changes of what the host would answer

ASSUME HealthConstants ==
  /\ Timeout \in Nat \ {0} /\ PingTimeout \in 1..Timeout
  /\ SlowRead \in 0..Timeout /\ MaxFlips \in Nat

GateOrder == <<"ARTIFACT_DIGESTS", "OPENSIPS_CONFIG", "RTPENGINE_READY">>

MaxAttempts == [ARTIFACT_DIGESTS |-> 1, OPENSIPS_CONFIG |-> 1, RTPENGINE_READY |-> 3]

Checks ==
  [ARTIFACT_DIGESTS |-> <<"release", "binding">>,
   OPENSIPS_CONFIG  |-> <<"offline parse", "active parse", "opensips content">>,
   RTPENGINE_READY  |-> <<"service", "ping", "sockets", "rtpengine content">>]

AllChecks == UNION {{Checks[g][i] : i \in DOMAIN Checks[g]} : g \in DOMAIN Checks}

Commands == {"offline parse", "active parse", "service", "ping", "sockets"}

VARIABLES
  hostPasses,   \* the checks the host would pass now
  flips,
  gateClock,
  gateRun,      \* gate, attempt, checks done, start of the attempt, verdict
  gateResults   \* what the evidence will hold, with the times it came from

healthVars == <<hostPasses, flips, gateClock, gateRun, gateResults>>

GateOf == GateOrder[gateRun.gate]

(* The checks that passed, each with its time.                              *)
FirstAttempt(gate) ==
  [gate |-> gate, attempt |-> 1, done |-> <<>>, start |-> gateClock,
   verdict |-> "running"]

HealthInit ==
  /\ hostPasses \in {AllChecks, AllChecks \ {"ping"}} /\ flips = 0
  /\ gateClock = 0
  /\ gateRun = FirstAttempt(1)
  /\ gateResults = <<>>

-----------------------------------------------------------------------------
Testing == gateRun.verdict = "running"

NextCheck == Checks[GateOf][Len(gateRun.done) + 1]

AllDone == Len(gateRun.done) = Len(Checks[GateOf])

(* _remaining_gate_timeout                                                  *)
Remaining == gateRun.start + Timeout - gateClock

(* Mutant: a command has its default timeout.                               *)
DefaultLimit(check) == Timeout

Limit(check) ==
  IF check = "ping" /\ Remaining > PingTimeout THEN PingTimeout ELSE Remaining

CheckPasses ==
  /\ Testing /\ ~AllDone /\ NextCheck \in hostPasses
  /\ NextCheck \in Commands => Remaining > 0
  /\ \E d \in 0..(IF NextCheck \in Commands THEN Limit(NextCheck) ELSE SlowRead) :
       /\ gateClock' = gateClock + d
       /\ gateRun' = [gateRun EXCEPT !.done = Append(@, [check |-> NextCheck,
                                                         at |-> gateClock'])]
  /\ UNCHANGED <<hostPasses, flips, gateResults>>

(* Mutant: a retry goes on with the check that failed.                      *)
ResumeAttempt ==
  gateRun' = [gateRun EXCEPT !.attempt = @ + 1, !.start = gateClock']

NextAttempt ==
  gateRun' = [gateRun EXCEPT !.attempt = @ + 1, !.done = <<>>, !.start = gateClock']

(* RuntimeApplyError: another attempt, at once, or the end.                 *)
Retry ==
  IF gateRun.attempt < MaxAttempts[GateOf]
  THEN NextAttempt ELSE gateRun' = [gateRun EXCEPT !.verdict = "failed"]

(* A command that fails or times out, content that differs.                 *)
CheckFails ==
  /\ Testing /\ ~AllDone
  /\ \/ /\ NextCheck \in Commands /\ Remaining <= 0
        /\ UNCHANGED gateClock
     \/ /\ NextCheck \in Commands /\ Remaining > 0
        /\ \E d \in 0..Limit(NextCheck) :
             /\ NextCheck \notin hostPasses \/ d = Limit(NextCheck)
             /\ gateClock' = gateClock + d
     \/ /\ NextCheck \notin Commands \cup {"release"} /\ NextCheck \notin hostPasses
        /\ \E d \in 0..SlowRead : gateClock' = gateClock + d
  /\ Retry
  /\ UNCHANGED <<hostPasses, flips, gateResults>>

(* RuntimeSecurityError is not caught: a release whose files are not what   *)
(* they were ends the plan.                                                 *)
CheckRefuses ==
  /\ Testing /\ ~AllDone
  /\ NextCheck \notin Commands \cup {"binding"} /\ NextCheck \notin hostPasses
  /\ gateRun' = [gateRun EXCEPT !.verdict = "refused"]
  /\ UNCHANGED <<hostPasses, flips, gateClock, gateResults>>

Result ==
  [type |-> GateOf, attempts |-> gateRun.attempt, start |-> gateRun.start,
   end |-> gateClock, proofs |-> gateRun.done]

(* Mutant: the attempts of the gate before count.                           *)
CarryAttempts(gate) == [FirstAttempt(gate) EXCEPT !.attempt = gateRun.attempt + 1]

Begin(gate) == FirstAttempt(gate)

(* Mutant: the deadline is not looked at once more.                         *)
PassLate == AllDone

MayPass == AllDone /\ Remaining > 0

GatePasses ==
  /\ Testing /\ MayPass
  /\ gateResults' = Append(gateResults, Result)
  /\ gateRun' = IF gateRun.gate = Len(GateOrder)
                THEN [gateRun EXCEPT !.verdict = "passed"]
                ELSE Begin(gateRun.gate + 1)
  /\ UNCHANGED <<hostPasses, flips, gateClock>>

GateLate ==
  /\ Testing /\ AllDone /\ Remaining <= 0
  /\ UNCHANGED gateClock /\ Retry
  /\ UNCHANGED <<hostPasses, flips, gateResults>>

(* A service stops or comes up, files are touched.                          *)
HostChanges ==
  /\ Testing /\ flips < MaxFlips /\ flips' = flips + 1
  /\ \E c \in AllChecks :
       hostPasses' = IF c \in hostPasses THEN hostPasses \ {c} ELSE hostPasses \cup {c}
  /\ UNCHANGED <<gateClock, gateRun, gateResults>>

HealthNext ==
  \/ CheckPasses \/ CheckFails \/ CheckRefuses \/ GatePasses \/ GateLate \/ HostChanges

HealthSpec == HealthInit /\ [][HealthNext]_healthVars

-----------------------------------------------------------------------------
(* _validate_health_gate_results of the agent, which decides later whether  *)
(* the candidate may be committed.                                          *)
AgentAccepts(results) ==
  /\ Len(results) = Len(GateOrder)
  /\ \A i \in DOMAIN results :
       /\ results[i].type = GateOrder[i]
       /\ results[i].attempts \in 1..MaxAttempts[GateOrder[i]]
       /\ Len(results[i].proofs) = Len(Checks[GateOrder[i]])

HealthTypeOK ==
  /\ hostPasses \subseteq AllChecks /\ flips \in 0..MaxFlips
  /\ gateClock \in Nat
  /\ gateRun.gate \in 1..3 /\ gateRun.attempt \in 1..MaxAttempts[GateOf]
  /\ gateRun.verdict \in {"running", "passed", "failed", "refused"}
  /\ Len(gateRun.done) <= Len(Checks[GateOf]) /\ Len(gateResults) <= 3

(* What the runtime passes, the agent accepts as evidence.                  *)
PassedIsAccepted ==
  gateRun.verdict = "passed" => AgentAccepts(gateResults)

(* Every proof of a passed gate is of the one attempt that passed, in the   *)
(* order of the checks, and that attempt ended before its deadline.         *)
ProofsAreOfOneAttempt ==
  \A i \in DOMAIN gateResults :
    LET r == gateResults[i] IN
      /\ r.end - r.start < Timeout
      /\ \A k \in DOMAIN r.proofs :
           r.proofs[k].check = Checks[r.type][k] /\ r.proofs[k].at \in r.start..r.end

(* No attempt lasts longer than was signed, but for a file read at its end, *)
(* nor the plan longer than its attempts: until then the services of the    *)
(* candidate carry the calls, and nobody else gets the lock.                *)
PlanEndsInTime ==
  /\ gateClock - gateRun.start <= Timeout + SlowRead
  /\ gateClock <= (gateRun.gate - 1 + gateRun.attempt) * (Timeout + SlowRead)

(* What the gates report holds: each attempt in its own time with its own   *)
(* proofs, and a pass that the agent accepts when it reads the evidence.    *)
GateResultsHold == PassedIsAccepted /\ ProofsAreOfOneAttempt /\ PlanEndsInTime
=============================================================================
