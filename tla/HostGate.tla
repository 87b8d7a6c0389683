------------------------------ MODULE HostGate ------------------------------
(***************************************************************************)
(* What httpx.DomainLimiter promises its callers: a caller that asks for a *)
(* host waits, is granted the host while fewer than MaxConcurrent callers  *)
(* have it, and gives it back by calling the returned release function.    *)
(* DomainLimiter implements this specification; EngineCrawl is built on it.*)
(***************************************************************************)
EXTENDS Naturals, FiniteSets

CONSTANTS Proc,           \* goroutines that call Acquire
          Host,           \* host names
          MaxConcurrent,  \* DomainLimiter.maxConcurrent
          NoHost          \* "asks for nothing"

ASSUME ProcAssumption == IsFiniteSet(Proc)
ASSUME MaxConcurrentAssumption == MaxConcurrent \in Nat
ASSUME NoHostAssumption == NoHost \notin Host

VARIABLES phase,   \* phase[p]: "idle", "waiting" (in Acquire) or "granted"
          wants    \* wants[p]: the host p asked for

gateVars == <<phase, wants>>

Granted(h) == {p \in Proc : phase[p] = "granted" /\ wants[p] = h}

GateTypeOK ==
  /\ phase \in [Proc -> {"idle", "waiting", "granted"}]
  /\ wants \in [Proc -> Host \cup {NoHost}]

GateInit ==
  /\ phase = [p \in Proc |-> "idle"]
  /\ wants = [p \in Proc |-> NoHost]

\* The call of Acquire.
Ask(p, h) ==
  /\ phase[p] = "idle"
  /\ phase' = [phase EXCEPT ![p] = "waiting"]
  /\ wants' = [wants EXCEPT ![p] = h]

\* Acquire returns.
Grant(p) ==
  /\ phase[p] = "waiting"
  /\ Cardinality(Granted(wants[p])) < MaxConcurrent
  /\ phase' = [phase EXCEPT ![p] = "granted"]
  /\ UNCHANGED wants

\* The release function returns.
GiveBack(p) ==
  /\ phase[p] = "granted"
  /\ phase' = [phase EXCEPT ![p] = "idle"]
  /\ wants' = [wants EXCEPT ![p] = NoHost]

GateNext ==
  \E p \in Proc : (\E h \in Host : Ask(p, h)) \/ Grant(p) \/ GiveBack(p)

GateSpec == GateInit /\ [][GateNext]_gateVars
=============================================================================
