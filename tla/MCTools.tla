------------------------------ MODULE MCTools ------------------------------
(***************************************************************************)
(* The tools of the toolbox: one run of the return-path tool, of one of    *)
(* the tools that ask others about the host, or one probe of a service.    *)
(***************************************************************************)
EXTENDS Trace, Checks, Unlock, TLC

CONSTANTS t1, t2

MCTargets == {t1, t2}
MCDistance == t1 :> 1 @@ t2 :> 3
MCNamed == {[dst |-> t1, ttl |-> 1], [dst |-> t2, ttl |-> 2]}

MCCarriers == <<"telecom", "unicom">>
Server == [carrier : {"telecom", "unicom", "other"}, distance : 0..2]
MCListings == UNION {[1..n -> Server] : n \in 0..2}

(* One run of one tool; the panel starts no other before it ended. *)
VARIABLE kind

RunsInit ==
    /\ kind \in {"trace", "checks", "unlock"}
    /\ TraceInit /\ ChecksInit /\ UnlockInit
    /\ kind # "checks" => tool = "ports"
    /\ kind # "unlock" => service = "steam"

RunsNext ==
    /\ UNCHANGED kind
    /\ \/ kind = "trace" /\ TraceNext /\ UNCHANGED <<checksVars, unlockVars>>
       \/ kind = "checks" /\ ChecksNext /\ UNCHANGED <<traceVars, unlockVars>>
       \/ kind = "unlock" /\ UnlockNext /\ UNCHANGED <<traceVars, checksVars>>

runVars == <<kind, traceVars, checksVars, unlockVars>>
Fairly(action) ==
    kind = "trace" /\ action /\ UNCHANGED <<kind, checksVars, unlockVars>>

RunsSpec ==
    /\ RunsInit /\ [][RunsNext]_runVars
    /\ \A t \in MCTargets : WF_runVars(Fairly(Work(t)))
    /\ WF_runVars(Fairly(Conclude))

(* A run of the return-path tool returns, whatever else fails and whenever *)
(* it is cancelled: no worker waits for a lock, a slot or a reply for      *)
(* good.  The one run that does not return is one whose read failed: every *)
(* trace has ended by then, but closing the socket a second time panics,   *)
(* against the tools' own "never panic" (RunNeverPanics).                  *)
TraceEnds == <>(kind # "trace" \/ Returned \/ PanickedOnRead)

=============================================================================
