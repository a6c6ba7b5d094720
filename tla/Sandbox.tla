--------------------------------- MODULE Sandbox ---------------------------------
(***************************************************************************)
(* One invocation of a subscription client: the worker that starts its     *)
(* systemd unit, hands the request over in the directory of the invocation *)
(* and polls for the result; the unit, whose scripts make and remove the   *)
(* directories; the supervisor within; the timer that removes orphans.     *)
(*                                                                         *)
(* The worker sees the unit by `systemctl show` and the file system alone, *)
(* may be cancelled or die at any time, and any of its waits may run out.  *)
(* Whose every file is, and that none is a link, is checked by all of them *)
(* (verifyInvocationDirectory, openVerifiedRegularFile, the supervisor's   *)
(* pinned directories): a check that fails is a step that fails.           *)
(***************************************************************************)
EXTENDS Naturals

VARIABLES caller,    \* the worker: where SystemdSubscriptionSandbox.run is
          outcome,   \* what it comes to
          cleanups,  \* cleanups begun
          unit,      \* ActiveState and SubState, "queued" when a start is to be done
          status,    \* StatusText is result-published
          procs,     \* there are processes in the cgroup
          dirs,      \* directories of the invocation that are there
          request,   \* request.json: where it is
          result     \* result.json is there

vars == <<caller, outcome, cleanups, unit, status, procs, dirs, request, result>>

-----------------------------------------------------------------------------
Phase == {"S0", "S1", "S2", "S3", "S4", "S5"}
Cleanup == {"stop", "kill", "terminal", "cgroup", "directory"}
Over == {"ended", "dead"}
Outcome == {"none", "result", "error"}

TypeOK ==
    /\ caller \in Phase \cup Cleanup \cup Over
    /\ outcome \in Outcome \cup {"uncleaned", "unstarted"}
    /\ cleanups \in 0..2
    /\ unit \in {"inactive", "queued", "start-pre", "start", "running", "stopping", "stop-post"}
    /\ status \in BOOLEAN /\ procs \in BOOLEAN /\ result \in BOOLEAN
    /\ dirs \subseteq {"approved", "invocation"}
    /\ request \in {"none", "written", "sealed"}

Init == /\ caller = "S0" /\ outcome = "none" /\ cleanups = 0
        /\ unit = "inactive" /\ procs = FALSE /\ status = FALSE
        /\ dirs = {} /\ request = "none" /\ result = FALSE

callerVars == <<caller, outcome, cleanups>>
unitVars == <<unit, status, procs>>
fileVars == <<dirs, request, result>>

-----------------------------------------------------------------------------
(***************************************************************************)
(* The worker                                                              *)
(***************************************************************************)

\* ActiveState before the start is done is inactive too.
IsTerminal == unit \in {"inactive", "queued"}

Goto(pc) == caller' = pc /\ UNCHANGED <<outcome, cleanups>>

\* The invocation fails, and what was started is cleaned up.
Fail == /\ caller' = "stop" /\ outcome' = "error" /\ cleanups' = cleanups + 1

\* Cancelled before anything was asked for, or startNoBlock.  When that throws, the
\* manager has refused the start, or has taken it and systemctl has failed, was
\* killed or ran out of time before it said so: startRequested is not set, and
\* nothing is cleaned up.
Start ==
    /\ caller = "S0"
    /\ \/ unit' = "queued" /\ Goto("S1")
       \/ UNCHANGED <<unit, cleanups>> /\ caller' = "ended" /\ outcome' = "error"
       \/ /\ unit' \in {unit, "queued"} /\ UNCHANGED cleanups
          /\ caller' = "ended" /\ outcome' = "unstarted"
    /\ UNCHANGED <<status, procs, fileVars>>

\* The waits: for the directory, then MAIN, then READY, then the result, which is
\* checked against the invocation.
Waited(phase) ==
    CASE phase = "S1" -> "invocation" \in dirs
      [] phase = "S3" -> unit \in {"start", "running"}
      [] phase = "S4" -> unit = "running"
      [] phase = "S5" -> status /\ result

After == [S1 |-> "S2", S3 |-> "S4", S4 |-> "S5"]

Wait ==
    /\ caller \in {"S1", "S3", "S4", "S5"} /\ ~IsTerminal /\ Waited(caller)
    /\ IF caller \in {"S1", "S3", "S4"} THEN Goto(After[caller])
       ELSE caller' = "stop" /\ outcome' = "result" /\ cleanups' = cleanups + 1
    /\ UNCHANGED <<unitVars, fileVars>>

\* A wait that sees the unit over, whatever else is there by then.
SeesTerminal ==
    /\ caller \in {"S1", "S3", "S4", "S5"} /\ IsTerminal
    /\ Fail
    /\ UNCHANGED <<unitVars, fileVars>>

\* The wait's own deadline, longer or shorter than those of the unit.
RunsOut ==
    /\ caller \in {"S1", "S3", "S4", "S5"}
    /\ Fail
    /\ UNCHANGED <<unitVars, fileVars>>

\* verifyInvocationDirectory: it is gone, or is not the one it has to be.
BadDirectory ==
    /\ caller = "S2"
    /\ Fail
    /\ UNCHANGED <<unitVars, fileVars>>

\* openVerifiedRegularFile, and what the file says: not the result of this
\* invocation, or gone with the unit.
BadResult ==
    /\ caller = "S5" /\ status
    /\ Fail
    /\ UNCHANGED <<unitVars, fileVars>>

\* Seen before a wait, in it, or before the request is written; or systemctl fails.
Cancelled ==
    /\ caller \in Phase \ {"S0"}
    /\ Fail
    /\ UNCHANGED <<unitVars, fileVars>>

\* writeAtomicIpcJson, which may fail after the file has got its name.
WriteRequest ==
    /\ caller = "S2" /\ "invocation" \in dirs
    /\ request' = "written"
    /\ Goto("S3") \/ Fail
    /\ UNCHANGED <<unitVars, dirs, result>>

\* What a stop comes to: it takes the place of a start that is queued.
Stopped == CASE unit = "queued" -> "inactive"
             [] unit \in {"start-pre", "start", "running"} -> "stopping"
             [] OTHER -> unit

\* cleanup
Stop ==
    /\ caller = "stop"
    /\ unit' = Stopped
    /\ Goto("kill")
    /\ UNCHANGED <<status, procs, fileVars>>

\* What a kill may leave of the processes.
Killed == IF unit = "stopping" THEN {procs, FALSE} ELSE {procs}

KillAll ==
    /\ caller = "kill"
    /\ procs' \in Killed
    /\ Goto("terminal")
    /\ UNCHANGED <<unit, status, fileVars>>

\* A bug for the mutants: the directory is left to the unit.
LeftToUnit(check) == CASE check = "terminal" -> IsTerminal
                       [] check = "cgroup" -> ~procs
                       [] check = "directory" -> TRUE

Passed(check) == CASE check = "terminal" -> IsTerminal
                   [] check = "cgroup" -> ~procs
                   [] check = "directory" -> "invocation" \notin dirs

NextCheck == [terminal |-> "cgroup", cgroup |-> "directory", directory |-> "ended"]

Check ==
    /\ caller \in {"terminal", "cgroup", "directory"} /\ Passed(caller)
    /\ Goto(NextCheck[caller])
    /\ UNCHANGED <<unitVars, fileVars>>

\* A step of the cleanup fails, done for all that or not, or its wait runs out:
\* that of a result is done once more, and the result is lost; that of an error is
\* given up.
CleanupFails ==
    /\ caller \in Cleanup
    /\ IF outcome = "result" THEN Fail
       ELSE caller' = "ended" /\ outcome' = "uncleaned" /\ UNCHANGED cleanups
    /\ unit' \in IF caller = "stop" THEN {unit, Stopped} ELSE {unit}
    /\ procs' \in IF caller = "kill" THEN Killed ELSE {procs}
    /\ UNCHANGED <<status, fileVars>>

WorkerDies ==
    /\ caller \notin Over
    /\ caller' = "dead" /\ outcome' = "none"
    /\ UNCHANGED <<cleanups, unitVars, fileVars>>

-----------------------------------------------------------------------------
(***************************************************************************)
(* The unit: manage-invocation.sh before and after, and the supervisor.    *)
(***************************************************************************)
UnitStarts ==
    /\ unit = "queued"
    /\ unit' = "start-pre" /\ procs' = TRUE
    /\ UNCHANGED <<callerVars, status, fileVars>>

\* prepare_and_wait
Prepare ==
    /\ unit = "start-pre"
    /\ dirs' = IF dirs = {} THEN {"approved"} ELSE {"approved", "invocation"}
    /\ dirs' # dirs
    /\ UNCHANGED <<callerVars, unitVars, request, result>>

\* approveRequest: a sealed copy, and the original is taken away.
Approve ==
    /\ unit = "start-pre" /\ request = "written"
    /\ request' = "sealed"
    /\ unit' = "start"
    /\ UNCHANGED <<callerVars, status, procs, dirs, result>>

Ready ==
    /\ unit = "start" /\ request = "sealed"
    /\ unit' = "running"
    /\ UNCHANGED <<callerVars, status, procs, fileVars>>

\* executeClient, atomicResult, and only then the status.
Publish ==
    /\ unit = "running" /\ ~status
    /\ IF ~result THEN result' = TRUE /\ UNCHANGED status ELSE status' = TRUE /\ UNCHANGED result
    /\ UNCHANGED <<callerVars, unit, procs, dirs, request>>

\* A script or the supervisor fails, TimeoutStartSec or RuntimeMaxSec is over.
UnitFails ==
    /\ unit \in {"start-pre", "start", "running"}
    /\ unit' = "stopping"
    /\ UNCHANGED <<callerVars, status, procs, fileVars>>

\* KillMode, TimeoutStopSec and SendSIGKILL; a process may outlive them for a while.
UnitStops ==
    /\ unit = "stopping"
    /\ unit' = "stop-post" /\ procs' \in {procs, FALSE} /\ status' = FALSE
    /\ UNCHANGED <<callerVars, fileVars>>

\* ExecStopPost: cleanup, which may fail before either of the directories.
StopPost ==
    /\ unit = "stop-post"
    /\ unit' = "inactive"
    /\ dirs' \in {{}, dirs \ {"invocation"}, dirs}
    /\ request' = IF dirs' = {} THEN "none" ELSE request
    /\ result' = ("invocation" \in dirs' /\ result)
    /\ UNCHANGED <<callerVars, status, procs>>

ProcessEnds ==
    /\ unit = "inactive" /\ procs
    /\ procs' = FALSE
    /\ UNCHANGED <<callerVars, unit, status, fileVars>>

\* subscriptionGcDecision: a unit that is over, and a directory that is old.
MayRemove == unit = "inactive"

\* gc looks for directories of invocations, and removes both.
CollectOrphan ==
    /\ "invocation" \in dirs /\ MayRemove
    /\ dirs' = {} /\ request' = "none" /\ result' = FALSE
    /\ UNCHANGED <<callerVars, unitVars>>

-----------------------------------------------------------------------------
UnitStep == \/ UnitStarts \/ Prepare \/ Approve \/ Ready \/ Publish
            \/ UnitFails \/ UnitStops \/ StopPost \/ ProcessEnds

CallerStep == \/ Start \/ Wait \/ SeesTerminal \/ RunsOut \/ Cancelled
              \/ BadDirectory \/ BadResult \/ WriteRequest \/ Stop \/ KillAll \/ Check \/ CleanupFails

Next == CallerStep \/ UnitStep \/ WorkerDies \/ CollectOrphan

\* Every wait of the worker has an end, and so has every state of a unit; the
\* timer comes again.
Fairness == /\ WF_vars(CallerStep)
            /\ WF_vars(UnitStarts) /\ WF_vars(UnitFails) /\ WF_vars(UnitStops)
            /\ WF_vars(StopPost) /\ WF_vars(ProcessEnds) /\ WF_vars(CollectOrphan)

Spec == Init /\ [][Next]_vars /\ Fairness

-----------------------------------------------------------------------------
Gone == unit = "inactive" /\ ~procs /\ "invocation" \notin dirs

\* Once the start is confirmed, what run returns, or throws short of a failed
\* cleanup, leaves neither a unit that goes on, nor a process, nor the directory of
\* the invocation; nor does a run that was cancelled before it asked for the start.
NothingLeft == caller = "ended" /\ outcome \notin {"uncleaned", "unstarted"} => Gone

\* Whoever died or gave up, or never heard that its start was taken: in the end the
\* unit is over and its directory gone.
InvocationEnds == <>[]Gone
=============================================================================
