----------------------------- MODULE Replacement -----------------------------
(***************************************************************************)
(* Managed replacement of a source root on a server: the client side,      *)
(* ReplacementComposition::execute, and the two shell scripts it has the   *)
(* server run, replacement_staging_command and commit_replacement_command. *)
(*                                                                         *)
(* The first script unpacks the backup beside the root.  The second stops  *)
(* the containers, renames the root to a rollback path and the unpacked    *)
(* tree to the root, starts the containers and looks whether they run.     *)
(* Then it either removes the staging directory or renames back            *)
(* (rollback_cutover) and exits with 42 or 43; which of the two is decided *)
(* by the shell's reading of its if, see Health.                           *)
(*                                                                         *)
(* A script is a process of its own.  It keeps running when its client     *)
(* times out, loses the connection or dies; a signal makes it run its trap *)
(* between two commands and then go on where it was; it can also be killed *)
(* outright.  Nothing on either side keeps two runs off the same root.     *)
(*                                                                         *)
(* A path holds a set of trees, empty when the path does not exist: mv to  *)
(* a directory that exists puts the source inside it.                      *)
(***************************************************************************)
EXTENDS Naturals, Sequences, FiniteSets

CONSTANTS
    Run,           \* run identifiers, and the trees their backups unpack to
    Original,      \* the tree at the root before the first run
    Container,     \* containers mounted on the root
    FaultKinds,    \* faults that may happen, a subset of AllFaults
    MaxFaults      \* bound on faults, all kinds together

\* io: an audit record cannot be written; mv, stop, start: that command fails;
\* health: a container dies on its new data; lost: the client loses its script;
\* kill: a script dies; crash: a client dies; signal: a script gets HUP or TERM.
AllFaults == {"io", "mv", "stop", "start", "health", "lost", "kill", "crash",
              "signal"}

ASSUME RunAssumption == Original \notin Run
ASSUME FaultAssumption ==
    FaultKinds \subseteq AllFaults /\ MaxFaults \in Nat

Tree == Run \cup {Original}

-----------------------------------------------------------------------------
VARIABLES
    pc,         \* pc[r]: where the client of run r is
    result,     \* result[r]: what execute_inner returned
    audit,      \* audit[r]: replacement-<run>-<state>.json records
    cancelled,  \* runs whose CancellationHandle is set
    rpc,        \* rpc[r]: where the run's script on the server is
    stack,      \* stack[r]: where rollback_cutover returns to
    code,       \* code[r]: exit code of the run's last script
    list,       \* list[r]: the containers the run stops and starts
    root,       \* trees at the source root
    source,     \* source[r]: trees at $staging/$root
    rollback,   \* rollback[r]: trees at .guardian-rollback.<run>
    failed,     \* failed[r]: trees at $staging/.failed
    running,    \* containers that run
    everLive,   \* trees that were ever at the root
    faults      \* faults so far

client == <<pc, result, audit, cancelled>>
script == <<rpc, stack, code, list>>
paths == <<root, source, rollback, failed, everLive>>
vars == <<client, script, paths, running, faults>>

\* rollback_cutover, the cutover with its trap set, and the rest of it.
Reversal == {"rbStop", "rbTest", "rbOut", "rbIn", "rbStart"}
Trapped == {"check", "stop", "moveOut", "moveIn", "putBack", "restart", "start",
            "health"} \cup Reversal
Cutover == Trapped \cup {"cleanup"}

ClientTypes ==
    /\ pc \in [Run -> {"idle", "prepare", "push", "polled", "commit", "audit",
                       "done", "dead"}]
    /\ result \in [Run -> {"none", "ok", "rolledBack", "rollbackFailed", "error"}]
    /\ audit \in [Run -> SUBSET {"attempted", "completed", "rolled_back",
                                 "cancelled", "failed"}]
    /\ cancelled \subseteq Run

ScriptTypes ==
    /\ rpc \in [Run -> Cutover \cup {"none", "stage", "ended", "killed"}]
    /\ stack \in [Run -> Seq(Trapped \cup {"exit"})]
    /\ code \in [Run -> {0, 1, 42, 43}]
    /\ list \in [Run -> SUBSET Container]

PathTypes ==
    /\ root \subseteq Tree /\ everLive \subseteq Tree
    /\ source \in [Run -> SUBSET Tree]
    /\ rollback \in [Run -> SUBSET Tree]
    /\ failed \in [Run -> SUBSET Tree]

TypeOK ==
    /\ ClientTypes /\ ScriptTypes /\ PathTypes
    /\ running \subseteq Container
    /\ faults \in 0..MaxFaults

Init ==
    /\ pc = [r \in Run |-> "idle"] /\ result = [r \in Run |-> "none"]
    /\ audit = [r \in Run |-> {}] /\ cancelled = {}
    /\ rpc = [r \in Run |-> "none"] /\ stack = [r \in Run |-> <<>>]
    /\ code = [r \in Run |-> 0] /\ list = [r \in Run |-> {}]
    /\ root = {Original} /\ everLive = {Original}
    /\ source = [r \in Run |-> {}] /\ rollback = [r \in Run |-> {}]
    /\ failed = [r \in Run |-> {}]
    /\ running \in SUBSET Container
    /\ faults = 0

Fault(kind) ==
    /\ kind \in FaultKinds /\ faults < MaxFaults
    /\ faults' = faults + 1

Fine == UNCHANGED faults

-----------------------------------------------------------------------------
(* The client. *)

\* The run is registered with the JobRegistry.
Busy == {"prepare", "push", "polled", "commit", "audit"}

Client(r, step) == pc' = [pc EXCEPT ![r] = step]

\* execute_inner returned.
Returns(r, value) ==
    /\ Client(r, "audit")
    /\ result' = [result EXCEPT ![r] = value]

\* The attempted record is strict and create-only: a run identifier serves once.
Attempt(r) ==
    /\ pc[r] = "idle"
    /\ \/ /\ Client(r, "prepare") /\ Fine
          /\ audit' = [audit EXCEPT ![r] = {"attempted"}]
       \/ Client(r, "done") /\ Fault("io") /\ UNCHANGED audit
    /\ UNCHANGED <<result, cancelled, script, paths, running>>

\* The ready probe: the root is there (its parent being writable never changes).
Ready == root # {}

\* reconcile_workloads: the active ones among the recorded containers.
Impact == running

\* plan, approve and the payload reader: the probes see the root and which
\* containers run, and poll the cancellation handle.  The operator confirmed
\* that list or approve fails.  Then the staging script is started.
Prepare(r) ==
    /\ pc[r] = "prepare"
    /\ \/ /\ r \notin cancelled /\ Ready
          /\ Client(r, "push")
          /\ list' = [list EXCEPT ![r] = Impact]
          /\ rpc' = [rpc EXCEPT ![r] = "stage"]
          /\ UNCHANGED <<result, stack, code>>
       \/ Returns(r, "error") /\ UNCHANGED script
    /\ UNCHANGED <<audit, cancelled, paths, running, faults>>

\* Mutant: the push no longer looks at the cancellation handle.
PushPoll_IgnoresCancel(r) ==
    /\ pc[r] = "push"
    /\ Client(r, "polled") /\ UNCHANGED result
    /\ UNCHANGED <<audit, cancelled, script, paths, running, faults>>

\* push_to waits in a loop that first polls the cancellation handle and then
\* looks at the script: a cancellation between the two comes too late.
PushPoll(r) ==
    /\ pc[r] = "push"
    /\ IF r \in cancelled THEN Returns(r, "error")
                          ELSE Client(r, "polled") /\ UNCHANGED result
    /\ UNCHANGED <<audit, cancelled, script, paths, running, faults>>

\* Mutant: a connection that ends without an exit code is waited for.
PushWait_ForgetsKilled(r) ==
    /\ pc[r] = "polled"
    /\ \/ /\ rpc[r] = "ended" /\ code[r] = 0
          /\ Client(r, "commit") /\ rpc' = [rpc EXCEPT ![r] = "check"]
          /\ Fine /\ UNCHANGED result
       \/ /\ rpc[r] \in {"stage", "killed"}
          /\ Client(r, "push") /\ Fine /\ UNCHANGED <<result, rpc>>
       \/ /\ rpc[r] = "ended" /\ code[r] # 0
          /\ Returns(r, "error") /\ Fine /\ UNCHANGED rpc
       \/ Fault("lost") /\ Returns(r, "error") /\ UNCHANGED rpc
    /\ UNCHANGED <<audit, cancelled, stack, code, list, paths, running>>

\* The cutover starts once the staging script has succeeded.
PushWait(r) ==
    /\ pc[r] = "polled"
    /\ \/ /\ rpc[r] = "ended" /\ code[r] = 0
          /\ Client(r, "commit") /\ rpc' = [rpc EXCEPT ![r] = "check"]
          /\ Fine /\ UNCHANGED result
       \/ rpc[r] = "stage" /\ Client(r, "push") /\ Fine /\ UNCHANGED <<result, rpc>>
       \/ /\ rpc[r] = "killed" \/ (rpc[r] = "ended" /\ code[r] # 0)
          /\ Returns(r, "error") /\ Fine /\ UNCHANGED rpc
       \/ Fault("lost") /\ Returns(r, "error") /\ UNCHANGED rpc
    /\ UNCHANGED <<audit, cancelled, stack, code, list, paths, running>>

\* Mutant: exit code 43 taken for 42.
Outcome_Mixed(c) ==
    CASE c = 0 -> "ok" [] c \in {42, 43} -> "rolledBack" [] OTHER -> "error"

Outcome(c) ==
    IF c = 0 THEN "ok"
    ELSE IF c = 42 THEN "rolledBack"
    ELSE IF c = 43 THEN "rollbackFailed" ELSE "error"

\* commit_replacement_to waits with a handle of its own, so a cancellation
\* does not end the wait.
CommitDone(r) ==
    /\ pc[r] = "commit" /\ rpc[r] = "ended"
    /\ Returns(r, Outcome(code[r]))
    /\ UNCHANGED <<audit, cancelled, script, paths, running, faults>>

CommitLost(r) ==
    /\ pc[r] = "commit"
    /\ (Fine /\ rpc[r] = "killed") \/ Fault("lost")
    /\ Returns(r, "error")
    /\ UNCHANGED <<audit, cancelled, script, paths, running>>

RecordState(r) ==
    IF result[r] = "ok" THEN "completed"
    ELSE IF result[r] = "rolledBack" THEN "rolled_back"
    ELSE IF r \in cancelled THEN "cancelled" ELSE "failed"

\* The terminal record; when it cannot be written, completed turns into an
\* error and the others are dropped.
Record(r) ==
    /\ pc[r] = "audit"
    /\ Client(r, "done")
    /\ \/ audit' = [audit EXCEPT ![r] = @ \cup {RecordState(r)}] /\ Fine
       \/ Fault("io") /\ UNCHANGED audit
    /\ UNCHANGED <<result, cancelled, script, paths, running>>

\* JobRegistry::cancel on a run that is still registered.
Cancel(r) ==
    /\ pc[r] \in Busy /\ r \notin cancelled
    /\ cancelled' = cancelled \cup {r}
    /\ UNCHANGED <<pc, result, audit, script, paths, running, faults>>

ClientDies(r) ==
    /\ pc[r] \in Busy /\ Fault("crash")
    /\ Client(r, "dead")
    /\ UNCHANGED <<result, audit, cancelled, script, paths, running>>

-----------------------------------------------------------------------------
(* The scripts. *)

Sh(r, step) == rpc' = [rpc EXCEPT ![r] = step] /\ UNCHANGED <<stack, code>>

Exit(r, c) ==
    /\ rpc' = [rpc EXCEPT ![r] = "ended"]
    /\ code' = [code EXCEPT ![r] = c]
    /\ UNCHANGED stack

\* What a script step never touches.
ShFrame == UNCHANGED <<client, list>>

\* docker stop and docker start take a list; when one of them fails, only a
\* part of the list has changed.
DockerStop(r, S) == running' = running \ S
DockerStart(r, S) == running' = running \cup S
Proper(r) == {S \in SUBSET list[r] : S # list[r]}

\* replacement_staging_command: unpacks into a directory of its own and removes
\* it again when tar fails.
Stage(r) ==
    /\ rpc[r] = "stage"
    /\ \/ /\ root # {} /\ source[r] = {} /\ rollback[r] = {}
          /\ source' = [source EXCEPT ![r] = {r}] /\ Exit(r, 0)
       \/ Exit(r, 1) /\ UNCHANGED source
    /\ ShFrame /\ UNCHANGED <<root, rollback, failed, everLive, running, faults>>

Check(r) ==
    /\ rpc[r] = "check"
    /\ IF root # {} /\ source[r] # {} /\ rollback[r] = {}
       THEN Sh(r, "stop") ELSE Exit(r, 1)
    /\ ShFrame /\ UNCHANGED <<paths, running, faults>>

\* {stop} || exit 1
Stop(r) ==
    /\ rpc[r] = "stop"
    /\ \/ DockerStop(r, list[r]) /\ Sh(r, "moveOut") /\ Fine
       \/ \E S \in Proper(r) : DockerStop(r, S) /\ Exit(r, 1) /\ Fault("stop")
    /\ ShFrame /\ UNCHANGED paths

\* mv root rollback || { start; exit 1 }
MoveOut(r) ==
    /\ rpc[r] = "moveOut"
    /\ \/ /\ root # {} /\ Fine /\ Sh(r, "moveIn")
          /\ rollback' = [rollback EXCEPT ![r] = @ \cup root]
          /\ root' = {}
       \/ /\ (root = {} /\ Fine) \/ Fault("mv")
          /\ Sh(r, "restart") /\ UNCHANGED <<root, rollback>>
    /\ ShFrame /\ UNCHANGED <<source, failed, everLive, running>>

\* mv source root || { mv rollback root; start; exit 1 }
MoveIn(r) ==
    /\ rpc[r] = "moveIn"
    /\ \/ /\ source[r] # {} /\ Fine /\ Sh(r, "start")
          /\ root' = root \cup source[r]
          /\ everLive' = everLive \cup source[r]
          /\ source' = [source EXCEPT ![r] = {}]
       \/ /\ (source[r] = {} /\ Fine) \/ Fault("mv")
          /\ Sh(r, "putBack") /\ UNCHANGED <<root, source, everLive>>
    /\ ShFrame /\ UNCHANGED <<rollback, failed, running>>

\* mv rollback root, whose own failure nobody looks at.
RestoreRoot(r) ==
    /\ rollback[r] # {}
    /\ root' = root \cup rollback[r]
    /\ rollback' = [rollback EXCEPT ![r] = {}]

\* Mutant: the script does not exit after it has put the root back.
PutBack_GoesOn(r) ==
    /\ rpc[r] = "putBack"
    /\ \/ RestoreRoot(r) /\ Fine
       \/ rollback[r] = {} /\ Fine /\ UNCHANGED <<root, rollback>>
       \/ Fault("mv") /\ UNCHANGED <<root, rollback>>
    /\ Sh(r, "start")
    /\ ShFrame /\ UNCHANGED <<source, failed, everLive, running>>

PutBack(r) ==
    /\ rpc[r] = "putBack"
    /\ \/ RestoreRoot(r) /\ Fine
       \/ rollback[r] = {} /\ Fine /\ UNCHANGED <<root, rollback>>
       \/ Fault("mv") /\ UNCHANGED <<root, rollback>>
    /\ Sh(r, "restart")
    /\ ShFrame /\ UNCHANGED <<source, failed, everLive, running>>

Restart(r) ==
    /\ rpc[r] = "restart"
    /\ \/ DockerStart(r, list[r]) /\ Fine
       \/ \E S \in Proper(r) : DockerStart(r, S) /\ Fault("start")
    /\ Exit(r, 1)
    /\ ShFrame /\ UNCHANGED paths

\* rollback_cutover is called by step from.
Call(r, from) ==
    /\ rpc' = [rpc EXCEPT ![r] = "rbStop"]
    /\ stack' = [stack EXCEPT ![r] = <<from>> \o @]
    /\ UNCHANGED code

\* The condition of the if behind the renames is a list: ! docker start || !
\* healthy=0; ...; [ $healthy -eq 1 ].  Its status is that of the last command,
\* so what docker start returned decides nothing.
Start(r) ==
    /\ rpc[r] = "start"
    /\ \/ DockerStart(r, list[r]) /\ Fine
       \/ \E S \in Proper(r) : DockerStart(r, S) /\ Fault("start")
    /\ Sh(r, "health")
    /\ ShFrame /\ UNCHANGED paths

\* Twelve looks at docker inspect, five seconds apart, and then the if: true
\* when every container runs, which leads to the reversal, and false when some
\* do not or the list is empty (! : || ! :), which leads on to the clean-up.
Health(r) ==
    /\ rpc[r] = "health"
    /\ IF list[r] # {} /\ list[r] \subseteq running
       THEN Call(r, "exit") ELSE Sh(r, "cleanup")
    /\ ShFrame /\ UNCHANGED <<paths, running, faults>>

\* Mutant: the rollback copy is removed together with the staging directory.
Cleanup_Rollback(r) ==
    /\ rpc[r] = "cleanup"
    /\ source' = [source EXCEPT ![r] = {}]
    /\ failed' = [failed EXCEPT ![r] = {}]
    /\ rollback' = [rollback EXCEPT ![r] = {}]
    /\ Exit(r, 0)
    /\ ShFrame /\ UNCHANGED <<root, everLive, running, faults>>

\* trap -; rm -rf staging; exit 0
Cleanup(r) ==
    /\ rpc[r] = "cleanup"
    /\ source' = [source EXCEPT ![r] = {}]
    /\ failed' = [failed EXCEPT ![r] = {}]
    /\ Exit(r, 0)
    /\ ShFrame /\ UNCHANGED <<root, rollback, everLive, running, faults>>

-----------------------------------------------------------------------------
(* rollback_cutover. *)

\* The function returns: to exit 42 or 43 where the if called it, or, called
\* from the trap, to the command the signal interrupted.
ReturnTo(r, ok) ==
    /\ stack[r] # <<>>
    /\ stack' = [stack EXCEPT ![r] = Tail(@)]
    /\ IF Head(stack[r]) = "exit"
       THEN /\ rpc' = [rpc EXCEPT ![r] = "ended"]
            /\ code' = [code EXCEPT ![r] = IF ok THEN 42 ELSE 43]
       ELSE rpc' = [rpc EXCEPT ![r] = Head(stack[r])] /\ UNCHANGED code

RbStop(r) ==
    /\ rpc[r] = "rbStop"
    /\ \/ DockerStop(r, list[r]) /\ Fine
       \/ \E S \in Proper(r) : DockerStop(r, S) /\ Fault("stop")
    /\ Sh(r, "rbTest")
    /\ ShFrame /\ UNCHANGED paths

RbTest(r) ==
    /\ rpc[r] = "rbTest"
    /\ Sh(r, IF root # {} /\ rollback[r] # {} THEN "rbOut" ELSE "rbStart")
    /\ ShFrame /\ UNCHANGED <<paths, running, faults>>

\* mv root failed || return 1
RbOut(r) ==
    /\ rpc[r] = "rbOut"
    /\ \/ /\ root # {} /\ Fine /\ Sh(r, "rbIn")
          /\ failed' = [failed EXCEPT ![r] = @ \cup root]
          /\ root' = {}
       \/ /\ (root = {} /\ Fine) \/ Fault("mv")
          /\ ReturnTo(r, FALSE) /\ UNCHANGED <<root, failed>>
    /\ ShFrame /\ UNCHANGED <<source, rollback, everLive, running>>

\* mv rollback root || return 1
RbIn(r) ==
    /\ rpc[r] = "rbIn"
    /\ \/ RestoreRoot(r) /\ Fine /\ Sh(r, "rbStart")
       \/ /\ (rollback[r] = {} /\ Fine) \/ Fault("mv")
          /\ ReturnTo(r, FALSE) /\ UNCHANGED <<root, rollback>>
    /\ ShFrame /\ UNCHANGED <<source, failed, everLive, running>>

\* Mutant: after the reversal the containers stay down.
RbStart_Skipped(r) ==
    /\ rpc[r] = "rbStart"
    /\ ReturnTo(r, TRUE)
    /\ ShFrame /\ UNCHANGED <<paths, running, faults>>

RbStart(r) ==
    /\ rpc[r] = "rbStart"
    /\ \/ DockerStart(r, list[r]) /\ Fine
       \/ \E S \in Proper(r) : DockerStart(r, S) /\ Fault("start")
    /\ ReturnTo(r, TRUE)
    /\ ShFrame /\ UNCHANGED paths

-----------------------------------------------------------------------------
(* The server. *)

\* HUP, INT or TERM while the trap is set: rollback_cutover runs before the
\* next command, and the trap does not exit.
Signal(r) ==
    /\ rpc[r] \in Trapped /\ Fault("signal")
    /\ Call(r, rpc[r])
    /\ ShFrame /\ UNCHANGED <<paths, running>>

Killed(r) ==
    /\ rpc[r] \in Cutover \cup {"stage"} /\ Fault("kill")
    /\ Sh(r, "killed")
    /\ ShFrame /\ UNCHANGED <<paths, running>>

\* A container does not survive its first moments on the new tree.
ContainerDies(c) ==
    /\ c \in running /\ \E r \in Run : rpc[r] = "health" /\ c \in list[r]
    /\ Fault("health")
    /\ running' = running \ {c}
    /\ UNCHANGED <<client, script, paths>>

-----------------------------------------------------------------------------
ClientStep(r) ==
    Prepare(r) \/ PushPoll(r) \/ PushWait(r) \/ CommitDone(r) \/ CommitLost(r)
    \/ Record(r)

ScriptStep(r) ==
    Stage(r) \/ Check(r) \/ Stop(r) \/ MoveOut(r) \/ MoveIn(r) \/ PutBack(r)
    \/ Restart(r) \/ Start(r) \/ Health(r) \/ Cleanup(r)
    \/ RbStop(r) \/ RbTest(r) \/ RbOut(r) \/ RbIn(r) \/ RbStart(r)

Next ==
    \/ \E r \in Run : \/ Attempt(r) \/ ClientStep(r) \/ ScriptStep(r)
                      \/ Cancel(r) \/ ClientDies(r) \/ Signal(r) \/ Killed(r)
    \/ \E c \in Container : ContainerDies(c)

Spec == Init /\ [][Next]_vars

\* Clients and scripts keep running: every wait of a client has a timeout and
\* every loop of a script is bounded.
FairSpec ==
    Spec /\ \A r \in Run : WF_vars(ClientStep(r)) /\ WF_vars(ScriptStep(r))

-----------------------------------------------------------------------------
(* Properties. *)

Present == root \cup UNION {source[r] \cup rollback[r] \cup failed[r] : r \in Run}

\* preserve rollback paths: every tree that was ever at the root is still on
\* the server, whatever runs overlap, fail, die or outlive their clients.
NothingLost == everLive \subseteq Present

\* No other run has begun.  What overlapping runs may do to each other is the
\* business of the invariants above.
Alone(r) == \A q \in Run \ {r} : pc[q] = "idle"

\* The completed record is true of the trees when it is written: the tree of the
\* backup is at the root, alone, and what it replaced is at the rollback path the
\* caller is told.
CompletedIsTrue ==
    [][\A r \in Run : Alone(r) /\ "completed" \in audit'[r] \ audit[r] =>
            root = {r} /\ rollback[r] # {}]_vars

\* The rolled_back record is true: another tree than the backup's is at the
\* root and the rollback path is empty again.
RolledBackIsTrue ==
    [][\A r \in Run : Alone(r) /\ "rolled_back" \in audit'[r] \ audit[r] =>
            root # {} /\ r \notin root /\ rollback[r] = {}]_vars

\* A cutover that ends with the exit code of a failed rename (1) or of a reversal
\* (42), after at most one failure, has undone itself, whether its client is still
\* there or not: the tree of before is at the root and, unless its last command is
\* the one that failed, the containers run that the client found running.
FailureUndone ==
    [][\A r \in Run :
            Alone(r) /\ faults' <= 1 /\ rpc[r] \in Cutover
              /\ rpc'[r] = "ended" /\ code'[r] \in {1, 42} =>
                /\ root' # {} /\ r \notin root'
                /\ faults' = faults => list[r] \subseteq running']_vars

\* ADR 0016, steps 5 and 6: a cutover or a health check that failed leads to the
\* reversal, and nothing else does.  Of the script both halves are false: a completed
\* record is written with containers down, and a cutover in which nothing failed is
\* reversed, see Health.
HealthDecides ==
    [][\A r \in Run : Alone(r) =>
            /\ "completed" \in audit'[r] \ audit[r] => list[r] \subseteq running
            /\ "rolled_back" \in audit'[r] \ audit[r] => faults > 0]_vars

\* A cancellation the push loop can still see is final: no cutover starts.
CancelPreventsCutover ==
    \A r \in Run : [](r \in cancelled /\ pc[r] \in {"prepare", "push"} =>
                        [](rpc[r] \notin Cutover))

\* A cutover, once started, is decided by the server alone, with its client or
\* without: it ends or is killed.
CutoverEnds ==
    \A r \in Run : rpc[r] \in Cutover ~> rpc[r] \in {"ended", "killed"}

\* execute returns unless its process dies, whatever becomes of the scripts.
ClientEnds == \A r \in Run : pc[r] = "prepare" ~> pc[r] \in {"done", "dead"}

\* Neither side of a replacement waits for ever for the other.
BothSidesEnd == CutoverEnds /\ ClientEnds
==============================================================================
