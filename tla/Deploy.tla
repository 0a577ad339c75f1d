------------------------------- MODULE Deploy -------------------------------
(***************************************************************************)
(* Deploying a sealed backup to a path on a server that must not exist:    *)
(* the front ends (command line, MCP, desktop), the client side,           *)
(* DeploymentComposition, and the shell commands it has the server run.    *)
(*                                                                         *)
(* A backup without a database goes out in one command, which unpacks into *)
(* a fresh sibling of the target and renames it (push_filesystem_command). *)
(* With a database there are three: one unpacks into the run's staging     *)
(* directory, one adds the database file to it, one renames it.            *)
(*                                                                         *)
(* A command on the server is a process of its own: it goes on when its    *)
(* client is cancelled, times out, loses the connection or dies, and only  *)
(* sees that its input has ended.  Every run of the model wants the same   *)
(* target path, and other users of the server may create it too.           *)
(***************************************************************************)
EXTENDS Naturals, FiniteSets

CONSTANTS
    Run,         \* deploy runs; the caller gives each an identifier of its own
    Combined,    \* the runs whose backup has a database payload too
    Other,       \* whoever else creates the target
    MaxFaults    \* bound on faults, all kinds together

ASSUME RunAssumption == Combined \subseteq Run /\ Other \notin Run
ASSUME FaultAssumption == MaxFaults \in Nat

\* What the run's backup holds, and so what has to reach the target.
Wanted(r) == IF r \in Combined THEN {"fs", "db"} ELSE {"fs"}

-----------------------------------------------------------------------------
VARIABLES
    pc,         \* pc[r]: where the client of run r is
    typed,      \* typed[r]: the confirmation phrase that came with the request
    told,       \* told[r]: the front end's answer
    audit,      \* audit[r]: states of the deploy-<run>-<state>.json records
    cancelled,  \* runs whose CancellationHandle is set
    present,    \* the sealed backup is still in the repository
    stream,     \* stream[r]: what the client fed to the command's input
    cmd,        \* cmd[r]: the command the run last had the server run
    at,         \* at[r]: where that command is; "ok" and "err" are exit codes
    tree,       \* tree[r]: the payloads in the run's temporary directory
    target,     \* what is at the target path
    inside,     \* runs whose directory was moved into the target, and its parts
    faults      \* faults so far

client == <<pc, typed, told, audit, cancelled, stream>>
remote == <<cmd, at, tree, target, inside>>
vars == <<client, remote, present, faults>>

NoTree == {"absent"}
Piece == "piece"           \* an entry of an interrupted extraction
Absent == [by |-> Other, kind |-> "none", parts |-> {}]

Parts == {"fs", "db", Piece}
Steps == {"idle", "previewed", "resolve", "attempt", "plan", "openFs", "openDb",
          "finalize", "wait", "completed", "failed", "over"}
Points == {"none", "check", "make", "chmod", "fill", "move", "inspect",
           "remove", "ok", "err", "gone"}
Commands == {"none", "only", "fs", "db", "fin"}

TypeOK ==
    /\ pc \in [Run -> Steps]
    /\ typed \in [Run -> {"none", "exact", "other"}]
    /\ told \in [Run -> {"none", "summary", "refused", "cancelled", "rejected"}]
    /\ audit \in [Run -> SUBSET {"attempted", "completed", "cancelled", "failed"}]
    /\ cancelled \subseteq Run
    /\ present \in BOOLEAN
    /\ stream \in [Run -> {"open", "whole", "cut"}]
    /\ cmd \in [Run -> Commands]
    /\ at \in [Run -> Points]
    /\ tree \in [Run -> (SUBSET Parts) \cup {NoTree}]
    /\ target \in [by : Run \cup {Other}, kind : {"none", "dir", "file"},
                   parts : SUBSET Parts]
    /\ inside \subseteq Run \X SUBSET Parts
    /\ faults \in 0..MaxFaults

Init ==
    /\ pc = [r \in Run |-> "idle"] /\ typed = [r \in Run |-> "none"]
    /\ audit = [r \in Run |-> {}] /\ told = [r \in Run |-> "none"]
    /\ cancelled = {} /\ present = TRUE
    /\ stream = [r \in Run |-> "cut"]
    /\ cmd = [r \in Run |-> "none"] /\ at = [r \in Run |-> "none"]
    /\ tree = [r \in Run |-> NoTree]
    /\ target = Absent /\ inside = {}
    /\ faults = 0

Fault == faults < MaxFaults /\ faults' = faults + 1
Fine == UNCHANGED faults

TargetExists == target.kind # "none"

\* The client is at step now, and its caller has no answer yet.
Client(r, step) == pc' = [pc EXCEPT ![r] = step] /\ UNCHANGED told

\* The front end returns: the registration is dropped.  Every error of execute
\* in a run whose handle is set is reported as the cancellation.
Answer(r, value) ==
    /\ pc' = [pc EXCEPT ![r] = "over"]
    /\ told' = [told EXCEPT ![r] = value]

Err(r) == IF r \in cancelled THEN "cancelled" ELSE "rejected"

-----------------------------------------------------------------------------
(* The front ends and the client. *)

\* DeploymentComposition::plan behind preview_deploy and `deploy plan`: the
\* backup verifies and the target is absent at this moment.  The operator
\* gets the phrase to type; nothing else comes of it.
Preview(r) ==
    /\ pc[r] = "idle"
    /\ present /\ ~TargetExists
    /\ Client(r, "previewed")
    /\ UNCHANGED <<typed, audit, cancelled, stream, remote, present, faults>>

\* execute_deploy of a front end: the run is registered, or its interrupt
\* handler set, before anything else, so it can be cancelled from here on.
Begin(r, phrase) ==
    /\ Client(r, "resolve")
    /\ typed' = [typed EXCEPT ![r] = phrase]

\* `deploy execute`: the parser has refused a command without --confirmation.
CliDeploy(r) ==
    /\ pc[r] = "previewed"
    /\ \E phrase \in {"exact", "other"} : Begin(r, phrase)
    /\ UNCHANGED <<audit, cancelled, stream, remote, present, faults>>

\* The MCP tool refuses an empty phrase before it registers the run.
McpDeploy(r) ==
    /\ pc[r] = "previewed"
    /\ \/ \E phrase \in {"exact", "other"} : Begin(r, phrase)
       \/ Answer(r, "refused") /\ UNCHANGED typed
    /\ UNCHANGED <<audit, cancelled, stream, remote, present, faults>>

\* The desktop command registers the run and looks at the phrase after that.
DesktopDeploy(r) ==
    /\ pc[r] = "previewed"
    /\ \E phrase \in {"none", "exact", "other"} : Begin(r, phrase)
    /\ UNCHANGED <<audit, cancelled, stream, remote, present, faults>>

\* resolve: the repository, the verifier and the target profile.  What cannot
\* be resolved ends the run before anything is recorded.
Resolve(r) ==
    /\ pc[r] = "resolve"
    /\ \/ typed[r] # "none" /\ Client(r, "attempt") /\ Fine
       \/ typed[r] = "none" /\ Answer(r, "refused") /\ Fine
       \/ Answer(r, "refused") /\ Fault
    /\ UNCHANGED <<typed, audit, cancelled, stream, remote, present>>

\* The attempted record is strict: without it nothing is pushed.
Attempt(r) ==
    /\ pc[r] = "attempt"
    /\ \/ /\ Client(r, "plan") /\ Fine
          /\ audit' = [audit EXCEPT ![r] = {"attempted"}]
       \/ Answer(r, Err(r)) /\ Fault /\ UNCHANGED audit
    /\ UNCHANGED <<typed, cancelled, stream, remote, present>>

\* execute_pushes up to the first push: the plan is built again from the
\* verified manifest, the phrase approved and the session resolved.  Any of
\* them may fail: the repository is busy, the phrase is another plan's, the
\* credential is gone.
Plan(r) ==
    /\ pc[r] = "plan"
    /\ \/ present /\ typed[r] = "exact" /\ Client(r, "openFs") /\ Fine
       \/ ~(present /\ typed[r] = "exact") /\ Client(r, "failed") /\ Fine
       \/ Client(r, "failed") /\ Fault
    /\ UNCHANGED <<typed, audit, cancelled, stream, remote, present>>

\* A command is started on the server with an open input.
Launch(r, c) ==
    /\ Client(r, "wait")
    /\ stream' = [stream EXCEPT ![r] = "open"]
    /\ cmd' = [cmd EXCEPT ![r] = c]
    /\ at' = [at EXCEPT ![r] = "check"]

\* push_payload: the manifest is verified again for each payload, right before
\* it is decrypted, inspected and pushed.  A backup that retention has removed
\* in the meantime, a busy repository, a missing key, an archive outside the
\* policy and an ssh that does not start all end the run here.
OpenPayload(r) ==
    /\ pc[r] \in {"openFs", "openDb"}
    /\ \/ /\ present /\ Fine
          /\ Launch(r, IF pc[r] = "openDb" THEN "db"
                       ELSE IF r \in Combined THEN "fs" ELSE "only")
       \/ /\ (~present /\ Fine) \/ Fault
          /\ Client(r, "failed") /\ UNCHANGED <<stream, cmd, at>>
    /\ UNCHANGED <<typed, audit, cancelled, tree, target, inside, present>>

\* finalize_deploy: the third command of a combined deploy, without input.
Finalize(r) ==
    /\ pc[r] = "finalize"
    /\ \/ Launch(r, "fin") /\ Fine
       \/ Client(r, "failed") /\ Fault /\ UNCHANGED <<stream, cmd, at>>
    /\ UNCHANGED <<typed, audit, cancelled, tree, target, inside, present>>

\* PushPump: the payload is copied to the command's input, which is closed on
\* every path.  The copy fails when the source does, when the byte count
\* differs, and when the command has stopped reading.
Pump(r) ==
    /\ pc[r] = "wait" /\ stream[r] = "open" /\ cmd[r] # "fin"
    /\ \/ at[r] \notin {"err", "gone"} /\ Fine
          /\ stream' = [stream EXCEPT ![r] = "whole"]
       \/ /\ (at[r] \in {"err", "gone"} /\ Fine) \/ Fault
          /\ stream' = [stream EXCEPT ![r] = "cut"]
    /\ UNCHANGED <<pc, typed, told, audit, cancelled, remote, present>>

\* Mutant: the first command's success is taken for the whole deploy's.
AfterSuccess_Early(r) ==
    CASE cmd[r] = "fs" -> "completed" [] cmd[r] = "db" -> "finalize"
      [] OTHER -> "completed"

AfterSuccess(r) ==
    CASE cmd[r] = "fs" -> "openDb" [] cmd[r] = "db" -> "finalize"
      [] OTHER -> "completed"

\* wait_for_stream and wait_for_exit see the command's exit code.  A
\* cancellation that comes between the look at the handle and the look at the
\* process is too late, so a cancelled run may still get here.
WaitExit(r) ==
    /\ pc[r] = "wait" /\ at[r] \in {"ok", "err"}
    /\ Client(r, IF at[r] = "ok" /\ (cmd[r] = "fin" \/ stream[r] = "whole")
                 THEN AfterSuccess(r) ELSE "failed")
    /\ UNCHANGED <<typed, audit, cancelled, stream, remote, present, faults>>

\* Mutant: a silent command is waited for without a deadline.
WaitStops_NoDeadline(r) ==
    /\ pc[r] = "wait"
    /\ \/ stream[r] = "cut" /\ Fine
       \/ r \in cancelled /\ Fine
       \/ at[r] = "gone" /\ Fine
    /\ Client(r, "failed")
    /\ stream' = [stream EXCEPT ![r] = IF @ = "open" THEN "cut" ELSE @]
    /\ UNCHANGED <<typed, audit, cancelled, remote, present>>

\* The wait ends without one: the pump failed, the run was cancelled, a
\* deadline passed (nothing keeps it from passing), or the connection is lost.
\* The local ssh is killed, which ends the command's input and no more.
WaitStops(r) ==
    /\ pc[r] = "wait"
    /\ Client(r, "failed")
    /\ stream' = [stream EXCEPT ![r] = IF @ = "open" THEN "cut" ELSE @]
    /\ UNCHANGED <<typed, audit, cancelled, remote, present, faults>>

\* The completed record is strict too: if it cannot be written the caller gets
\* an error although the backup is live.
Completed(r) ==
    /\ pc[r] = "completed"
    /\ \/ /\ Answer(r, "summary") /\ Fine
          /\ audit' = [audit EXCEPT ![r] = @ \cup {"completed"}]
       \/ Answer(r, Err(r)) /\ Fault /\ UNCHANGED audit
    /\ UNCHANGED <<typed, cancelled, stream, remote, present>>

\* The other two are best effort; any error of a cancelled run counts as
\* the cancellation.
Failed(r) ==
    /\ pc[r] = "failed"
    /\ Answer(r, Err(r))
    /\ \/ /\ Fine
          /\ audit' = [audit EXCEPT ![r] = @ \cup
                         {IF r \in cancelled THEN "cancelled" ELSE "failed"}]
       \/ Fault /\ UNCHANGED audit
    /\ UNCHANGED <<typed, cancelled, stream, remote, present>>

\* cancel_job or an interrupt, while the run is registered.
Cancel(r) ==
    /\ pc[r] \notin {"idle", "previewed", "over"} /\ r \notin cancelled
    /\ cancelled' = cancelled \cup {r}
    /\ UNCHANGED <<pc, typed, told, audit, stream, remote, present, faults>>

\* The node's process dies and its ssh with it.
Crash(r) ==
    /\ pc[r] \notin {"idle", "previewed", "over"} /\ Fault
    /\ Client(r, "over")
    /\ stream' = [stream EXCEPT ![r] = IF @ = "open" THEN "cut" ELSE @]
    /\ UNCHANGED <<typed, audit, cancelled, remote, present>>

\* Retention removes the backup (module Retention); the lock it takes is free
\* between the steps of a deploy.
RemoveBackup ==
    /\ present /\ present' = FALSE
    /\ UNCHANGED <<client, remote, faults>>

-----------------------------------------------------------------------------
(* The commands on the server. *)

Sh(r, point) == at' = [at EXCEPT ![r] = point] /\ UNCHANGED cmd
ShFrame == UNCHANGED <<client, present>>

\* The tests a command starts with.  The staging directory is the run's own,
\* so only the target can change between them.
Guard(r) ==
    /\ ~TargetExists
    /\ CASE cmd[r] = "fs" -> tree[r] = NoTree
         [] cmd[r] \in {"db", "fin"} -> tree[r] # NoTree
         [] OTHER -> TRUE

Check(r) ==
    /\ at[r] = "check"
    /\ Sh(r, IF ~Guard(r) THEN "err"
             ELSE CASE cmd[r] = "db" -> "fill" [] cmd[r] = "fin" -> "move"
                    [] OTHER -> "make")
    /\ ShFrame /\ UNCHANGED <<tree, target, inside, faults>>

\* mkdir -p parent; mktemp -d or mkdir.
Make(r) ==
    /\ at[r] = "make"
    /\ \/ tree' = [tree EXCEPT ![r] = {}] /\ Sh(r, "chmod") /\ Fine
       \/ Sh(r, "err") /\ Fault /\ UNCHANGED tree
    /\ ShFrame /\ UNCHANGED <<target, inside>>

\* chmod 755 || exit 1, which leaves the directory behind.
Chmod(r) ==
    /\ at[r] = "chmod"
    /\ \/ Sh(r, "fill") /\ Fine
       \/ Sh(r, "err") /\ Fault
    /\ ShFrame /\ UNCHANGED <<tree, target, inside>>

Payload(r) == IF cmd[r] = "db" THEN "db" ELSE "fs"

\* Mutant: tar's exit code is not looked at.
Fill_Unchecked(r) ==
    /\ at[r] = "fill" /\ stream[r] # "open"
    /\ tree' = [tree EXCEPT ![r] = @ \cup
                  {IF stream[r] = "whole" THEN Payload(r) ELSE Piece}]
    /\ Sh(r, IF cmd[r] = "only" THEN "move" ELSE "ok")
    /\ ShFrame /\ UNCHANGED <<target, inside, faults>>

\* tar or zstd reads its input to the end: a whole stream is unpacked unless
\* the server fails, a cut one is an error.
Fill(r) ==
    /\ at[r] = "fill" /\ stream[r] # "open"
    /\ \/ /\ stream[r] = "whole" /\ Fine
          /\ tree' = [tree EXCEPT ![r] = @ \cup {Payload(r)}]
          /\ Sh(r, IF cmd[r] = "only" THEN "move" ELSE "ok")
       \/ /\ (stream[r] = "cut" /\ Fine) \/ Fault
          /\ tree' = [tree EXCEPT ![r] = @ \cup {Piece}]
          /\ Sh(r, "remove")
    /\ ShFrame /\ UNCHANGED <<target, inside>>

\* Mutant: mv without -n over whatever is there.
Move_Clobber(r) ==
    /\ at[r] = "move" /\ Sh(r, "inspect")
    /\ target' = [by |-> r, kind |-> "dir", parts |-> tree[r]]
    /\ tree' = [tree EXCEPT ![r] = NoTree] /\ UNCHANGED inside
    /\ ShFrame /\ Fine

\* mv -n tmp target: a rename when the target is absent, a move into it when
\* it is a directory, nothing when it is a file.
Move(r) ==
    /\ at[r] = "move" /\ Sh(r, "inspect")
    /\ \/ /\ ~TargetExists /\ Fine
          /\ target' = [by |-> r, kind |-> "dir", parts |-> tree[r]]
          /\ tree' = [tree EXCEPT ![r] = NoTree] /\ UNCHANGED inside
       \/ /\ target.kind = "dir" /\ Fine
          /\ inside' = inside \cup {<<r, tree[r]>>}
          /\ tree' = [tree EXCEPT ![r] = NoTree] /\ UNCHANGED target
       \/ /\ (target.kind = "file" /\ Fine) \/ Fault
          /\ UNCHANGED <<tree, target, inside>>
    /\ ShFrame

\* [ ! -e tmp ] || status=1
Inspect(r) ==
    /\ at[r] = "inspect"
    /\ Sh(r, IF tree[r] = NoTree THEN "ok" ELSE "remove")
    /\ ShFrame /\ UNCHANGED <<tree, target, inside, faults>>

\* rm -rf tmp, whose own failure nobody looks at.
Remove(r) ==
    /\ at[r] = "remove" /\ Sh(r, "err")
    /\ \/ tree' = [tree EXCEPT ![r] = NoTree] /\ Fine
       \/ Fault /\ UNCHANGED tree
    /\ ShFrame /\ UNCHANGED <<target, inside>>

\* The server goes down under the command.
Dies(r) ==
    /\ at[r] \notin {"none", "ok", "err", "gone"} /\ Fault
    /\ Sh(r, "gone")
    /\ ShFrame /\ UNCHANGED <<tree, target, inside>>

\* Somebody else creates the target.
Claim(kind) ==
    /\ ~TargetExists /\ Fault
    /\ target' = [by |-> Other, kind |-> kind, parts |-> {}]
    /\ UNCHANGED <<client, present, cmd, at, tree, inside>>

-----------------------------------------------------------------------------
Step(r) ==
    \/ Resolve(r) \/ Attempt(r) \/ Plan(r) \/ OpenPayload(r) \/ Finalize(r)
    \/ WaitExit(r) \/ WaitStops(r) \/ Completed(r) \/ Failed(r)

Remote(r) ==
    \/ Check(r) \/ Make(r) \/ Chmod(r) \/ Fill(r) \/ Move(r) \/ Inspect(r)
    \/ Remove(r) \/ Dies(r)

Next ==
    \/ \E r \in Run : Preview(r) \/ CliDeploy(r) \/ McpDeploy(r) \/ DesktopDeploy(r)
    \/ \E r \in Run : Step(r) \/ Pump(r) \/ Cancel(r) \/ Crash(r)
    \/ \E r \in Run : Remote(r)
    \/ RemoveBackup
    \/ \E kind \in {"dir", "file"} : Claim(kind)

Spec == Init /\ [][Next]_vars

\* The client's thread runs, and its waits have deadlines; nothing is assumed
\* of the server.
FairSpec == Spec /\ \A r \in Run : WF_vars(Step(r))

-----------------------------------------------------------------------------
(* Properties. *)

\* The target never shows a part of a deploy: whatever a run put there, by
\* renaming its directory or by having it moved into a directory that was
\* there first, holds every payload of the backup and nothing unfinished
\* (execute_pushes: a failed second payload never leaves the first one live).
NeverPartial ==
    /\ target.by \in Run => target.parts = Wanted(target.by)
    /\ \A e \in inside : e[2] = Wanted(e[1])

\* What is at the target, whoever put it there, is never replaced or removed by
\* a deploy, whichever of its checks have passed before (mv -n).
NeverClobbers == [][TargetExists => target' = target]_vars

\* A completed record and the summary the caller gets are true: the run's whole
\* backup is on the server, at the target or, if another directory took the
\* place between the last check and the rename, inside it.  (The converse does
\* not hold: a run whose answer is an error may be live, see README.)
CompletedIsDelivered ==
    \A r \in Run : "completed" \in audit[r] \/ told[r] = "summary" =>
        target.by = r \/ <<r, Wanted(r)>> \in inside

\* Nothing of a run is on the server without an attempted record of it, also
\* when records cannot be written (execute's strict first write).
AuditedFirst ==
    \A r \in Run : "attempted" \in audit[r] \/
        (tree[r] = NoTree /\ target.by # r /\ \A e \in inside : e[1] # r)

\* Without a server fault, a push that is cancelled, times out or loses the race
\* for the target leaves nothing beside the target: the command sees its input
\* end and removes its own directory, with nobody connected any more.
StoppedPushLeavesNothing ==
    \A r \in Run :
        faults = 0 /\ cmd[r] \in {"only", "fs"} /\ at[r] = "err" => tree[r] = NoTree

\* A deploy that has begun comes to an end and releases its registration, even
\* if the server never answers: every wait has a deadline.
RunEnds == \A r \in Run : pc[r] = "resolve" ~> pc[r] = "over"
=============================================================================
