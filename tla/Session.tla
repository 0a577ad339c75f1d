------------------------------ MODULE Session ------------------------------
(***************************************************************************)
(* One call of the system `ssh`: the credential becomes an identity, the   *)
(* host key pin becomes a throw-away known_hosts file, the child is        *)
(* spawned, its output is pumped into a new file while a loop polls for    *)
(* its end, and on the way out everything that was made is taken back.     *)
(*                                                                         *)
(* A password login adds the askpass broker: a thread that accepts local   *)
(* connections and workers that answer them, which outlive the call.       *)
(***************************************************************************)
EXTENDS Naturals, FiniteSets

CONSTANTS
    Conn,         \* local connections the broker may see
    Helper,       \* the one of the askpass helper that ssh starts
    MaxInFlight,  \* connections handled at once
    Maximum,      \* chunks of output the caller allows
    MaxFaults     \* bound on faults; each kind happens at most once

ASSUME ConnAssumption == Helper \in Conn
ASSUME BoundAssumption == MaxInFlight \in Nat \ {0} /\ Maximum \in Nat /\ MaxFaults \in Nat

\* io: a file operation fails; launch: ssh or the broker does not start; kill:
\* the child cannot be waited for or killed; crash: the process dies.
Kinds == {"io", "launch", "kill", "crash"}

\* The calls: probe_* wants the exit status, capture_to and the other *_to
\* calls the output too.
CallKinds == {"probe", "stream"}

VARIABLES
    pc,         \* where the call is
    kind,       \* "probe": only the exit status counts; "stream": its output too
    secret,     \* what is stored under the credential id
    auth,       \* how ssh logs in
    waited,     \* what the polling loop saw
    result,     \* what the caller is told
    idfile,     \* the temporary identity file is there
    pin,        \* the temporary known_hosts file is there
    dest,       \* the file of the output is there
    cancelled,  \* the operator asked for the end
    child,      \* what ssh is doing
    total,      \* chunks the remote command has to say
    sent,       \* chunks it has said
    pump,       \* the thread that copies them
    written,    \* chunks copied
    loop,       \* the broker's accept loop
    stopped,    \* the broker was dropped
    expired,    \* its lifetime is over
    served,     \* the password was handed out
    inflight,   \* its count of workers
    conn,       \* conn[c]: how far connection c is
    faults      \* kinds of faults so far

files == <<idfile, pin, dest>>
stream == <<total, sent, pump, written>>
broker == <<loop, stopped, expired, served, inflight, conn>>
call == <<pc, kind, secret, auth, waited, result>>
vars == <<call, files, cancelled, child, stream, broker, faults>>

Alive == {"login", "asking", "running"}
Exited == {"exit0", "exit1"}
Errors == {"credential", "askpass", "io", "destination", "launch", "failed",
           "cancelled", "timedOut", "idle", "refused"}

\* What the state may hold.
TypeOK ==
    /\ pc \in {"load", "pin", "open", "spawn", "poll", "reap", "join", "drop", "discard",
               "unpin", "end", "dead"}
    /\ kind \in CallKinds /\ auth \in {"none", "key", "agent", "password"}
    /\ waited \in Errors \cup Exited \cup {"none"} /\ result \in Errors \cup {"none", "ok"}
    /\ child \in Alive \cup Exited \cup {"none", "gone"}
    /\ total \in 0..Maximum + 1 /\ sent \in 0..total /\ written \in 0..sent
    /\ pump \in {"none", "copy", "ok", "failed", "error"}
    /\ loop \in {"none", "check", "accept", "ended"} /\ inflight \in Nat
    /\ conn \in [Conn -> {"idle", "queued", "reading", "checked", "granted", "closed"}]
    /\ {idfile, pin, dest, cancelled, stopped, expired, served} \subseteq BOOLEAN
    /\ faults \subseteq Kinds /\ Cardinality(faults) <= MaxFaults

-----------------------------------------------------------------------------
(* Credentials. *)

\* A file the operator chooses, and what is stored for it.
KeyFile == {"privateKey", "encryptedKey", "agentMarker", "passwordMarker",
            "publicLine", "rsaLine", "text"}

\* classify_secret: what stored bytes mean.
Classify(bytes) ==
    CASE bytes = "privateKey" -> "key"
      [] bytes = "agentMarker" -> "agent"
      [] bytes = "passwordMarker" -> "password"
      [] OTHER -> "none"

\* credential_from_key_file: keys and markers as they are, a public key line
\* becomes a marker, and a password is never read from a file.
FromKeyFile(f) ==
    IF Classify(f) \in {"key", "agent"} THEN f
    ELSE IF f = "publicLine" THEN "agentMarker" ELSE "none"

\* encode_password and the password field.
FromPassword == "passwordMarker"

\* A credential that was imported, or is missing.
Stored == {FromKeyFile(f) : f \in KeyFile} \cup {FromPassword}

-----------------------------------------------------------------------------
Init ==
    /\ pc = "load" /\ kind \in CallKinds /\ secret \in Stored
    /\ auth = "none" /\ waited = "none" /\ result = "none"
    /\ idfile = FALSE /\ pin = FALSE /\ dest = FALSE /\ cancelled = FALSE
    /\ child = "none" /\ sent = 0 /\ written = 0 /\ pump = "none"
    /\ total \in (IF kind = "probe" THEN {0} ELSE {Maximum, Maximum + 1})
    /\ loop = "none" /\ stopped = FALSE /\ expired = FALSE /\ served = FALSE
    /\ inflight = 0 /\ conn = [c \in Conn |-> "idle"] /\ faults = {}

Fine == UNCHANGED faults
Fault(k) ==
    /\ k \notin faults /\ Cardinality(faults) < MaxFaults
    /\ faults' = faults \cup {k}

Go(step) == pc' = step /\ UNCHANGED <<kind, secret>>
Fail(step, error) == Go(step) /\ result' = error

\* materialize_private_key and materialize_agent_identity: a temporary file,
\* restricted to its owner.
Materialize ==
    \/ Go("pin") /\ idfile' = TRUE /\ Fine /\ UNCHANGED result
    \/ Fail("end", "io") /\ Fault("io") /\ UNCHANGED idfile

\* register_password_helper: whether the program can answer ssh itself.
Registered == BOOLEAN

\* SshIdentity::from_store.  A key or public key goes to a temporary file; a
\* password stays in memory and needs a registered helper.
Load(registered) ==
    /\ pc = "load" /\ auth' = Classify(secret)
    /\ CASE auth' = "none" -> Fail("end", "credential") /\ Fine /\ UNCHANGED idfile
         [] auth' = "password" /\ ~registered -> Fail("end", "askpass") /\ Fine /\ UNCHANGED idfile
         [] auth' = "password" /\ registered ->
                Go("pin") /\ Fine /\ UNCHANGED <<idfile, result>>
         [] OTHER -> Materialize
    /\ UNCHANGED <<waited, pin, dest, cancelled, child, stream, broker>>

\* known_hosts_file.
Pin ==
    /\ pc = "pin"
    /\ \/ /\ pin' = TRUE /\ Fine /\ UNCHANGED result
          /\ Go(IF kind = "stream" THEN "open" ELSE "spawn")
       \/ Fail("unpin", "io") /\ Fault("io") /\ UNCHANGED pin
    /\ UNCHANGED <<auth, waited, idfile, dest, cancelled, child, stream, broker>>

\* create_hardened_destination.
Open ==
    /\ pc = "open"
    /\ \/ dest' = TRUE /\ Go("spawn") /\ Fine /\ UNCHANGED result
       \/ dest' \in BOOLEAN /\ Fail("discard", "destination") /\ Fault("io")
    /\ UNCHANGED <<auth, waited, idfile, pin, cancelled, child, stream, broker>>

AfterCall(r) == IF kind = "stream" /\ r # "ok" THEN "discard" ELSE "unpin"

\* new_command, attach_password_broker, spawn, and the pump's thread.
Spawn ==
    /\ pc = "spawn"
    /\ \/ /\ Go("poll") /\ child' = "login" /\ Fine /\ UNCHANGED result
          /\ loop' = IF auth = "password" THEN "check" ELSE "none"
          /\ pump' = IF kind = "stream" THEN "copy" ELSE "none"
       \/ /\ Fail(AfterCall("launch"), "launch") /\ Fault("launch")
          /\ UNCHANGED <<child, loop, pump>>
    /\ UNCHANGED <<auth, waited, files, cancelled, total, sent, written,
                   stopped, expired, served, inflight, conn>>

\* stop: kill and reap, or fail to.
Stop(error) ==
    /\ Go("join")
    /\ \/ child' = "gone" /\ waited' = error /\ Fine
       \/ UNCHANGED child /\ waited' = "failed" /\ Fault("kill")

\* wait_for_stream and wait_for_exit, up to the look at the child: the
\* pump's failure comes before the operator's cancel.
Poll ==
    /\ pc = "poll"
    /\ IF pump = "failed" THEN Stop("failed")
       ELSE IF cancelled THEN Stop("cancelled")
       ELSE Go("reap") /\ Fine /\ UNCHANGED <<child, waited>>
    /\ UNCHANGED <<auth, result, files, cancelled, stream, broker>>

\* try_wait; a failing one gives up without a kill.
Reap ==
    /\ pc = "reap"
    /\ \/ child \in Exited /\ Go("join") /\ waited' = child /\ child' = "gone" /\ Fine
       \/ child \notin Exited /\ Go("poll") /\ Fine /\ UNCHANGED <<child, waited>>
       \/ Go("join") /\ waited' = "failed" /\ Fault("kill") /\ UNCHANGED child
    /\ UNCHANGED <<auth, result, files, cancelled, stream, broker>>

\* Mutant: a probe has no deadline.
TimedOut_StreamOnly ==
    /\ pc = "reap" /\ child \notin Exited /\ kind = "stream" /\ Stop("timedOut")
    /\ UNCHANGED <<auth, result, files, cancelled, stream, broker>>

\* The total deadline has passed; ssh may have been busy all the time.
TimedOut ==
    /\ pc = "reap" /\ child \notin Exited /\ Stop("timedOut")
    /\ UNCHANGED <<auth, result, files, cancelled, stream, broker>>

\* Nothing was copied for as long as the idle deadline.
IdleTimedOut ==
    /\ pc = "reap" /\ child \notin Exited /\ kind = "stream" /\ Stop("idle")
    /\ UNCHANGED <<auth, result, files, cancelled, stream, broker>>

\* The wait's error comes before the pump's, and that before the exit status.
Outcome ==
    IF waited \notin Exited THEN waited
    ELSE IF pump \in {"failed", "error"} THEN "io"
    ELSE IF waited = "exit1" THEN "refused" ELSE "ok"

\* Mutant: the copying thread is not waited for.
Join_NoWait ==
    /\ pc = "join" /\ Fail("drop", Outcome) /\ stopped' = TRUE
    /\ Fine
    /\ UNCHANGED <<auth, waited, files, cancelled, child, stream,
                   loop, expired, served, inflight, conn>>

\* pump.finish() waits for the thread, then the command is dropped; nobody
\* looks at the cancellation any more.
Join ==
    /\ pc = "join" /\ pump # "copy" /\ Fail("drop", Outcome) /\ stopped' = TRUE
    /\ cancelled' = FALSE /\ Fine /\ UNCHANGED <<auth, waited, files, child, total, sent, pump, written,
                            loop, expired, served, inflight, conn>>

\* Broker::drop waits for the accept loop.
Drop ==
    /\ pc = "drop" /\ loop \in {"none", "ended"} /\ Go(AfterCall(result))
    /\ Fine /\ UNCHANGED <<auth, waited, result, files, cancelled, child, stream, broker>>

\* Mutant: the partial output is left where it is.
Discard_Keeps ==
    /\ pc = "discard" /\ Go("unpin") /\ Fine
    /\ UNCHANGED <<auth, waited, result, files, cancelled, child, stream, broker>>

\* fail_capture: the removal's own error is ignored.
Discard ==
    /\ pc = "discard" /\ Go("unpin")
    /\ \/ dest' = FALSE /\ Fine
       \/ UNCHANGED dest /\ Fault("io")
    /\ UNCHANGED <<auth, waited, result, idfile, pin, cancelled, child, stream, broker>>

\* The temporary files go out of scope.
Unpin ==
    /\ pc = "unpin" /\ Go("end") /\ pin' = FALSE /\ idfile' = FALSE /\ Fine
    /\ UNCHANGED <<auth, waited, result, dest, cancelled, child, stream, broker>>

Call == (\E registered \in Registered : Load(registered)) \/ Pin \/ Open \/ Spawn \/ Poll \/ Reap
        \/ TimedOut \/ IdleTimedOut \/ Join \/ Drop \/ Discard \/ Unpin

-----------------------------------------------------------------------------
(* The rest of the process: the operator, the copying thread. *)

Up == pc # "dead"
Quiet == UNCHANGED <<call, files, faults>>

Cancel == /\ pc \in {"load", "pin", "open", "spawn", "poll", "reap"} /\ ~cancelled /\ cancelled' = TRUE
          /\ Quiet /\ UNCHANGED <<child, stream, broker>>

\* copy_stream: the limit before the write.
Copy ==
    /\ Up /\ pump = "copy" /\ written < sent
    /\ \/ written < Maximum /\ written' = written + 1 /\ Fine /\ UNCHANGED pump
       \/ written >= Maximum /\ pump' = "failed" /\ Fine /\ UNCHANGED written
       \/ pump' = "failed" /\ Fault("io") /\ UNCHANGED written
    /\ UNCHANGED <<call, files, cancelled, child, total, sent, broker>>

CopyEnds ==
    /\ Up /\ pump = "copy" /\ written = sent /\ child \notin Alive
    /\ \/ pump' = "ok" /\ Fine
       \/ pump' = "error" /\ Fault("io")
    /\ UNCHANGED <<call, files, cancelled, child, total, sent, written, broker>>

-----------------------------------------------------------------------------
(* ssh and the server; what they do after the process died is left out. *)

ChildFrame == Up /\ Quiet /\ UNCHANGED <<cancelled, total, pump, written>>
Ssh(next) == child' = next

\* A key is accepted or not; a password login asks once.
Login ==
    /\ child = "login"
    /\ IF auth = "password" THEN Ssh("asking") \/ Ssh("exit1")
       ELSE Ssh("running") \/ Ssh("exit1")
    /\ ChildFrame /\ UNCHANGED <<sent, broker>>

\* The helper ends without an answer: not the login prompt, no broker, refused,
\* or it gave up; or the password it got is accepted or not.
Answered ==
    /\ child = "asking"
    /\ \/ conn[Helper] # "granted" /\ Ssh("exit1")
       \/ conn[Helper] = "granted" /\ (Ssh("running") \/ Ssh("exit1"))
    /\ ChildFrame /\ UNCHANGED <<sent, broker>>

Say == /\ child = "running" /\ sent < total /\ sent' = sent + 1
       /\ ChildFrame /\ UNCHANGED <<child, broker>>
Exit == /\ child = "running" /\ ((sent = total /\ Ssh("exit0")) \/ Ssh("exit1"))
        /\ ChildFrame /\ UNCHANGED <<sent, broker>>

-----------------------------------------------------------------------------
(* The askpass broker. *)

BrokerFrame == Quiet /\ UNCHANGED <<cancelled, child, stream>>
IsOpen == ~served /\ ~stopped /\ ~expired
Listening == loop \in {"check", "accept"}
To(c, state) == conn' = [conn EXCEPT ![c] = state]

\* A local process connects; the helper only while ssh asks.
Connect(c) ==
    /\ Listening /\ conn[c] = "idle" /\ (c = Helper => child = "asking") /\ To(c, "queued")
    /\ BrokerFrame /\ UNCHANGED <<loop, stopped, expired, served, inflight>>

\* serve: open is looked at before each accept; the listener closes with the loop.
LoopCheck ==
    /\ Up /\ loop = "check"
    /\ IF IsOpen THEN loop' = "accept" /\ UNCHANGED conn
       ELSE /\ loop' = "ended"
            /\ conn' = [c \in Conn |-> IF conn[c] = "queued" THEN "closed" ELSE conn[c]]
    /\ BrokerFrame /\ UNCHANGED <<stopped, expired, served, inflight>>

\* dispatch.
Accept(c) ==
    /\ Up /\ loop = "accept" /\ loop' = "check" /\ conn[c] = "queued"
    /\ IF inflight >= MaxInFlight
       THEN To(c, "closed") /\ UNCHANGED inflight
       ELSE To(c, "reading") /\ inflight' = inflight + 1
    /\ BrokerFrame /\ UNCHANGED <<stopped, expired, served>>

AcceptNothing ==
    /\ Up /\ loop = "accept" /\ loop' = "check" /\ (\A c \in Conn : conn[c] # "queued")
    /\ BrokerFrame /\ UNCHANGED <<stopped, expired, served, inflight, conn>>

Leave(c, state) == To(c, state) /\ inflight' = inflight - 1

\* answer: the token within the connection's budget, then the look at open.
\* The helper has the token; another local process may or may not.
Read(c) ==
    /\ Up /\ conn[c] = "reading"
    /\ \/ Leave(c, "closed")   \* denied, gone or too slow
       \/ IsOpen /\ To(c, "checked") /\ UNCHANGED inflight
    /\ BrokerFrame /\ UNCHANGED <<loop, stopped, expired, served>>

\* Mutant: served is stored, not exchanged.
Grant_Stores(c) ==
    /\ Up /\ conn[c] = "checked" /\ Leave(c, "granted") /\ served' = TRUE
    /\ BrokerFrame /\ UNCHANGED <<loop, stopped, expired>>

\* compare_exchange on served, and the answer.
Grant(c) ==
    /\ Up /\ conn[c] = "checked"
    /\ Leave(c, IF served THEN "closed" ELSE "granted") /\ served' = TRUE
    /\ BrokerFrame /\ UNCHANGED <<loop, stopped, expired>>

Expire == /\ Up /\ Listening /\ IsOpen /\ expired' = TRUE
          /\ BrokerFrame /\ UNCHANGED <<loop, stopped, served, inflight, conn>>

Worker(c) == Read(c) \/ Grant(c)
Loop == LoopCheck \/ AcceptNothing \/ \E c \in Conn : Accept(c)

-----------------------------------------------------------------------------
\* The process dies.  ssh has a process group of its own and goes on; the
\* temporary files stay.
Crash ==
    /\ pc \notin {"end", "dead"} /\ Go("dead") /\ Fault("crash")
    /\ loop' = (IF loop = "none" THEN "none" ELSE "ended") /\ inflight' = 0
    /\ conn' = [c \in Conn |-> IF conn[c] \in {"queued", "reading", "checked"}
                               THEN "closed" ELSE conn[c]]
    /\ UNCHANGED <<auth, waited, result, files, cancelled, child, stream,
                   stopped, expired, served>>

Next ==
    \/ Call \/ Cancel \/ Copy \/ CopyEnds
    \/ Login \/ Answered \/ Say \/ Exit
    \/ Loop \/ Expire \/ \E c \in Conn : Connect(c) \/ Worker(c)
    \/ Crash

\* Threads of the process run, and its clock advances: once the total deadline
\* has passed every look at the child sees it.  Nothing is assumed of ssh, the
\* server, the operator or local processes.
Fairness ==
    /\ WF_vars(Call) /\ SF_vars(TimedOut) /\ WF_vars(Copy \/ CopyEnds) /\ WF_vars(Loop)
    /\ WF_vars(\E c \in Conn : Worker(c))

Spec == Init /\ [][Next]_vars /\ Fairness

-----------------------------------------------------------------------------
(* Properties. *)

\* Success means the whole output: ssh ended with status 0, every chunk the
\* remote command said was copied, and they fit the limit.
SuccessIsWhole ==
    result = "ok" => /\ waited = "exit0" /\ written = sent /\ sent = total
                     /\ kind = "stream" => dest /\ pump = "ok" /\ written <= Maximum

\* A call that has returned leaves nothing behind: no identity or known_hosts
\* file, no partial output, no listener and no ssh.  Only a failed removal and
\* a child that could not be killed are left as they are.
NothingLeft ==
    pc = "end" =>
        /\ ~idfile /\ ~pin /\ loop \in {"none", "ended"}
        /\ dest => result = "ok" \/ "io" \in faults
        /\ child \in Alive => "kill" \in faults

\* The broker is there for as long as ssh may still ask for the password.
BrokerHeld ==
    child = "asking" /\ pc # "dead" => ~stopped \/ "kill" \in faults

\* The password is handed out at most once, also when two workers have both
\* seen the broker open.
PasswordOnce == Cardinality({c \in Conn : conn[c] = "granted"}) <= 1

\* No more workers than the bound, and the count returns with each of them.
WorkersCounted ==
    /\ inflight = Cardinality({c \in Conn : conn[c] \in {"reading", "checked"}})
    /\ inflight <= MaxInFlight

\* What the broker promises while any number of local processes talk to it.
BrokerSafe == TypeOK /\ BrokerHeld /\ PasswordOnce /\ WorkersCounted

\* The call ends whatever ssh, the server and local clients do, unless the
\* child could not be killed: then the copy waits for its output to end.
CallEnds == <>(pc \in {"end", "dead"} \/ "kill" \in faults)

\* The helper is never left waiting: its connection is answered or closed.
HelperAnswered ==
    conn[Helper] = "queued" ~> conn[Helper] \in {"granted", "closed"}

\* The call, ssh, its helper and the broker never wait for each other for ever.
NobodyWaits == CallEnds /\ HelperAnswered
=============================================================================
