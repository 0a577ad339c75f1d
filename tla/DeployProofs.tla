---------------------------- MODULE DeployProofs ----------------------------
(***************************************************************************)
(* Deploy for any number of runs and faults: what a run has on the server  *)
(* follows from the command it last started and how far that command is.   *)
(***************************************************************************)
EXTENDS Deploy, TLAPS

-----------------------------------------------------------------------------
(* The inductive invariant. *)

\* The client has not started a command yet.
Fresh == {"idle", "previewed", "resolve", "attempt", "plan", "openFs"}

Delivered(r) == target.by = r \/ <<r, Wanted(r)>> \in inside

\* Where the client is says which command was the last one.
ClientInv(r) ==
    /\ pc[r] \in Fresh => cmd[r] = "none"
    /\ pc[r] \in {"plan", "openFs"} \/ cmd[r] # "none" => "attempted" \in audit[r]
    /\ pc[r] = "openDb" => cmd[r] = "fs" /\ at[r] = "ok"
    /\ pc[r] = "finalize" => cmd[r] = "db" /\ at[r] = "ok"
    /\ pc[r] = "completed" => cmd[r] \in {"only", "fin"} /\ at[r] = "ok"
    /\ "completed" \in audit[r] \/ told[r] = "summary" =>
          pc[r] = "over" /\ cmd[r] \in {"only", "fin"} /\ at[r] = "ok"

\* A run without a command has nothing on the server.
NothingYet(r) ==
    /\ (cmd[r] = "none") <=> (at[r] = "none")
    /\ cmd[r] = "none" => /\ tree[r] = NoTree /\ target.by # r
                          /\ \A e \in inside : e[1] # r

\* How far a command is says what its temporary directory holds.
CommandInv(r) ==
    /\ cmd[r] \in {"fs", "db", "fin"} => r \in Combined
    /\ cmd[r] = "only" => r \notin Combined
    /\ at[r] \in {"make", "chmod"} => cmd[r] \in {"only", "fs"}
    /\ at[r] = "fill" => cmd[r] # "fin"
    /\ at[r] \in {"move", "inspect"} => cmd[r] \in {"only", "fin"}
    /\ cmd[r] \in {"only", "fs"} /\ at[r] \in {"check", "make"} => tree[r] = NoTree
    /\ cmd[r] \in {"only", "fs"} /\ at[r] \in {"chmod", "fill"} => tree[r] = {}
    /\ cmd[r] = "fs" /\ at[r] = "ok" => tree[r] = {"fs"}
    /\ cmd[r] = "db" /\ at[r] \in {"check", "fill"} => tree[r] = {"fs"}
    /\ cmd[r] = "db" /\ at[r] = "ok" => tree[r] = {"fs", "db"}
    /\ cmd[r] = "fin" /\ at[r] = "check" => tree[r] = Wanted(r)
    /\ at[r] = "move" => tree[r] = Wanted(r)
    /\ at[r] = "inspect" /\ tree[r] = NoTree => Delivered(r)
    /\ cmd[r] \in {"only", "fin"} /\ at[r] = "ok" => Delivered(r)

\* The conjunct of StoppedPushLeavesNothing for one run.
CleanInv(r) ==
    faults = 0 /\ cmd[r] \in {"only", "fs"} /\ at[r] = "err" => tree[r] = NoTree

RunInvOf(r) == ClientInv(r) /\ NothingYet(r) /\ CommandInv(r) /\ CleanInv(r)

RunInv == \A r \in Run : RunInvOf(r)

\* An absent target is nobody's.
TargetInv == target.kind = "none" => target.by = Other

IndInv == TypeOK /\ RunInv /\ TargetInv /\ NeverPartial
-----------------------------------------------------------------------------
(* Proofs. *)

Trees == (SUBSET Parts) \cup {NoTree}

\* No directory is a possible content of tree[r].
LEMMA NoTreeIsTree == NoTree \in Trees
BY DEF Trees

\* What distinguishes the contents of a temporary directory.
LEMMA TreeFacts ==
    /\ NoTree # {} /\ NoTree # {"fs"} /\ NoTree # {"fs", "db"}
    /\ \A r : NoTree # Wanted(r)
    /\ {} \cup {"fs"} = {"fs"} /\ {"fs"} \cup {"db"} = {"fs", "db"}
    /\ {} \in SUBSET Parts /\ Piece \in Parts /\ "fs" \in Parts /\ "db" \in Parts
    /\ \A S \in SUBSET Parts, p \in Parts : S \cup {p} \in SUBSET Parts
    /\ \A r : Wanted(r) \in SUBSET Parts
<1>1. NoTree # {} /\ NoTree # {"fs"} /\ NoTree # {"fs", "db"} /\ \A r : NoTree # Wanted(r)
  BY DEF NoTree, Wanted
<1>2. {} \cup {"fs"} = {"fs"} /\ {"fs"} \cup {"db"} = {"fs", "db"}
  OBVIOUS
<1>3. {} \in SUBSET Parts /\ Piece \in Parts /\ "fs" \in Parts /\ "db" \in Parts
  BY DEF Parts
<1>4. \A S \in SUBSET Parts, p \in Parts : S \cup {p} \in SUBSET Parts
  OBVIOUS
<1>5. \A r : Wanted(r) \in SUBSET Parts
  BY DEF Wanted, Parts
<1> QED BY <1>1, <1>2, <1>3, <1>4, <1>5

\* The initial state.
LEMMA InitInv == Init => IndInv
<1> SUFFICES ASSUME Init PROVE IndInv
  OBVIOUS
<1>1. target.by = Other /\ target.kind = "none" /\ target.parts = {}
  BY DEF Init, Absent
<1>2. target \in [by : Run \cup {Other}, kind : {"none", "dir", "file"}, parts : SUBSET Parts]
  BY DEF Init, Absent
<1>3. TypeOK
  <2>1. tree \in [Run -> Trees]
    BY NoTreeIsTree DEF Init
  <2> QED BY <1>2, <2>1, FaultAssumption DEF Init, TypeOK, Trees, Steps, Points, Commands
<1>4. TargetInv /\ NeverPartial
  BY <1>1, RunAssumption DEF Init, TargetInv, NeverPartial
<1>5. ASSUME NEW r \in Run PROVE RunInvOf(r)
  BY <1>1, RunAssumption DEF Init, RunInvOf, ClientInv, NothingYet, CommandInv, CleanInv,
     Fresh
<1> QED BY <1>3, <1>4, <1>5 DEF IndInv, RunInv

\* Preview keeps the invariant.
LEMMA PreviewKeeps ==
    ASSUME IndInv, NEW r \in Run, Preview(r) PROVE IndInv'
<1> USE RunAssumption, FaultAssumption DEF Preview, Client, remote
<1>1. TypeOK'
  BY DEF IndInv, TypeOK, Steps, Points, Commands
<1>2. ASSUME NEW q \in Run PROVE RunInvOf(q)'
  BY DEF IndInv, RunInv, RunInvOf, TypeOK, ClientInv, NothingYet, CommandInv, CleanInv,
         Fresh, Delivered
<1>3. (TargetInv /\ NeverPartial)'
  BY DEF IndInv, TargetInv, NeverPartial
<1> QED BY <1>1, <1>2, <1>3 DEF IndInv, RunInv

\* CliDeploy keeps the invariant.
LEMMA CliDeployKeeps ==
    ASSUME IndInv, NEW r \in Run, CliDeploy(r) PROVE IndInv'
<1> USE RunAssumption, FaultAssumption DEF CliDeploy, Begin, Client, remote
<1>1. TypeOK'
  BY DEF IndInv, TypeOK, Steps, Points, Commands
<1>2. ASSUME NEW q \in Run PROVE RunInvOf(q)'
  BY DEF IndInv, RunInv, RunInvOf, TypeOK, ClientInv, NothingYet, CommandInv, CleanInv,
         Fresh, Delivered
<1>3. (TargetInv /\ NeverPartial)'
  BY DEF IndInv, TargetInv, NeverPartial
<1> QED BY <1>1, <1>2, <1>3 DEF IndInv, RunInv

\* McpDeploy keeps the invariant.
LEMMA McpDeployKeeps ==
    ASSUME IndInv, NEW r \in Run, McpDeploy(r) PROVE IndInv'
<1> USE RunAssumption, FaultAssumption DEF McpDeploy, Begin, Client, Answer, remote
<1>1. TypeOK'
  BY DEF IndInv, TypeOK, Steps, Points, Commands
<1>2. ASSUME NEW q \in Run PROVE RunInvOf(q)'
  BY DEF IndInv, RunInv, RunInvOf, TypeOK, ClientInv, NothingYet, CommandInv, CleanInv,
         Fresh, Delivered
<1>3. (TargetInv /\ NeverPartial)'
  BY DEF IndInv, TargetInv, NeverPartial
<1> QED BY <1>1, <1>2, <1>3 DEF IndInv, RunInv

\* DesktopDeploy keeps the invariant.
LEMMA DesktopDeployKeeps ==
    ASSUME IndInv, NEW r \in Run, DesktopDeploy(r) PROVE IndInv'
<1> USE RunAssumption, FaultAssumption DEF DesktopDeploy, Begin, Client, remote
<1>1. TypeOK'
  BY DEF IndInv, TypeOK, Steps, Points, Commands
<1>2. ASSUME NEW q \in Run PROVE RunInvOf(q)'
  BY DEF IndInv, RunInv, RunInvOf, TypeOK, ClientInv, NothingYet, CommandInv, CleanInv,
         Fresh, Delivered
<1>3. (TargetInv /\ NeverPartial)'
  BY DEF IndInv, TargetInv, NeverPartial
<1> QED BY <1>1, <1>2, <1>3 DEF IndInv, RunInv

\* Resolve keeps the invariant.
LEMMA ResolveKeeps ==
    ASSUME IndInv, NEW r \in Run, Resolve(r) PROVE IndInv'
<1> USE RunAssumption, FaultAssumption DEF Resolve, Client, Answer, Fault, Fine, remote
<1>1. TypeOK'
  BY DEF IndInv, TypeOK, Steps, Points, Commands
<1>2. ASSUME NEW q \in Run PROVE RunInvOf(q)'
  BY DEF IndInv, RunInv, RunInvOf, TypeOK, ClientInv, NothingYet, CommandInv, CleanInv,
         Fresh, Delivered
<1>3. (TargetInv /\ NeverPartial)'
  BY DEF IndInv, TargetInv, NeverPartial
<1> QED BY <1>1, <1>2, <1>3 DEF IndInv, RunInv

\* Attempt keeps the invariant.
LEMMA AttemptKeeps ==
    ASSUME IndInv, NEW r \in Run, Attempt(r) PROVE IndInv'
<1> USE RunAssumption, FaultAssumption DEF Attempt, Client, Answer, Err, Fault, Fine, remote
<1>1. TypeOK'
  BY DEF IndInv, TypeOK, Steps, Points, Commands
<1>2. ASSUME NEW q \in Run PROVE RunInvOf(q)'
  BY DEF IndInv, RunInv, RunInvOf, TypeOK, ClientInv, NothingYet, CommandInv, CleanInv,
         Fresh, Delivered
<1>3. (TargetInv /\ NeverPartial)'
  BY DEF IndInv, TargetInv, NeverPartial
<1> QED BY <1>1, <1>2, <1>3 DEF IndInv, RunInv

\* Plan keeps the invariant.
LEMMA PlanKeeps ==
    ASSUME IndInv, NEW r \in Run, Plan(r) PROVE IndInv'
<1> USE RunAssumption, FaultAssumption DEF Plan, Client, Fault, Fine, remote
<1>1. TypeOK'
  BY DEF IndInv, TypeOK, Steps, Points, Commands
<1>2. ASSUME NEW q \in Run PROVE RunInvOf(q)'
  BY DEF IndInv, RunInv, RunInvOf, TypeOK, ClientInv, NothingYet, CommandInv, CleanInv,
         Fresh, Delivered
<1>3. (TargetInv /\ NeverPartial)'
  BY DEF IndInv, TargetInv, NeverPartial
<1> QED BY <1>1, <1>2, <1>3 DEF IndInv, RunInv

\* OpenPayload keeps the invariant.
LEMMA OpenPayloadKeeps ==
    ASSUME IndInv, NEW r \in Run, OpenPayload(r) PROVE IndInv'
<1> USE RunAssumption, FaultAssumption DEF OpenPayload, Client, Launch, Fault, Fine
<1>1. TypeOK'
  BY DEF IndInv, TypeOK, Steps, Points, Commands
<1>2. ASSUME NEW q \in Run PROVE RunInvOf(q)'
  BY DEF IndInv, RunInv, RunInvOf, TypeOK, ClientInv, NothingYet, CommandInv, CleanInv,
         Fresh, Delivered
<1>3. (TargetInv /\ NeverPartial)'
  BY DEF IndInv, TargetInv, NeverPartial
<1> QED BY <1>1, <1>2, <1>3 DEF IndInv, RunInv

\* Finalize keeps the invariant.
LEMMA FinalizeKeeps ==
    ASSUME IndInv, NEW r \in Run, Finalize(r) PROVE IndInv'
<1> USE RunAssumption, FaultAssumption DEF Finalize, Client, Launch, Fault, Fine
<1>1. TypeOK'
  BY DEF IndInv, TypeOK, Steps, Points, Commands
<1>2. ASSUME NEW q \in Run PROVE RunInvOf(q)'
  BY DEF IndInv, RunInv, RunInvOf, TypeOK, ClientInv, NothingYet, CommandInv, CleanInv,
         Fresh, Delivered, Wanted, Commands
<1>3. (TargetInv /\ NeverPartial)'
  BY DEF IndInv, TargetInv, NeverPartial
<1> QED BY <1>1, <1>2, <1>3 DEF IndInv, RunInv

\* WaitExit keeps the invariant.
LEMMA WaitExitKeeps ==
    ASSUME IndInv, NEW r \in Run, WaitExit(r) PROVE IndInv'
<1> USE RunAssumption, FaultAssumption DEF WaitExit, Client, AfterSuccess, remote
<1>1. TypeOK'
  BY DEF IndInv, TypeOK, Steps, Points, Commands
<1>2. ASSUME NEW q \in Run PROVE RunInvOf(q)'
  BY DEF IndInv, RunInv, RunInvOf, TypeOK, ClientInv, NothingYet, CommandInv, CleanInv,
         Fresh, Delivered, Wanted, Commands
<1>3. (TargetInv /\ NeverPartial)'
  BY DEF IndInv, TargetInv, NeverPartial
<1> QED BY <1>1, <1>2, <1>3 DEF IndInv, RunInv

\* WaitStops keeps the invariant.
LEMMA WaitStopsKeeps ==
    ASSUME IndInv, NEW r \in Run, WaitStops(r) PROVE IndInv'
<1> USE RunAssumption, FaultAssumption DEF WaitStops, Client, remote
<1>1. TypeOK'
  BY DEF IndInv, TypeOK, Steps, Points, Commands
<1>2. ASSUME NEW q \in Run PROVE RunInvOf(q)'
  BY DEF IndInv, RunInv, RunInvOf, TypeOK, ClientInv, NothingYet, CommandInv, CleanInv,
         Fresh, Delivered
<1>3. (TargetInv /\ NeverPartial)'
  BY DEF IndInv, TargetInv, NeverPartial
<1> QED BY <1>1, <1>2, <1>3 DEF IndInv, RunInv

\* Completed keeps the invariant.
LEMMA CompletedKeeps ==
    ASSUME IndInv, NEW r \in Run, Completed(r) PROVE IndInv'
<1> USE RunAssumption, FaultAssumption DEF Completed, Answer, Err, Fault, Fine, remote
<1>1. TypeOK'
  BY DEF IndInv, TypeOK, Steps, Points, Commands
<1>2. ASSUME NEW q \in Run PROVE RunInvOf(q)'
  BY DEF IndInv, RunInv, RunInvOf, TypeOK, ClientInv, NothingYet, CommandInv, CleanInv,
         Fresh, Delivered
<1>3. (TargetInv /\ NeverPartial)'
  BY DEF IndInv, TargetInv, NeverPartial
<1> QED BY <1>1, <1>2, <1>3 DEF IndInv, RunInv

\* Failed keeps the invariant.
LEMMA FailedKeeps ==
    ASSUME IndInv, NEW r \in Run, Failed(r) PROVE IndInv'
<1> USE RunAssumption, FaultAssumption DEF Failed, Answer, Err, Fault, Fine, remote
<1>1. TypeOK'
  BY DEF IndInv, TypeOK, Steps, Points, Commands
<1>2. ASSUME NEW q \in Run PROVE RunInvOf(q)'
  BY DEF IndInv, RunInv, RunInvOf, TypeOK, ClientInv, NothingYet, CommandInv, CleanInv,
         Fresh, Delivered
<1>3. (TargetInv /\ NeverPartial)'
  BY DEF IndInv, TargetInv, NeverPartial
<1> QED BY <1>1, <1>2, <1>3 DEF IndInv, RunInv

\* Pump keeps the invariant.
LEMMA PumpKeeps ==
    ASSUME IndInv, NEW r \in Run, Pump(r) PROVE IndInv'
<1> USE RunAssumption, FaultAssumption DEF Pump, Fault, Fine, remote
<1>1. TypeOK'
  BY DEF IndInv, TypeOK, Steps, Points, Commands
<1>2. ASSUME NEW q \in Run PROVE RunInvOf(q)'
  BY DEF IndInv, RunInv, RunInvOf, TypeOK, ClientInv, NothingYet, CommandInv, CleanInv,
         Fresh, Delivered
<1>3. (TargetInv /\ NeverPartial)'
  BY DEF IndInv, TargetInv, NeverPartial
<1> QED BY <1>1, <1>2, <1>3 DEF IndInv, RunInv

\* Cancel keeps the invariant.
LEMMA CancelKeeps ==
    ASSUME IndInv, NEW r \in Run, Cancel(r) PROVE IndInv'
<1> USE RunAssumption, FaultAssumption DEF Cancel, remote
<1>1. TypeOK'
  BY DEF IndInv, TypeOK, Steps, Points, Commands
<1>2. ASSUME NEW q \in Run PROVE RunInvOf(q)'
  BY DEF IndInv, RunInv, RunInvOf, TypeOK, ClientInv, NothingYet, CommandInv, CleanInv,
         Fresh, Delivered
<1>3. (TargetInv /\ NeverPartial)'
  BY DEF IndInv, TargetInv, NeverPartial
<1> QED BY <1>1, <1>2, <1>3 DEF IndInv, RunInv

\* Crash keeps the invariant.
LEMMA CrashKeeps ==
    ASSUME IndInv, NEW r \in Run, Crash(r) PROVE IndInv'
<1> USE RunAssumption, FaultAssumption DEF Crash, Client, Fault, remote
<1>1. TypeOK'
  BY DEF IndInv, TypeOK, Steps, Points, Commands
<1>2. ASSUME NEW q \in Run PROVE RunInvOf(q)'
  BY DEF IndInv, RunInv, RunInvOf, TypeOK, ClientInv, NothingYet, CommandInv, CleanInv,
         Fresh, Delivered
<1>3. (TargetInv /\ NeverPartial)'
  BY DEF IndInv, TargetInv, NeverPartial
<1> QED BY <1>1, <1>2, <1>3 DEF IndInv, RunInv

\* Check keeps the invariant.
LEMMA CheckKeeps ==
    ASSUME IndInv, NEW r \in Run, Check(r) PROVE IndInv'
<1> USE RunAssumption, FaultAssumption DEF Check, Sh, ShFrame, client, Guard, TargetExists
<1>1. TypeOK'
  BY DEF IndInv, TypeOK, Steps, Points, Commands
<1>2. ASSUME NEW q \in Run PROVE RunInvOf(q)'
  BY DEF IndInv, RunInv, RunInvOf, TypeOK, ClientInv, NothingYet, CommandInv, CleanInv,
         Fresh, Delivered, Wanted, Commands
<1>3. (TargetInv /\ NeverPartial)'
  BY DEF IndInv, TargetInv, NeverPartial
<1> QED BY <1>1, <1>2, <1>3 DEF IndInv, RunInv

\* Make keeps the invariant.
LEMMA MakeKeeps ==
    ASSUME IndInv, NEW r \in Run, Make(r) PROVE IndInv'
<1> USE RunAssumption, FaultAssumption DEF Make, Sh, ShFrame, client, Fault, Fine
<1>1. TypeOK'
  BY TreeFacts DEF IndInv, TypeOK, Steps, Points, Commands
<1>2. ASSUME NEW q \in Run PROVE RunInvOf(q)'
  <2>1. CASE q # r
    BY <2>1 DEF IndInv, RunInv, RunInvOf, TypeOK, ClientInv, NothingYet, CommandInv, CleanInv,
       Delivered
  <2>2. CASE q = r
    BY <2>2, TreeFacts DEF IndInv, RunInv, RunInvOf, TypeOK, ClientInv, NothingYet, CommandInv, CleanInv,
       Delivered, Fresh, Wanted
  <2> QED BY <2>1, <2>2
<1>3. (TargetInv /\ NeverPartial)'
  BY DEF IndInv, TargetInv, NeverPartial
<1> QED BY <1>1, <1>2, <1>3 DEF IndInv, RunInv

\* Chmod keeps the invariant.
LEMMA ChmodKeeps ==
    ASSUME IndInv, NEW r \in Run, Chmod(r) PROVE IndInv'
<1> USE RunAssumption, FaultAssumption DEF Chmod, Sh, ShFrame, client, Fault, Fine
<1>1. TypeOK'
  BY DEF IndInv, TypeOK, Steps, Points, Commands
<1>2. ASSUME NEW q \in Run PROVE RunInvOf(q)'
  BY DEF IndInv, RunInv, RunInvOf, TypeOK, ClientInv, NothingYet, CommandInv, CleanInv,
         Fresh, Delivered
<1>3. (TargetInv /\ NeverPartial)'
  BY DEF IndInv, TargetInv, NeverPartial
<1> QED BY <1>1, <1>2, <1>3 DEF IndInv, RunInv

\* Fill keeps the invariant.
LEMMA FillKeeps ==
    ASSUME IndInv, NEW r \in Run, Fill(r) PROVE IndInv'
<1> USE RunAssumption, FaultAssumption DEF Fill, Sh, ShFrame, client, Fault, Fine, Payload
<1>1. TypeOK'
  <2>1. tree[r] \in SUBSET Parts
    BY TreeFacts DEF IndInv, RunInv, RunInvOf, CommandInv, NothingYet, TypeOK, Commands
  <2>2. tree'[r] \in SUBSET Parts
    BY <2>1, TreeFacts DEF IndInv, TypeOK
  <2>3. tree' \in [Run -> (SUBSET Parts) \cup {NoTree}]
    BY <2>2 DEF IndInv, TypeOK
  <2> QED BY <2>3 DEF IndInv, TypeOK, Points
<1>2. ASSUME NEW q \in Run PROVE RunInvOf(q)'
  <2>1. CASE q # r
    BY <2>1 DEF IndInv, RunInv, RunInvOf, TypeOK, ClientInv, NothingYet, CommandInv, CleanInv,
       Delivered
  <2>2. CASE q = r /\ at'[r] \in {"move", "ok"}
    <3>1. cmd[r] # "db" => tree[r] = {} /\ tree'[r] = {"fs"}
      BY <2>2, TreeFacts DEF IndInv, RunInv, RunInvOf, TypeOK, CommandInv, NothingYet, Commands
    <3>2. cmd[r] = "db" => tree[r] = {"fs"} /\ tree'[r] = {"fs", "db"}
      BY <2>2, TreeFacts DEF IndInv, RunInv, RunInvOf, TypeOK, CommandInv
    <3>3. at' = [at EXCEPT ![r] = IF cmd[r] = "only" THEN "move" ELSE "ok"]
      BY <2>2 DEF IndInv, TypeOK
    <3>4. /\ cmd[r] \in {"only", "fs", "db"} /\ UNCHANGED <<pc, audit, told, cmd>>
          /\ at'[r] = IF cmd[r] = "only" THEN "move" ELSE "ok"
      BY <3>3 DEF IndInv, RunInv, RunInvOf, TypeOK, NothingYet, CommandInv, Commands
    <3>5. (CommandInv(r) /\ CleanInv(r))'
      BY <3>1, <3>2, <3>4 DEF IndInv, RunInv, RunInvOf, CommandInv, CleanInv, Wanted
    <3>6. (ClientInv(r) /\ NothingYet(r))'
      BY <3>4 DEF IndInv, RunInv, RunInvOf, ClientInv, NothingYet
    <3> QED BY <2>2, <3>5, <3>6 DEF RunInvOf
  <2>3. CASE q = r /\ at'[r] = "remove"
    BY <2>3 DEF IndInv, RunInv, RunInvOf, TypeOK, ClientInv, NothingYet, CommandInv, CleanInv, Fresh
  <2>4. at'[r] \in {"move", "ok", "remove"}
    BY DEF IndInv, TypeOK
  <2> QED BY <2>1, <2>2, <2>3, <2>4
<1>3. (TargetInv /\ NeverPartial)'
  BY DEF IndInv, TargetInv, NeverPartial
<1> QED BY <1>1, <1>2, <1>3 DEF IndInv, RunInv

\* Move keeps the invariant.
LEMMA MoveKeeps ==
    ASSUME IndInv, NEW r \in Run, Move(r) PROVE IndInv'
<1> USE RunAssumption, FaultAssumption DEF Move, Sh, ShFrame, client, Fault, Fine, TargetExists
<1>1. TypeOK'
  <2>1. tree[r] \in SUBSET Parts /\ tree[r] = Wanted(r)
    BY TreeFacts DEF IndInv, RunInv, RunInvOf, CommandInv
  <2>2. target' \in [by : Run \cup {Other}, kind : {"none", "dir", "file"}, parts : SUBSET Parts]
    BY <2>1 DEF IndInv, TypeOK
  <2>3. inside' \subseteq Run \X SUBSET Parts
    BY <2>1 DEF IndInv, TypeOK
  <2>4. tree' \in [Run -> Trees]
    <3>1. tree \in [Run -> Trees]
      BY DEF IndInv, TypeOK, Trees
    <3> QED BY <3>1, NoTreeIsTree
  <2>5. at' \in [Run -> Points]
    BY DEF IndInv, TypeOK, Points
  <2> QED BY <2>2, <2>3, <2>4, <2>5 DEF IndInv, TypeOK, Trees
<1>2. ASSUME NEW q \in Run PROVE RunInvOf(q)'
  <2>1. /\ tree[r] = Wanted(r) /\ cmd[r] \in {"only", "fin"} /\ at' = [at EXCEPT ![r] = "inspect"]
        /\ Wanted(r) # NoTree /\ at \in [Run -> Points] /\ tree \in [Run -> (SUBSET Parts) \cup {NoTree}]
    BY TreeFacts DEF IndInv, RunInv, RunInvOf, CommandInv, TypeOK
  <2>2. \A s \in Run : Delivered(s) => Delivered(s)'
    BY DEF IndInv, TargetInv, Delivered
  <2>3. \A s \in Run : s # r => tree'[s] = tree[s] /\ at'[s] = at[s]
    BY <2>1
  <2>4. tree'[r] = NoTree => Delivered(r)'
    BY <2>1 DEF Delivered, IndInv, TypeOK
  <2>5. \A s \in Run : s # r /\ target.by # s /\ (\A e \in inside : e[1] # s)
                        => target'.by # s /\ \A e \in inside' : e[1] # s
    OBVIOUS
  <2>6. CASE q # r
    <3>1. /\ tree'[q] = tree[q] /\ at'[q] = at[q] /\ faults' \in {faults, faults + 1}
          /\ UNCHANGED <<pc, audit, told, cmd>>
      BY <2>3, <2>6
    <3>2. (ClientInv(q) /\ NothingYet(q))'
      BY <2>5, <2>6, <3>1 DEF IndInv, RunInv, RunInvOf, ClientInv, NothingYet
    <3>3. (CommandInv(q) /\ CleanInv(q))'
      BY <2>2, <3>1 DEF IndInv, RunInv, RunInvOf, TypeOK, CommandInv, CleanInv
    <3> QED BY <3>2, <3>3 DEF RunInvOf
  <2>7. CASE q = r
    BY <2>1, <2>4, <2>7 DEF IndInv, RunInv, RunInvOf, ClientInv, NothingYet, CommandInv, CleanInv
  <2> QED BY <2>6, <2>7
<1>3. (TargetInv /\ NeverPartial)'
  <2>1. tree[r] = Wanted(r) /\ Other # r
    BY DEF IndInv, RunInv, RunInvOf, CommandInv
  <2> QED BY <2>1 DEF IndInv, TargetInv, NeverPartial
<1> QED BY <1>1, <1>2, <1>3 DEF IndInv, RunInv

\* Inspect keeps the invariant.
LEMMA InspectKeeps ==
    ASSUME IndInv, NEW r \in Run, Inspect(r) PROVE IndInv'
<1> USE RunAssumption, FaultAssumption DEF Inspect, Sh, ShFrame, client
<1>1. TypeOK'
  BY DEF IndInv, TypeOK, Steps, Points, Commands
<1>2. ASSUME NEW q \in Run PROVE RunInvOf(q)'
  BY DEF IndInv, RunInv, RunInvOf, TypeOK, ClientInv, NothingYet, CommandInv, CleanInv,
         Fresh, Delivered
<1>3. (TargetInv /\ NeverPartial)'
  BY DEF IndInv, TargetInv, NeverPartial
<1> QED BY <1>1, <1>2, <1>3 DEF IndInv, RunInv

\* Remove keeps the invariant.
LEMMA RemoveKeeps ==
    ASSUME IndInv, NEW r \in Run, Remove(r) PROVE IndInv'
<1> USE RunAssumption, FaultAssumption DEF Remove, Sh, ShFrame, client, Fault, Fine
<1>1. TypeOK'
  <2>1. tree' \in [Run -> Trees]
    <3>1. tree \in [Run -> Trees]
      BY DEF IndInv, TypeOK, Trees
    <3> QED BY <3>1, NoTreeIsTree
  <2>2. at' \in [Run -> Points] /\ faults' \in 0..MaxFaults
    BY DEF IndInv, TypeOK, Points
  <2> QED BY <2>1, <2>2 DEF IndInv, TypeOK, Trees
<1>2. ASSUME NEW q \in Run PROVE RunInvOf(q)'
  <2>1. CASE q # r
    BY <2>1 DEF IndInv, RunInv, RunInvOf, TypeOK, ClientInv, NothingYet, CommandInv, CleanInv,
       Delivered
  <2>2. CASE q = r
    <3>1. /\ cmd[r] # "none" /\ at'[r] = "err" /\ UNCHANGED <<pc, audit, told, cmd>>
          /\ faults' = faults => tree'[r] = NoTree
      BY DEF IndInv, RunInv, RunInvOf, TypeOK, NothingYet
    <3>2. faults' = 0 => faults' = faults
      BY DEF IndInv, TypeOK
    <3> QED BY <2>2, <3>1, <3>2
            DEF IndInv, RunInv, RunInvOf, ClientInv, NothingYet, CommandInv, CleanInv
  <2> QED BY <2>1, <2>2
<1>3. (TargetInv /\ NeverPartial)'
  BY DEF IndInv, TargetInv, NeverPartial
<1> QED BY <1>1, <1>2, <1>3 DEF IndInv, RunInv

\* Dies keeps the invariant.
LEMMA DiesKeeps ==
    ASSUME IndInv, NEW r \in Run, Dies(r) PROVE IndInv'
<1> USE RunAssumption, FaultAssumption DEF Dies, Sh, ShFrame, client, Fault
<1>1. TypeOK'
  BY DEF IndInv, TypeOK, Steps, Points, Commands
<1>2. ASSUME NEW q \in Run PROVE RunInvOf(q)'
  BY DEF IndInv, RunInv, RunInvOf, TypeOK, ClientInv, NothingYet, CommandInv, CleanInv,
         Fresh, Delivered
<1>3. (TargetInv /\ NeverPartial)'
  BY DEF IndInv, TargetInv, NeverPartial
<1> QED BY <1>1, <1>2, <1>3 DEF IndInv, RunInv

\* Retention does not touch a deploy.
LEMMA RemoveBackupKeeps == ASSUME IndInv, RemoveBackup PROVE IndInv'
<1> USE DEF RemoveBackup, client, remote, IndInv
<1>1. TypeOK'
  BY DEF TypeOK
<1>2. RunInv'
  BY DEF RunInv, RunInvOf, ClientInv, NothingYet, CommandInv, CleanInv,
       Delivered
<1>3. (TargetInv /\ NeverPartial)'
  BY DEF TargetInv, NeverPartial
<1> QED BY <1>1, <1>2, <1>3

\* Claim keeps the invariant.
LEMMA ClaimKeeps ==
    ASSUME IndInv, NEW kind \in {"dir", "file"}, Claim(kind) PROVE IndInv'
<1> USE RunAssumption, FaultAssumption DEF Claim, Fault, TargetExists, client
<1>1. target.by = Other /\ target'.by = Other /\ target'.kind # "none"
  BY DEF IndInv, TargetInv
<1>2. target' \in [by : Run \cup {Other}, kind : {"none", "dir", "file"}, parts : SUBSET Parts]
  BY DEF IndInv, TypeOK
<1>3. TypeOK'
  BY <1>2 DEF IndInv, TypeOK
<1>4. (TargetInv /\ NeverPartial)'
  BY <1>1 DEF IndInv, TargetInv, NeverPartial
<1>5. ASSUME NEW q \in Run PROVE RunInvOf(q)'
  BY <1>1 DEF IndInv, RunInv, RunInvOf, TypeOK, ClientInv, NothingYet, CommandInv, CleanInv,
       Delivered
<1> QED BY <1>3, <1>4, <1>5 DEF IndInv, RunInv

\* Every step keeps the invariant.
LEMMA NextKeeps == IndInv /\ [Next]_vars => IndInv'
<1> SUFFICES ASSUME IndInv, [Next]_vars PROVE IndInv'
  OBVIOUS
<1>1. ASSUME NEW r \in Run, Preview(r) \/ CliDeploy(r) \/ McpDeploy(r) \/ DesktopDeploy(r)
      PROVE IndInv'
  BY <1>1, PreviewKeeps, CliDeployKeeps, McpDeployKeeps, DesktopDeployKeeps
<1>2. ASSUME NEW r \in Run, Step(r) PROVE IndInv'
  BY <1>2, ResolveKeeps, AttemptKeeps, PlanKeeps, OpenPayloadKeeps, FinalizeKeeps,
     WaitExitKeeps, WaitStopsKeeps, CompletedKeeps, FailedKeeps DEF Step
<1>3. ASSUME NEW r \in Run, Pump(r) \/ Cancel(r) \/ Crash(r) PROVE IndInv'
  BY <1>3, PumpKeeps, CancelKeeps, CrashKeeps
<1>4. ASSUME NEW r \in Run, Remote(r) PROVE IndInv'
  BY <1>4, CheckKeeps, MakeKeeps, ChmodKeeps, FillKeeps, MoveKeeps, InspectKeeps,
     RemoveKeeps, DiesKeeps DEF Remote
<1>5. CASE UNCHANGED vars
  BY <1>5 DEF vars, client, remote, IndInv, TypeOK, RunInv, RunInvOf, TargetInv, NeverPartial,
              ClientInv, NothingYet, CommandInv, CleanInv,
       Delivered
<1> QED BY <1>1, <1>2, <1>3, <1>4, <1>5, RemoveBackupKeeps, ClaimKeeps DEF Next

\* So the invariant always holds.
LEMMA Invariance == Spec => []IndInv
BY InitInv, NextKeeps, PTL DEF Spec

-----------------------------------------------------------------------------
(* Theorems. *)

\* The state of every deploy is well typed.
THEOREM TypeCorrect == Spec => []TypeOK
<1>1. IndInv => TypeOK
  BY DEF IndInv
<1> QED BY <1>1, Invariance, PTL

\* Whatever a run put at the target, or into a directory that took its place, is
\* the whole backup: tar, zstd and mv may fail and the server may go down at any
\* point of push_filesystem_command and of the three commands of a combined run.
THEOREM NeverPartialHolds == Spec => []NeverPartial
<1>1. IndInv => NeverPartial
  BY DEF IndInv
<1> QED BY <1>1, Invariance, PTL

\* The completed record and the summary of a front end are true.
THEOREM CompletedIsDeliveredHolds == Spec => []CompletedIsDelivered
<1>1. IndInv => CompletedIsDelivered
  BY DEF IndInv, RunInv, RunInvOf, ClientInv, CommandInv, Delivered, CompletedIsDelivered
<1> QED BY <1>1, Invariance, PTL

\* Nothing of a run is on the server before its attempted record is written.
THEOREM AuditedFirstHolds == Spec => []AuditedFirst
<1>1. IndInv => AuditedFirst
  BY DEF IndInv, RunInv, RunInvOf, ClientInv, NothingYet, AuditedFirst
<1> QED BY <1>1, Invariance, PTL

\* A push that stops removes its directory when nothing else goes wrong.
THEOREM StoppedPushLeavesNothingHolds == Spec => []StoppedPushLeavesNothing
<1>1. IndInv => StoppedPushLeavesNothing
  BY DEF IndInv, RunInv, RunInvOf, CleanInv, StoppedPushLeavesNothing
<1> QED BY <1>1, Invariance, PTL

\* mv -n: no step of any deploy changes a target that exists.
THEOREM NeverClobbersHolds == Spec => NeverClobbers
<1>1. ASSUME [Next]_vars, TargetExists PROVE target' = target
  BY <1>1 DEF Next, vars, client, remote, TargetExists, Preview, CliDeploy, McpDeploy,
     DesktopDeploy, Step, Resolve, Attempt, Plan, OpenPayload, Finalize, WaitExit,
     WaitStops, Completed, Failed, Pump, Cancel, Crash, Remote, Check, Make, Chmod, Fill,
     Move, Inspect, Remove, Dies, RemoveBackup, Claim
<1> QED BY <1>1, PTL DEF Spec, NeverClobbers
=============================================================================
