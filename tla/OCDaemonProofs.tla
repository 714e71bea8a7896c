--------------------------- MODULE OCDaemonProofs ---------------------------
(***************************************************************************)
(* Proofs about the composition of daemon, runner, openconnect, scripts    *)
(* and socket server.  Every step of the composition is a step (or no      *)
(* step) of the runner with its most general user and of the daemon in its *)
(* most general environment, so their invariants hold here; the link       *)
(* between the two is an invariant of its own.                             *)
(***************************************************************************)
EXTENDS OCDaemon, DaemonProofs

-----------------------------------------------------------------------------
(***************************************************************************)
(* The runner with its most general user, for every number of sessions.    *)
(***************************************************************************)

(* What the runner's own state says about the process and about who        *)
(* reports its exit.  The first three conjuncts are the properties; the    *)
(* others are what makes them inductive: an exit is only on its way when   *)
(* the process is gone, and a runner that offers a disconnect event or     *)
(* has returned holds no command.                                          *)
RunnerInv ==
  /\ RunnerTypeOK
  /\ NoProcessLost
  /\ EveryCommandWatched
  /\ waiter = "exits" => \A p \in Pids : ~Alive(p)
  /\ waiter = "wait" => command = "process"
  /\ command = "noProcess" => waiter = "exits"
  /\ command = "process" => pid \in Pids
  /\ rpc = "sendEvent" /\ ~event.Connect => command = "nil"
  /\ rpc = "closed" => command = "nil"

(* The runner starts in a state that satisfies the invariant. *)
LEMMA RunnerInitInv == RunnerInit => RunnerInv
  <1> SUFFICES ASSUME RunnerInit PROVE RunnerInv
    OBVIOUS
  <1> USE MaxSessionsAssumption DEF RunnerInit
  <1>1. RunnerTypeOK
    <2>1. event \in {DisconnectEvent} \cup {ConnectEvent(p) : p \in Pids}
      OBVIOUS
    <2>2. rdone \in BOOLEAN
      BY Zenon
    <2>3. proc \in [Pids -> {"none", "running", "interrupted", "dead"}]
      BY Zenon
    <2>4. pid \in 0 .. MaxSessions /\ pidFile \in 0 .. MaxSessions
      OBVIOUS
    <2>5. QED
      BY <2>1, <2>2, <2>3, <2>4, Zenon DEF RunnerTypeOK
  <1>2. NoProcessLost
    BY DEF NoProcessLost, Alive
  <1>3. QED
    BY <1>1, <1>2 DEF RunnerInv, EveryCommandWatched

(* handleConnect preserves the invariant. *)
LEMMA RecvConnectInv == RunnerInv /\ RecvConnect => RunnerInv'
  <1> SUFFICES ASSUME RunnerInv, RecvConnect PROVE RunnerInv'
    OBVIOUS
  <1> USE MaxSessionsAssumption
      DEF RunnerInv, RunnerTypeOK, NoProcessLost, EveryCommandWatched, Alive, Pids
  <1>1. CASE command # "nil"
    BY <1>1 DEF RecvConnect, runnerVars
  <1>2. CASE rpc = "select" /\ command = "nil" /\ ConnectFails
    BY <1>2 DEF ConnectFails
  <1>3. CASE rpc = "select" /\ command = "nil" /\ ConnectStarts
    <2>0. pid' \in Pids
      BY <1>3 DEF ConnectStarts
    <2>1. RunnerTypeOK'
      BY <1>3, <2>0 DEF ConnectStarts
    <2>2. NoProcessLost'
      BY <1>3 DEF ConnectStarts
    <2>3. EveryCommandWatched'
      BY <1>3 DEF ConnectStarts, ConnectEvent
    <2>4. QED
      BY <1>3, <2>1, <2>2, <2>3 DEF ConnectStarts, ConnectEvent
  <1>4. QED
    BY <1>1, <1>2, <1>3 DEF RecvConnect

(* Every step of the runner, of its user and of the process preserves the  *)
(* invariant.                                                              *)
LEMMA RunnerNextInv == RunnerInv /\ [RunnerNext]_runnerVars => RunnerInv'
  <1> SUFFICES ASSUME RunnerInv, [RunnerNext]_runnerVars PROVE RunnerInv'
    OBVIOUS
  <1>1. CASE RecvConnect
    BY <1>1, RecvConnectInv
  <1> USE MaxSessionsAssumption
      DEF RunnerInv, RunnerTypeOK, NoProcessLost, EveryCommandWatched, Alive, Pids
  <1>2. CASE RecvDisconnect
    BY <1>2 DEF RecvDisconnect, Interrupt
  <1>3. CASE EventReceived
    BY <1>3 DEF EventReceived, EventDone
  <1>4. CASE CloseDone
    BY <1>4 DEF CloseDone
  <1>5. CASE RecvExit
    BY <1>5 DEF RecvExit, DisconnectEvent
  <1>6. CASE EventAborted
    BY <1>6 DEF EventAborted, EventDone
  <1>7. CASE HandleStop
    BY <1>7 DEF HandleStop, Interrupt
  <1>8. CASE StopExit
    BY <1>8 DEF StopExit, DisconnectEvent
  <1>9. CASE WaitReturns
    BY <1>9 DEF WaitReturns
  <1>10. ASSUME NEW p \in Pids, ProcExit(p) PROVE RunnerInv'
    BY <1>10 DEF ProcExit
  <1>11. CASE UNCHANGED runnerVars
    BY <1>11 DEF runnerVars
  <1>12. QED
    BY <1>1, <1>2, <1>3, <1>4, <1>5, <1>6, <1>7, <1>8, <1>9, <1>10, <1>11
    DEF RunnerNext, RunnerInternal, RunnerUser

(* The invariant holds in every state of every behaviour of the runner. *)
THEOREM RunnerInvariance == RunnerSpec => []RunnerInv
  BY RunnerInitInv, RunnerNextInv, PTL DEF RunnerSpec

(* The runner never loses track of an openconnect process. *)
THEOREM RunnerNoProcessLost == RunnerSpec => []NoProcessLost
  BY RunnerInvariance, PTL DEF RunnerInv

(* Exactly one party is responsible for reporting the end of a command. *)
THEOREM RunnerEveryCommandWatched == RunnerSpec => []EveryCommandWatched
  BY RunnerInvariance, PTL DEF RunnerInv

(* A disconnect event, and the return of Stop(), mean that no openconnect  *)
(* process is left.                                                        *)
THEOREM RunnerReportedMeansGone == RunnerSpec => []ReportedMeansGone
  <1>1. RunnerInv => ReportedMeansGone
    BY DEF RunnerInv, NoProcessLost, ReportedMeansGone
  <1>2. QED
    BY <1>1, RunnerInvariance, PTL

-----------------------------------------------------------------------------
(***************************************************************************)
(* The composition.                                                        *)
(***************************************************************************)

(* The requests on their way: a connection that waits to be accepted or    *)
(* whose request is being forwarded is that of a script that waits for its *)
(* reply, and no script has two.                                           *)
Requests ==
  /\ phase \in [Pids -> {"started", "inited", "connected", "lost", "ended"}]
  /\ script \in [Pids -> Scripts]
  /\ srv \in {"accept", "forward", "closed"}
  /\ backlog \in Seq(Pids)
  /\ \A i \in 1 .. Len(backlog) : script[backlog[i]].stage = "wait"
  /\ \A i, j \in 1 .. Len(backlog) : backlog[i] = backlog[j] => i = j
  /\ srv = "forward" => /\ held \in Pids
                        /\ script[held].stage = "wait"
                        /\ \A i \in 1 .. Len(backlog) : backlog[i] # held
  /\ srv # "forward" => held = 0

(* No process, no command, nothing to report. *)
NothingRuns == RunnerIdle /\ \A p \in Pids : ~Alive(p)

(* What daemon and runner know of each other. *)
Link ==
  /\ dcmd = "none" <=> dpc # "sendCmd"
  /\ dpc = "sendCmd" => d.OCRunning
  /\ dpc = "select" /\ ~d.OCRunning => NothingRuns
  /\ dcmd = "connect" => NothingRuns /\ d.OCPID = 0
  /\ d.OCPID # 0 => d.OCPID = pid
  /\ rdone <=> dpc \in {"waitRunner", "waitServer", "closed", "hung"}
  /\ rpc \in {"stopWait", "closed"} => rdone
  /\ dpc \in {"waitServer", "closed", "hung"} => rpc = "closed"
  /\ dpc = "closed" => srv = "closed"
  /\ rpc = "sendEvent" => \/ event = DisconnectEvent
                          \/ pid \in Pids /\ event = ConnectEvent(pid)

-----------------------------------------------------------------------------
(* The handlers that leave the running state and the PID alone. *)
Keeps(x, y) == y.OCRunning = x.OCRunning /\ y.OCPID = x.OCPID

(* A handler that leaves the whole VPN connection alone is one of them. *)
LEMMA SameVPNKeeps == \A x, y : SameVPN(x, y) => Keeps(x, y)
  BY DEF SameVPN, Keeps

(* So is a VPN configuration update sent by openconnect's script. *)
LEMMA KeepsUpdateVPNConfig ==
  ASSUME NEW x, NEW reason \in Reasons, NEW config \in Configs, Good(x)
  PROVE  Keeps(x, UpdateVPNConfig(x, reason, config))
  <1>1. Keeps(x, UpdateVPNConfigUp(x, config))
    BY DEF UpdateVPNConfigUp, Keeps, Good, DaemonState
  <1>2. Keeps(x, UpdateVPNConfigDown(x))
    BY UpdateVPNConfigDownLemma DEF Good, Clean, Keeps
  <1>3. Keeps(x, HandleVPNAttemptReconnect(x)) /\ Keeps(x, HandleVPNReconnect(x))
    BY DEF HandleVPNAttemptReconnect, HandleVPNReconnect, Keeps, Good, DaemonState
  <1>4. UpdateVPNConfig(x, reason, config) \in
          {x, UpdateVPNConfigUp(x, config), UpdateVPNConfigDown(x),
           HandleVPNAttemptReconnect(x), HandleVPNReconnect(x)}
    BY DEF UpdateVPNConfig, Reasons
  <1>5. QED
    BY <1>1, <1>2, <1>3, <1>4 DEF Keeps

-----------------------------------------------------------------------------
(* Scripts and the socket server. *)

(* The record of a process that runs no script is a script in stage "none". *)
LEMMA NoScriptStage == NoScript.stage = "none" /\ NoScript \in Scripts
  BY DEF NoScript, Scripts

(* openconnect runs its script. *)
LEMMA RunScriptRequests ==
  ASSUME NEW p \in Pids, NEW from, NEW reason \in Reasons,
         NEW to \in {"started", "inited", "connected", "lost", "ended"},
         Requests, RunScript(p, from, reason, to)
  PROVE  Requests'
  <1>1. PICK flag \in BOOLEAN :
          script' = [script EXCEPT ![p] = [reason |-> reason, stage |-> "dial", disable |-> flag]]
    BY OCDaemonAssumption DEF RunScript
  <1> DEFINE r == [reason |-> reason, stage |-> "dial", disable |-> flag]
  <1>2. r \in Scripts
    BY DEF Scripts
  <1>3. script[p].stage = "none"
    BY NoScriptStage DEF RunScript
  <1> HIDE DEF r
  <1>4. /\ phase' \in [Pids -> {"started", "inited", "connected", "lost", "ended"}]
        /\ script' \in [Pids -> Scripts]
        /\ UNCHANGED <<backlog, srv, held>>
    BY <1>1, <1>2 DEF Requests, RunScript, serverVars, r
  <1>5. \A q \in Pids : script[q].stage = "wait" => script'[q] = script[q]
    BY <1>1, <1>3 DEF Requests
  <1>6. QED
    BY <1>4, <1>5 DEF Requests

(* Taking the first connection from the backlog leaves the others. *)
LEMMA TailOfBacklog ==
  ASSUME Requests, backlog # <<>>
  PROVE  /\ Head(backlog) \in Pids /\ script[Head(backlog)].stage = "wait"
         /\ Tail(backlog) \in Seq(Pids)
         /\ \A i \in 1 .. Len(Tail(backlog)) :
              script[Tail(backlog)[i]].stage = "wait" /\ Tail(backlog)[i] # Head(backlog)
         /\ \A i, j \in 1 .. Len(Tail(backlog)) : Tail(backlog)[i] = Tail(backlog)[j] => i = j
  <1>1. backlog \in Seq(Pids) /\ Len(backlog) \in Nat /\ Len(backlog) # 0
    BY DEF Requests
  <1>2. Head(backlog) = backlog[1]
    BY <1>1
  <1>3. /\ Tail(backlog) \in Seq(Pids) /\ Len(Tail(backlog)) = Len(backlog) - 1
        /\ \A i \in 1 .. Len(Tail(backlog)) : Tail(backlog)[i] = backlog[i + 1]
    BY <1>1
  <1>4. QED
    BY <1>1, <1>2, <1>3 DEF Requests

(* The server drops a request or replies to it. *)
LEMMA ServerAcceptRequests == Requests /\ ServerAccept => Requests'
  <1> SUFFICES ASSUME Requests, ServerAccept PROVE Requests'
    OBVIOUS
  <1>1. backlog' = Tail(backlog) /\ held' = Head(backlog) /\ srv' = "forward"
        /\ UNCHANGED <<phase, script>> /\ backlog # <<>>
    BY DEF ServerAccept, ocVars
  <1>2. QED
    BY <1>1, TailOfBacklog DEF Requests

(* A connection whose request cannot be read is closed; its script ends. *)
LEMMA ServerReadErrorRequests == Requests /\ ServerReadError => Requests'
  <1> SUFFICES ASSUME Requests, ServerReadError PROVE Requests'
    OBVIOUS
  <1>1. /\ backlog' = Tail(backlog) /\ srv = "accept" /\ UNCHANGED <<phase, srv, held>>
        /\ backlog # <<>> /\ script' = [script EXCEPT ![Head(backlog)] = NoScript]
    BY DEF ServerReadError
  <1>2. script' \in [Pids -> Scripts]
    BY <1>1, NoScriptStage DEF Requests
  <1>3. \A q \in Pids : q # Head(backlog) => script'[q] = script[q]
    BY <1>1, TailOfBacklog DEF Requests
  <1>4. \A i \in 1 .. Len(backlog') : script'[backlog'[i]].stage = "wait"
    BY <1>1, <1>3, TailOfBacklog
  <1>5. QED
    BY <1>1, <1>2, <1>4, TailOfBacklog DEF Requests

(* A forwarded request that was replied to frees the server and ends the script. *)
LEMMA RepliedRequests ==
  ASSUME Requests, srv = "forward", srv' = "accept", held' = 0,
         script' = [script EXCEPT ![held] = NoScript], UNCHANGED <<phase, backlog>>
  PROVE  Requests'
  <1>1. script' \in [Pids -> Scripts]
    BY NoScriptStage DEF Requests
  <1>2. \A q \in Pids : q # held => script'[q] = script[q]
    BY DEF Requests
  <1>3. QED
    BY <1>1, <1>2 DEF Requests

(* Closing the server ends every script that waits for a reply. *)
LEMMA ServerCloseRequests == Requests /\ ServerClose => Requests'
  <1> SUFFICES ASSUME Requests, ServerClose PROVE Requests'
    OBVIOUS
  <1>1. /\ srv = "accept" /\ srv' = "closed" /\ backlog' = <<>> /\ UNCHANGED <<phase, held>>
        /\ script' = [p \in Pids |-> IF script[p].stage = "wait" THEN NoScript ELSE script[p]]
    BY DEF ServerClose
  <1>2. script' \in [Pids -> Scripts]
    BY <1>1, NoScriptStage DEF Requests
  <1>3. backlog' \in Seq(Pids) /\ Len(backlog') = 0
    BY <1>1
  <1>4. QED
    BY <1>1, <1>2, <1>3 DEF Requests

(* A script connects to the socket, or ends when nobody listens. *)
LEMMA ScriptDialRequests ==
  ASSUME NEW p \in Pids, Requests, ScriptDial(p)
  PROVE  Requests'
  <1>0. script[p].stage = "dial" /\ UNCHANGED <<phase, srv, held>>
    BY DEF ScriptDial
  <1>1. CASE srv = "closed" \/ sdone
    <2>1. script' = [script EXCEPT ![p] = NoScript] /\ backlog' = backlog
      BY <1>1 DEF ScriptDial
    <2>2. script' \in [Pids -> Scripts]
      BY <2>1, NoScriptStage DEF Requests
    <2>3. \A q \in Pids : script[q].stage = "wait" => script'[q] = script[q]
      BY <1>0, <2>1 DEF Requests
    <2>4. QED
      BY <1>0, <2>1, <2>2, <2>3 DEF Requests
  <1>2. CASE ~(srv = "closed" \/ sdone)
    <2>1. script' = [script EXCEPT ![p].stage = "wait"] /\ backlog' = Append(backlog, p)
      BY <1>2 DEF ScriptDial
    <2>2. script[p] \in [reason : Reasons, stage : {"dial", "wait"}, disable : BOOLEAN]
      BY <1>0, NoScriptStage DEF Requests, Scripts
    <2> DEFINE r == [script[p] EXCEPT !.stage = "wait"]
    <2>3. r \in Scripts /\ r.stage = "wait"
      BY <2>2 DEF Scripts
    <2>4. script' = [script EXCEPT ![p] = r]
      BY <2>1
    <2> HIDE DEF r
    <2>5. script' \in [Pids -> Scripts] /\ script'[p].stage = "wait"
      BY <2>3, <2>4 DEF Requests
    <2>6. \A q \in Pids : q # p => script'[q] = script[q]
      BY <2>4 DEF Requests
    <2>7. backlog \in Seq(Pids) /\ Len(backlog) \in Nat
      BY DEF Requests
    <2>8. /\ backlog' \in Seq(Pids) /\ Len(backlog') = Len(backlog) + 1
          /\ backlog'[Len(backlog) + 1] = p
          /\ \A i \in 1 .. Len(backlog) : backlog'[i] = backlog[i] /\ backlog[i] # p
                                          /\ backlog[i] \in Pids
      BY <1>0, <2>1, <2>7 DEF Requests
    <2>9. \A i \in 1 .. Len(backlog') : i = Len(backlog) + 1 \/ i \in 1 .. Len(backlog)
      BY <2>7, <2>8
    <2>10. \A i \in 1 .. Len(backlog') : script'[backlog'[i]].stage = "wait"
      BY <2>5, <2>6, <2>8, <2>9 DEF Requests
    <2>11. \A i, j \in 1 .. Len(backlog') : backlog'[i] = backlog'[j] => i = j
      BY <2>8, <2>9 DEF Requests
    <2>12. srv' = "forward" => /\ held' \in Pids
                               /\ script'[held'].stage = "wait"
                               /\ \A i \in 1 .. Len(backlog') : backlog'[i] # held'
      BY <1>0, <2>5, <2>6, <2>8, <2>9 DEF Requests
    <2>13. QED
      BY <1>0, <2>5, <2>8, <2>10, <2>11, <2>12 DEF Requests
  <1>3. QED
    BY <1>1, <1>2

(* Every step keeps the requests in order. *)
LEMMA RequestsNext == Requests /\ [Next]_vars => Requests'
  <1> SUFFICES ASSUME Requests, [Next]_vars PROVE Requests'
    OBVIOUS
  <1>0. ASSUME UNCHANGED <<ocVars, backlog, srv, held>> PROVE Requests'
    BY <1>0 DEF Requests, ocVars
  <1>1. ASSUME NEW p \in Pids,
               OCPreInit(p) \/ OCConnect(p) \/ OCAttemptReconnect(p) \/ OCReconnect(p)
                 \/ OCDisconnect(p)
        PROVE  Requests'
    BY <1>1, RunScriptRequests
    DEF OCPreInit, OCConnect, OCAttemptReconnect, OCReconnect, OCDisconnect, Reasons
  <1>2. ASSUME NEW p \in Pids, OCExit(p) \/ OCCrash(p) PROVE Requests'
    BY <1>0, <1>2 DEF OCExit, OCCrash, ocVars, serverVars
  <1>3. ASSUME NEW p \in Pids, ScriptDial(p) PROVE Requests'
    BY <1>3, ScriptDialRequests
  <1>4. CASE ServerAccept \/ ServerReadError \/ ServerClose
    BY <1>4, ServerAcceptRequests, ServerReadErrorRequests, ServerCloseRequests
  <1>5. CASE ServerReject
    BY <1>5, RepliedRequests DEF ServerReject
  <1>6. CASE DaemonServerRequest
    BY <1>6, RepliedRequests DEF DaemonServerRequest
  <1>7. CASE \/ DaemonNilRequest \/ DaemonDBusConnect \/ DaemonDBusDisconnect
             \/ DaemonSleepMonResume \/ DaemonTNDResult \/ DaemonProfileUpdate
             \/ DaemonCPDStatusUpdate \/ DaemonRunnerEvent \/ DaemonSendConnect
             \/ DaemonSendDisconnect \/ Stop \/ DaemonDone \/ DaemonRunnerStopped
             \/ DaemonServerStopped \/ RunnerStep
    BY <1>0, <1>7
    DEF DaemonNilRequest, DaemonDBusConnect, DaemonDBusDisconnect, DaemonSleepMonResume,
        DaemonTNDResult, DaemonProfileUpdate, DaemonCPDStatusUpdate, DaemonRunnerEvent,
        DaemonSendConnect, DaemonSendDisconnect, Stop, DaemonDone, DaemonRunnerStopped,
        DaemonServerStopped, RunnerStep, serverVars
  <1>8. CASE UNCHANGED vars
    BY <1>0, <1>8 DEF vars, serverVars
  <1>9. QED
    BY <1>1, <1>2, <1>3, <1>4, <1>5, <1>6, <1>7, <1>8 DEF Next

-----------------------------------------------------------------------------
(* A step of the composition is a step of the runner or leaves it alone.   *)
LEMMA RunnerStepOfNext == [Next]_vars => [RunnerNext]_runnerVars
  <1> SUFFICES ASSUME [Next]_vars PROVE [RunnerNext]_runnerVars
    OBVIOUS
  <1>1. ASSUME NEW p \in Pids,
               \/ OCPreInit(p) \/ OCConnect(p) \/ OCAttemptReconnect(p) \/ OCReconnect(p)
               \/ OCDisconnect(p) \/ ScriptDial(p)
        PROVE  UNCHANGED runnerVars
    BY <1>1
    DEF OCPreInit, OCConnect, OCAttemptReconnect, OCReconnect, OCDisconnect, RunScript,
        ScriptDial
  <1>2. ASSUME NEW p \in Pids, OCExit(p) \/ OCCrash(p) PROVE RunnerNext
    BY <1>2 DEF OCExit, OCCrash, RunnerNext
  <1>3. CASE \/ ServerAccept \/ ServerReadError \/ ServerReject \/ ServerClose
             \/ DaemonNilRequest \/ DaemonDBusConnect \/ DaemonDBusDisconnect
             \/ DaemonSleepMonResume \/ DaemonCPDStatusUpdate \/ Stop
             \/ DaemonRunnerStopped \/ DaemonServerStopped
    BY <1>3
    DEF ServerAccept, ServerReadError, ServerReject, ServerClose, DaemonNilRequest,
        DaemonDBusConnect, DaemonDBusDisconnect, DaemonSleepMonResume,
        DaemonCPDStatusUpdate, Stop, DaemonRunnerStopped, DaemonServerStopped
  <1>4. CASE DaemonServerRequest \/ DaemonTNDResult \/ DaemonProfileUpdate \/ DaemonDone
    <2>1. Deferred
      BY <1>4 DEF DaemonServerRequest, DaemonTNDResult, DaemonProfileUpdate, DaemonDone
    <2>2. QED
      BY <2>1 DEF Deferred, RunnerNext, RunnerUser
  <1>5. CASE DaemonRunnerEvent \/ DaemonSendConnect \/ DaemonSendDisconnect
    BY <1>5
    DEF DaemonRunnerEvent, DaemonSendConnect, DaemonSendDisconnect, RunnerNext, RunnerUser
  <1>6. CASE RunnerStep
    BY <1>6 DEF RunnerStep, RunnerNext
  <1>7. CASE UNCHANGED vars
    BY <1>7 DEF vars
  <1>8. QED
    BY <1>1, <1>2, <1>3, <1>4, <1>5, <1>6, <1>7 DEF Next

(* A step of the composition is a step of the daemon or leaves it alone:   *)
(* the environment of the daemon's specification covers the runner, the    *)
(* scripts and the server.                                                 *)
LEMMA DaemonStepOfNext == Requests /\ Link /\ [Next]_vars => [DaemonNext]_daemonVars
  <1> SUFFICES ASSUME Requests, Link, [Next]_vars PROVE [DaemonNext]_daemonVars
    OBVIOUS
  <1>0. \A c \in {"trafpol", "tnd"} : TRUE \in Outcomes(c)
    BY DEF Outcomes
  <1>1. ASSUME NEW p \in Pids,
               \/ OCPreInit(p) \/ OCConnect(p) \/ OCAttemptReconnect(p) \/ OCReconnect(p)
               \/ OCDisconnect(p) \/ ScriptDial(p) \/ OCExit(p) \/ OCCrash(p)
        PROVE  UNCHANGED daemonVars
    BY <1>1
    DEF OCPreInit, OCConnect, OCAttemptReconnect, OCReconnect, OCDisconnect, RunScript,
        ScriptDial, OCExit, OCCrash
  <1>2. CASE ServerAccept \/ ServerReadError \/ ServerReject \/ ServerClose \/ Stop \/ RunnerStep
    BY <1>2 DEF ServerAccept, ServerReadError, ServerReject, ServerClose, Stop, RunnerStep
  <1>3. CASE DaemonServerRequest
    <2> DEFINE reason == script[held].reason
               config == [pid |-> held, disable |-> script[held].disable]
    <2>1. held \in Pids /\ script[held] \in Scripts /\ script[held].stage = "wait"
      BY <1>3 DEF DaemonServerRequest, Requests
    <2>2. script[held] \in [reason : Reasons, stage : {"dial", "wait"}, disable : BOOLEAN]
      BY <2>1, NoScriptStage DEF Scripts
    <2>3. reason \in Reasons /\ config \in Configs
      BY <2>1, <2>2, OCDaemonAssumption DEF Configs
    <2>4. ClientRequest(reason, config)
      BY <1>3 DEF DaemonServerRequest
    <2> HIDE DEF reason, config
    <2>5. QED
      BY <2>3, <2>4 DEF DaemonNext
  <1>4. CASE DaemonRunnerEvent
    <2>1. RunnerEvent(event.Connect, event.PID) /\ rpc = "sendEvent"
      BY <1>4 DEF DaemonRunnerEvent, EventReceived, EventDone
    <2>2. CASE event = DisconnectEvent
      <3>1. RunnerEvent(FALSE, 0)
        BY <2>1, <2>2 DEF DisconnectEvent
      <3>2. QED
        BY <3>1 DEF DaemonNext
    <2>3. CASE pid \in Pids /\ event = ConnectEvent(pid)
      <3>1. RunnerEvent(TRUE, pid)
        BY <2>1, <2>3 DEF ConnectEvent
      <3>2. QED
        BY <2>3, <3>1, OCDaemonAssumption DEF DaemonNext
    <2>4. QED
      BY <2>1, <2>2, <2>3 DEF Link
  <1>5. CASE \/ DaemonNilRequest \/ DaemonDBusConnect \/ DaemonDBusDisconnect
             \/ DaemonSleepMonResume \/ DaemonTNDResult \/ DaemonProfileUpdate
             \/ DaemonCPDStatusUpdate \/ DaemonDone \/ DaemonRunnerStopped
             \/ DaemonServerStopped
    BY <1>5
    DEF DaemonNilRequest, DaemonDBusConnect, DaemonDBusDisconnect, DaemonSleepMonResume,
        DaemonTNDResult, DaemonProfileUpdate, DaemonCPDStatusUpdate, DaemonDone,
        DaemonRunnerStopped, DaemonServerStopped, DaemonNext
  <1>6. CASE DaemonSendConnect \/ DaemonSendDisconnect
    BY <1>0, <1>6 DEF DaemonSendConnect, DaemonSendDisconnect, DaemonNext
  <1>7. CASE UNCHANGED vars
    BY <1>7 DEF vars
  <1>8. QED
    BY <1>1, <1>2, <1>3, <1>4, <1>5, <1>6, <1>7 DEF Next

-----------------------------------------------------------------------------
(* The link between daemon and runner. *)

(* Nothing of daemon and runner changes. *)
LEMMA LinkStutter ==
  ASSUME Link, UNCHANGED <<runnerVars, daemonVars>>, srv = "closed" => srv' = "closed"
  PROVE  Link'
  BY DEF Link, NothingRuns, RunnerIdle, Alive, runnerVars, daemonVars

(* A process terminates. *)
LEMMA LinkProcExit ==
  ASSUME Link, RunnerInv, NEW p \in Pids, ProcExit(p), UNCHANGED <<daemonVars, srv>>
  PROVE  Link'
  <1>1. \A q \in Pids : Alive(q)' => Alive(q)
    BY DEF ProcExit, Alive, RunnerInv, RunnerTypeOK
  <1>2. NothingRuns => NothingRuns'
    BY <1>1 DEF NothingRuns, RunnerIdle, ProcExit
  <1>3. QED
    BY <1>2 DEF Link, ProcExit, daemonVars

(* A step of the runner's goroutines.  When nothing runs there is none     *)
(* before the runner is stopped.                                           *)
LEMMA LinkRunnerInternal ==
  ASSUME Link, RunnerInv, RunnerInternal, UNCHANGED <<daemonVars, srv>>, dpc # "panic"
  PROVE  Link'
  <1> USE DEF Link, NothingRuns, RunnerIdle, daemonVars
  <1>1. CASE RecvExit
    BY <1>1 DEF RecvExit
  <1>2. CASE EventAborted
    BY <1>2 DEF EventAborted, EventDone
  <1>3. CASE HandleStop
    BY <1>3 DEF HandleStop
  <1>4. CASE StopExit
    BY <1>4 DEF StopExit
  <1>5. CASE WaitReturns
    BY <1>5 DEF WaitReturns
  <1>6. QED
    BY <1>1, <1>2, <1>3, <1>4, <1>5 DEF RunnerInternal

(* A handler that keeps the running state ends, and the deferred calls of  *)
(* an error return stop the runner.                                        *)
LEMMA LinkReturn ==
  ASSUME Link, dpc = "select", NEW x, Good(x), Return(x), Deferred
  PROVE  Link'
  <1>1. d' = HandleRunnerDisconnect(x) /\ dpc' = "waitRunner" /\ dcmd' = "none"
    BY DEF Return
  <1>2. CloseDone
    BY <1>1 DEF Deferred
  <1>3. ~(d'.OCRunning) /\ d'.OCPID = 0
    BY <1>1, HandleRunnerDisconnectLemma DEF Good, Clean
  <1>4. QED
    BY <1>1, <1>2, <1>3 DEF Link, CloseDone

(* A handler that keeps the PID keeps the link between the daemon and the runner. *)
LEMMA LinkHandled ==
  ASSUME Link, dpc = "select", NEW x, Good(x), Keeps(d, x), Handled(x), Deferred
  PROVE  Link'
  <1>1. CASE x.trafpol = "failed" \/ x.tnd = "failed"
    BY <1>1, LinkReturn DEF Handled
  <1>2. CASE ~(x.trafpol = "failed" \/ x.tnd = "failed")
    <2>1. d' = x /\ dpc' = "select" /\ dcmd' = "none"
      BY <1>2 DEF Handled
    <2>2. UNCHANGED runnerVars
      BY <2>1 DEF Deferred
    <2>3. QED
      BY <2>1, <2>2 DEF Link, Keeps, NothingRuns, RunnerIdle, Alive, runnerVars
  <1>3. QED
    BY <1>1, <1>2

(* A handler blocks on a command. *)
LEMMA LinkSend ==
  ASSUME Link, dpc = "select", NEW x, x.OCRunning, x.OCPID = d.OCPID,
         NEW cmd \in {"connect", "disconnect", "disconnectThenCheck"}, Send(x, cmd),
         cmd = "connect" => ~d.OCRunning /\ d.OCPID = 0, UNCHANGED runnerVars
  PROVE  Link'
  BY DEF Link, Send, NothingRuns, RunnerIdle, Alive, runnerVars

(* The event on offer is received: only a disconnect event makes the       *)
(* daemon believe that openconnect is not running, and when it is on offer *)
(* nothing runs.                                                           *)
LEMMA LinkRunnerEvent == Link /\ RunnerInv /\ DaemonInv /\ DaemonRunnerEvent => Link'
  <1> SUFFICES ASSUME Link, RunnerInv, DaemonInv, DaemonRunnerEvent PROVE Link'
    OBVIOUS
  <1>1. /\ RunnerEvent(event.Connect, event.PID) /\ EventDone
        /\ dpc = "select" /\ rpc = "sendEvent"
    BY DEF DaemonRunnerEvent, EventReceived, EventDone, RunnerEvent
  <1>2. Good(d) /\ Started(d)
    BY <1>1 DEF DaemonInv
  <1>3. CASE event = DisconnectEvent
    <2> DEFINE y == HandleRunnerDisconnect(d)
    <2>1. Handled(y)
      BY <1>1, <1>3 DEF RunnerEvent, HandleRunnerEvent, DisconnectEvent
    <2>2. Good(y) /\ ~y.OCRunning /\ Started(y)
      BY <1>2, HandleRunnerDisconnectLemma
    <2> HIDE DEF y
    <2>3. d' = y /\ dpc' = "select" /\ dcmd' = "none" /\ y.OCPID = 0
      BY <2>1, <2>2 DEF Handled, Started, Good, Clean
    <2>4. ~event.Connect
      BY <1>3 DEF DisconnectEvent
    <2>5. command = "nil" /\ waiter = "none" /\ \A p \in Pids : ~Alive(p)
      BY <1>1, <2>4 DEF RunnerInv, EveryCommandWatched, NoProcessLost
    <2>6. NothingRuns'
      BY <1>1, <2>4, <2>5 DEF NothingRuns, RunnerIdle, EventDone, Alive
    <2>7. QED
      BY <1>1, <2>2, <2>3, <2>6 DEF Link, EventDone
  <1>4. CASE pid \in Pids /\ event = ConnectEvent(pid)
    <2> DEFINE y == HandleRunnerConnect(d, pid)
    <2>1. Handled(y)
      BY <1>1, <1>4 DEF RunnerEvent, HandleRunnerEvent, ConnectEvent
    <2>2. y.OCRunning /\ y.OCPID = pid /\ Started(y)
      BY <1>2, <1>4, OCDaemonAssumption DEF HandleRunnerConnect, Started, Good, DaemonState
    <2> HIDE DEF y
    <2>3. d' = y /\ dpc' = "select" /\ dcmd' = "none"
      BY <2>1, <2>2 DEF Handled, Started
    <2>4. QED
      BY <1>1, <2>2, <2>3 DEF Link, EventDone
  <1>5. QED
    BY <1>1, <1>3, <1>4 DEF Link

(* The command on offer is received. *)
LEMMA LinkCommandSent ==
  ASSUME Link, RunnerInv, DaemonInv, CommandSent(TRUE),
         (dcmd = "connect" /\ RecvConnect) \/ RecvDisconnect, UNCHANGED srv
  PROVE  Link'
  <1> DEFINE y == IF dcmd = "disconnectThenCheck" THEN CheckTrafPol(d, TRUE) ELSE d
  <1>1. dpc = "sendCmd" /\ Handled(y)
    BY DEF CommandSent
  <1>2. Good(d) /\ Started(d)
    BY <1>1 DEF DaemonInv
  <1>3. Keeps(d, CheckTrafPol(d, TRUE)) /\ Started(CheckTrafPol(d, TRUE))
    BY <1>2, SameVPNTrafPol, SameVPNKeeps, CheckSucceeds, CheckTrafPolLemma DEF Started
  <1>4. Keeps(d, y) /\ Started(y)
    BY <1>2, <1>3 DEF Keeps
  <1> HIDE DEF y
  <1>5. d' = y /\ dpc' = "select" /\ dcmd' = "none"
    BY <1>1, <1>4 DEF Handled, Started
  <1>6. d.OCRunning
    BY <1>1 DEF Link
  <1>7. /\ d'.OCRunning /\ d'.OCPID = d.OCPID
    BY <1>4, <1>5, <1>6 DEF Keeps
  <1>8. CASE RecvDisconnect
    BY <1>1, <1>5, <1>7, <1>8 DEF Link, RecvDisconnect
  <1>9. CASE dcmd = "connect" /\ RecvConnect
    <2>1. dcmd = "connect" /\ d.OCPID = 0 /\ RunnerIdle
      BY <1>9 DEF Link, NothingRuns
    <2>2. CASE ConnectFails
      BY <1>1, <1>5, <1>7, <2>1, <2>2 DEF Link, ConnectFails
    <2>3. CASE ConnectStarts
      <3>1. pid' \in Pids
        BY <2>3, MaxSessionsAssumption DEF ConnectStarts, Pids, RunnerInv, RunnerTypeOK
      <3>2. QED
        BY <1>1, <1>5, <1>7, <2>1, <2>3, <3>1 DEF Link, ConnectStarts
    <2>4. QED
      BY <1>9, <2>1, <2>2, <2>3 DEF RecvConnect, RunnerIdle
  <1>10. QED
    BY <1>8, <1>9

(* connectVPN sets the running state and keeps the PID. *)
LEMMA ConnectVPNRuns ==
  ASSUME NEW x, NEW host \in Hosts \cup {NoAddr}, Good(x)
  PROVE  ConnectVPN(x, host).OCRunning /\ ConnectVPN(x, host).OCPID = x.OCPID
  <1> DEFINE h == IF host # NoAddr THEN host ELSE x.serverIP
             y == [x EXCEPT !.serverIP = h, !.OCRunning = TRUE,
                            !.ConnectionState = "Connecting"]
  <1>1. ConnectVPN(x, host) \in {y, AddAllowedAddr(y)}
    BY DEF ConnectVPN
  <1>2. h \in Hosts \cup {NoAddr}
    BY DEF Good, DaemonState
  <1> HIDE DEF h
  <1>3. y \in DaemonState /\ y.OCRunning /\ y.OCPID = x.OCPID
    BY <1>2 DEF Good, DaemonState
  <1> HIDE DEF y
  <1>4. AddAllowedAddr(y).OCRunning = y.OCRunning /\ AddAllowedAddr(y).OCPID = y.OCPID
    BY <1>3 DEF AddAllowedAddr, DaemonState
  <1>5. QED
    BY <1>1, <1>3, <1>4

(* The handlers of a select that do not talk to the runner. *)
LEMMA LinkHandlers ==
  ASSUME Link, DaemonInv,
         \/ DaemonServerRequest \/ DaemonDBusConnect \/ DaemonDBusDisconnect
         \/ DaemonSleepMonResume \/ DaemonTNDResult \/ DaemonProfileUpdate
         \/ DaemonCPDStatusUpdate \/ DaemonDone,
         Requests
  PROVE  Link'
  <1>g. Good(d) /\ (dpc = "select" => Started(d))
    BY DEF DaemonInv
  <1>o. Outcomes("trafpol") \subseteq BOOLEAN /\ Outcomes("tnd") \subseteq BOOLEAN
    BY DEF Outcomes
  <1>1. CASE DaemonServerRequest
    <2> DEFINE reason == script[held].reason
               config == [pid |-> held, disable |-> script[held].disable]
               y == UpdateVPNConfig(d, reason, config)
    <2>1. held \in Pids /\ script[held] \in Scripts /\ script[held].stage = "wait"
      BY <1>1 DEF DaemonServerRequest, Requests
    <2>2. script[held] \in [reason : Reasons, stage : {"dial", "wait"}, disable : BOOLEAN]
      BY <2>1, NoScriptStage DEF Scripts
    <2>3. reason \in Reasons /\ config \in Configs
      BY <2>1, <2>2, OCDaemonAssumption DEF Configs
    <2>4. dpc = "select" /\ Handled(y) /\ Deferred
      BY <1>1 DEF DaemonServerRequest, ClientRequest
    <2> HIDE DEF reason, config
    <2>5. Good(y) /\ Keeps(d, y)
      BY <1>g, <2>3, UpdateVPNConfigLemma, KeepsUpdateVPNConfig
    <2> HIDE DEF y
    <2>6. QED
      BY <2>4, <2>5, LinkHandled
  <1>2. CASE DaemonDBusConnect
    <2>1. PICK host \in Hosts \cup {NoAddr} : DBusConnect(host)
      BY <1>2 DEF DaemonDBusConnect
    <2> DEFINE y == ConnectVPN(d, host)
    <2>2. dpc = "select" /\ ~d.OCRunning /\ Send(y, "connect") /\ UNCHANGED runnerVars
      BY <1>2, <2>1 DEF DBusConnect, DaemonDBusConnect
    <2>3. y.OCRunning /\ y.OCPID = d.OCPID /\ d.OCPID = 0
      BY <1>g, <2>2, ConnectVPNRuns DEF Good, Clean
    <2> HIDE DEF y
    <2>4. QED
      BY <2>2, <2>3, LinkSend
  <1>3. CASE DaemonDBusDisconnect \/ DaemonSleepMonResume
    <2> DEFINE y == Disconnecting(d)
    <2>1. dpc = "select" /\ d.OCRunning /\ Send(y, "disconnect") /\ UNCHANGED runnerVars
      BY <1>3 DEF DBusDisconnect, DaemonDBusDisconnect, DaemonSleepMonResume, SleepMonResume
    <2>2. y.OCRunning = d.OCRunning /\ y.OCPID = d.OCPID
      BY <1>g DEF Disconnecting, Good, DaemonState
    <2> HIDE DEF y
    <2>3. QED
      BY <2>1, <2>2, LinkSend
  <1>4. CASE DaemonTNDResult
    <2>1. PICK trusted \in BOOLEAN, ok \in Outcomes("trafpol") : TNDResult(trusted, ok)
      BY <1>4 DEF DaemonTNDResult
    <2> DEFINE x == [d EXCEPT !.TrustedNetwork = trusted]
               y == Disconnecting(x)
               z == CheckTrafPol(x, ok)
    <2>2. Good(x) /\ Keeps(d, x)
      BY <1>g, SetTrustedNetworkLemma DEF Keeps, Good, DaemonState
    <2>3. /\ dpc = "select" /\ Deferred
          /\ (x.OCRunning /\ Send(y, "disconnectThenCheck")) \/ Handled(z)
      BY <1>4, <2>1 DEF TNDResult, DaemonTNDResult
    <2> HIDE DEF x
    <2>4. ASSUME x.OCRunning, Send(y, "disconnectThenCheck") PROVE Link'
      <3>1. y.OCRunning = x.OCRunning /\ y.OCPID = x.OCPID
        BY <2>2 DEF Disconnecting, Good, DaemonState
      <3> HIDE DEF y
      <3>2. UNCHANGED runnerVars
        BY <2>3, <2>4 DEF Deferred, Send
      <3>3. QED
        BY <2>2, <2>3, <2>4, <3>1, <3>2, LinkSend DEF Keeps
    <2>5. ASSUME Handled(z) PROVE Link'
      <3>1. Good(z) /\ Keeps(x, z)
        BY <1>o, <2>2, CheckTrafPolLemma, SameVPNTrafPol, SameVPNKeeps
      <3> HIDE DEF z
      <3>2. Keeps(d, z)
        BY <2>2, <3>1 DEF Keeps
      <3>3. QED
        BY <2>3, <2>5, <3>1, <3>2, LinkHandled
    <2>6. QED
      BY <2>3, <2>4, <2>5
  <1>5. CASE DaemonProfileUpdate
    <2>1. PICK profile \in Profiles, ok1 \in Outcomes("trafpol"), ok2 \in Outcomes("tnd") :
            ProfileUpdate(profile, ok1, ok2)
      BY <1>5 DEF DaemonProfileUpdate
    <2> DEFINE y == HandleProfileUpdate(d, profile, ok1, ok2)
    <2>2. dpc = "select" /\ Handled(y) /\ Deferred
      BY <1>5, <2>1 DEF ProfileUpdate, DaemonProfileUpdate
    <2>3. Good(y) /\ Keeps(d, y)
      BY <1>g, <1>o, HandleProfileUpdateLemma, SameVPNProfileUpdate, SameVPNKeeps
    <2> HIDE DEF y
    <2>4. QED
      BY <2>2, <2>3, LinkHandled
  <1>6. CASE DaemonCPDStatusUpdate
    <2>1. PICK detected \in BOOLEAN : CPDStatusUpdate(detected)
      BY <1>6 DEF DaemonCPDStatusUpdate
    <2> DEFINE y == HandleCPDStatusUpdate(d, detected)
    <2>2. dpc = "select" /\ d.trafpol = "running" /\ Handled(y) /\ UNCHANGED runnerVars
      BY <1>6, <2>1 DEF CPDStatusUpdate, DaemonCPDStatusUpdate
    <2>3. Good(y) /\ Started(y)
      BY <1>g, <2>2, HandleCPDStatusUpdateLemma
    <2>4. Keeps(d, y)
      BY <1>g DEF HandleCPDStatusUpdate, Keeps, Good, DaemonState
    <2> HIDE DEF y
    <2>5. d' = y /\ dpc' = "select" /\ dcmd' = "none"
      BY <2>2, <2>3 DEF Handled, Started
    <2>6. QED
      BY <2>2, <2>4, <2>5 DEF Link, Keeps, NothingRuns, RunnerIdle, Alive, runnerVars
  <1>7. CASE DaemonDone
    BY <1>7, <1>g, LinkReturn DEF DaemonDone, StopRequested
  <1>8. QED
    BY <1>1, <1>2, <1>3, <1>4, <1>5, <1>6, <1>7

(* Every step preserves the link. *)
LEMMA LinkNext == RunnerInv /\ DaemonInv /\ Requests /\ Link /\ [Next]_vars => Link'
  <1> SUFFICES ASSUME RunnerInv, DaemonInv, Requests, Link, [Next]_vars PROVE Link'
    OBVIOUS
  <1>1. ASSUME NEW p \in Pids,
               \/ OCPreInit(p) \/ OCConnect(p) \/ OCAttemptReconnect(p) \/ OCReconnect(p)
               \/ OCDisconnect(p) \/ ScriptDial(p)
        PROVE  Link'
    <2>1. UNCHANGED <<runnerVars, daemonVars, srv>>
      BY <1>1
      DEF OCPreInit, OCConnect, OCAttemptReconnect, OCReconnect, OCDisconnect, RunScript,
          ScriptDial, serverVars
    <2>2. QED
      BY <2>1, LinkStutter
  <1>2. ASSUME NEW p \in Pids, OCExit(p) \/ OCCrash(p) PROVE Link'
    <2>1. ProcExit(p) /\ UNCHANGED <<daemonVars, srv>>
      BY <1>2 DEF OCExit, OCCrash, serverVars
    <2>2. QED
      BY <2>1, LinkProcExit
  <1>3. CASE ServerAccept \/ ServerReadError \/ ServerReject \/ ServerClose \/ Stop
    <2>1. UNCHANGED <<runnerVars, daemonVars>> /\ (srv = "closed" => srv' = "closed")
      BY <1>3 DEF ServerAccept, ServerReadError, ServerReject, ServerClose, Stop, serverVars
    <2>2. QED
      BY <2>1, LinkStutter
  <1>4. CASE \/ DaemonServerRequest \/ DaemonDBusConnect \/ DaemonDBusDisconnect
             \/ DaemonSleepMonResume \/ DaemonTNDResult \/ DaemonProfileUpdate
             \/ DaemonCPDStatusUpdate \/ DaemonDone
    BY <1>4, LinkHandlers
  <1>5. CASE DaemonNilRequest
    BY <1>5
    DEF DaemonNilRequest, NilRequest, Link, NothingRuns, RunnerIdle, Alive, runnerVars
  <1>6. CASE DaemonRunnerEvent
    BY <1>6, LinkRunnerEvent
  <1>7. CASE DaemonSendConnect \/ DaemonSendDisconnect
    <2>1. /\ CommandSent(TRUE) /\ UNCHANGED srv
          /\ (dcmd = "connect" /\ RecvConnect) \/ RecvDisconnect
      BY <1>7 DEF DaemonSendConnect, DaemonSendDisconnect, serverVars
    <2>2. QED
      BY <2>1, LinkCommandSent
  <1>8. CASE DaemonRunnerStopped
    BY <1>8
    DEF DaemonRunnerStopped, RunnerStopped, Link, NothingRuns, RunnerIdle, Alive, runnerVars
  <1>9. CASE DaemonServerStopped
    <2> DEFINE x == StopTND(d)
               y == StopTrafPol(x)
    <2>1. Good(x) /\ Keeps(d, x)
      BY SetTNDLemma, SameVPNTND, SameVPNKeeps DEF DaemonInv, StopTND
    <2>2. /\ dpc = "waitServer" /\ dpc' \in {"hung", "closed"} /\ d' \in {x, y}
          /\ srv = "closed" /\ UNCHANGED <<runnerVars, dcmd, srv>>
      <3>1. CASE d.trafpol = "failed"
        BY <1>9, <3>1 DEF DaemonServerStopped, ServerStopped, serverVars
      <3>2. CASE d.trafpol # "failed"
        BY <1>9, <3>2 DEF DaemonServerStopped, ServerStopped, serverVars
      <3>3. QED
        BY <3>1, <3>2
    <2> HIDE DEF x
    <2>3. Keeps(x, y)
      BY <2>1, SameVPNTrafPol, SameVPNKeeps
    <2> HIDE DEF y
    <2>4. Keeps(d, d')
      BY <2>1, <2>2, <2>3 DEF Keeps
    <2>5. QED
      BY <2>2, <2>4 DEF Link, Keeps, NothingRuns, RunnerIdle, Alive, runnerVars
  <1>10. CASE RunnerStep
    <2>1. RunnerInternal /\ UNCHANGED <<daemonVars, srv>> /\ dpc # "panic"
      BY <1>10 DEF RunnerStep, serverVars
    <2>2. QED
      BY <2>1, LinkRunnerInternal
  <1>11. CASE UNCHANGED vars
    <2>1. UNCHANGED <<runnerVars, daemonVars, srv>>
      BY <1>11 DEF vars, serverVars
    <2>2. QED
      BY <2>1, LinkStutter
  <1>12. QED
    BY <1>1, <1>2, <1>3, <1>4, <1>5, <1>6, <1>7, <1>8, <1>9, <1>10, <1>11 DEF Next

-----------------------------------------------------------------------------
(* The inductive invariant of the composition. *)
OCDaemonInv == RunnerInv /\ DaemonInv /\ Requests /\ Link

(* The initial states of the composition satisfy its invariant. *)
LEMMA OCDaemonInitInv == Init => OCDaemonInv
  <1> SUFFICES ASSUME Init PROVE OCDaemonInv
    OBVIOUS
  <1>1. RunnerInv /\ DaemonInv
    BY RunnerInitInv, DaemonInitInv DEF Init
  <1>2. Requests
    <2>1. script = [p \in Pids |-> NoScript] /\ phase = [p \in Pids |-> "started"]
      BY DEF Init
    <2>2. backlog \in Seq(Pids) /\ Len(backlog) = 0
      BY DEF Init
    <2>3. QED
      BY <2>1, <2>2, NoScriptStage DEF Init, Requests
  <1>3. \A p \in Pids : ~Alive(p)
    BY DEF Init, RunnerInit, Alive
  <1>4. RunnerIdle /\ dpc = "select" /\ dcmd = "none" /\ rdone = FALSE /\ rpc = "select"
    BY DEF Init, RunnerInit, DaemonInit, RunnerIdle
  <1>5. d.OCPID = 0
    BY StartedDaemonLemma, DaemonAssumption DEF Init, DaemonInit, Good, Clean
  <1>6. QED
    BY <1>1, <1>2, <1>3, <1>4, <1>5 DEF OCDaemonInv, Link, NothingRuns

(* Every step of the composition keeps it. *)
LEMMA OCDaemonNextInv == OCDaemonInv /\ [Next]_vars => OCDaemonInv'
  BY RunnerStepOfNext, RunnerNextInv, DaemonStepOfNext, DaemonNextInv, RequestsNext, LinkNext
  DEF OCDaemonInv

(* The invariant holds in every state of every behaviour. *)
THEOREM OCDaemonInvariance == Spec => []OCDaemonInv
  BY OCDaemonInitInv, OCDaemonNextInv, PTL DEF Spec

(* The composition implements the runner with its most general user.       *)
THEOREM ImplementsRunner == Spec => RunnerSpec
  <1>1. Init => RunnerInit
    BY DEF Init
  <1>2. QED
    BY <1>1, RunnerStepOfNext, PTL DEF Spec, RunnerSpec

(* The composition implements the daemon in its most general environment,  *)
(* so all that is proved of DaemonSpec holds for the composition.          *)
THEOREM ImplementsDaemon == Spec => DaemonSpec
  <1>1. Init => DaemonInit
    BY DEF Init
  <1>2. OCDaemonInv /\ [Next]_vars => [DaemonNext]_daemonVars
    BY DaemonStepOfNext DEF OCDaemonInv
  <1>3. QED
    BY <1>1, <1>2, OCDaemonInvariance, PTL DEF Spec, DaemonSpec

(* A connect command always finds an idle runner: it is never refused and  *)
(* never leaves the daemon blocked.                                        *)
THEOREM ConnectIsAccepted == Spec => []ConnectAccepted
  <1>1. OCDaemonInv => ConnectAccepted
    BY DEF OCDaemonInv, Link, NothingRuns, ConnectAccepted
  <1>2. QED
    BY <1>1, OCDaemonInvariance, PTL

(* While the daemon says that openconnect is not running, no process is    *)
(* left and no exit is still to be reported.                               *)
THEOREM NotRunningIsGone == Spec => []NotRunningMeansGone
  <1>1. OCDaemonInv => NotRunningMeansGone
    BY DEF OCDaemonInv, Link, NothingRuns, NotRunningMeansGone
  <1>2. QED
    BY <1>1, OCDaemonInvariance, PTL

(* The PID the daemon reports is that of the process the runner controls.  *)
THEOREM PIDIsCurrent == Spec => []ReportedPIDIsCurrent
  <1>1. OCDaemonInv => ReportedPIDIsCurrent
    BY DEF OCDaemonInv, Link, ReportedPIDIsCurrent
  <1>2. QED
    BY <1>1, OCDaemonInvariance, PTL

(* When the daemon has stopped, no openconnect process is left and the     *)
(* socket server is closed.                                                *)
THEOREM StoppedIsGone == Spec => []StoppedMeansGone
  <1>1. OCDaemonInv => StoppedMeansGone
    BY DEF OCDaemonInv, Link, RunnerInv, NoProcessLost, StoppedMeansGone
  <1>2. QED
    BY <1>1, OCDaemonInvariance, PTL

=============================================================================
