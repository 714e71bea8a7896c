------------------------------- MODULE Client -------------------------------
(***************************************************************************)
(* The clients of the daemon: the commands connect, disconnect, reconnect  *)
(* and dump-state of oc-client (internal/client), and the subscription of  *)
(* the client library to status updates (pkg/client), as oc-client monitor *)
(* uses it, composed with the D-Bus service of the daemon.                 *)
(*                                                                         *)
(* D-Bus keeps the order of the messages of one sender.  The D-Bus library *)
(* hands signals to the channel of the client, which is buffered; when it  *)
(* is full, each signal waits in a goroutine of its own and signals can    *)
(* overtake each other.                                                    *)
(***************************************************************************)
EXTENDS DBusAPI, FiniteSets

CONSTANTS
  SignalBuffer,       \* capacity of the client's channel of signals
  MaxLater,           \* bound: signals that wait for the channel
  MaxReconnectTries,  \* maxReconnectTries
  Commands,           \* commands users give
  Watched,            \* properties whose status is followed, one at a time
  MaxActive           \* bound: clients in the model that are active at once

ASSUME ClientAssumption ==
  /\ SignalBuffer \in Nat \ {0}
  /\ MaxLater \in Nat
  /\ MaxReconnectTries \in Nat \ {0}
  /\ MaxActive \in Nat \ {0}
  /\ Watched \subseteq PropNames
  /\ Commands \subseteq {"connect", "disconnect", "reconnect", "dump"}

VARIABLES
  op,      \* the command of each caller and how far it has come
  by,      \* history: the client whose connect request started openconnect
  mpc,     \* the subscriber: its Subscribe() or Close()
  sig,     \* the channel of signals
  later,   \* signals that wait in goroutines for the channel
  closed,  \* the connection, and with it the channel of signals, is closed
  gpc,     \* the goroutine that turns signals into status updates
  watch,   \* the property whose status we follow
  status,  \* the status it keeps and sends to the user
  lost,    \* history: was a signal not delivered since the status was queried?
  late     \* history: did a signal have to wait for the channel?

subVars == <<mpc, sig, later, closed, gpc, watch, status, lost, late>>
vars == <<apiVars, op, by, subVars>>

Idle == [cmd |-> "none", pc |-> "idle", try |-> 0]

ClientTypeOK ==
  /\ APITypeOK
  /\ op \in [Callers ->
       [cmd : Commands \cup {"none"},
        pc  : {"idle", "check", "auth", "recheck", "Connect", "dquery", "Disconnect",
               "rquery", "poll", "DumpState", "reply"},
        try : 0 .. MaxReconnectTries - 1]]
  /\ by \in Callers \cup {NoCaller}
  /\ mpc \in {"idle", "query", "match", "signal", "on", "failed", "closing", "wait",
             "closed"}
  /\ sig \in Seq(Values(watch) \cup {"other"}) /\ Len(sig) <= SignalBuffer
  /\ later \in Seq(Values(watch) \cup {"other"}) /\ Len(later) <= MaxLater
  /\ closed \in BOOLEAN
  /\ gpc \in {"none", "initial", "range", "send", "done"}
  /\ watch \in Watched
  /\ status \in Values(watch)
  /\ lost \in BOOLEAN
  /\ late \in BOOLEAN

Init ==
  /\ APIInit
  /\ op = [c \in Callers |-> Idle]
  /\ by = NoCaller
  /\ mpc = "idle"
  /\ sig = <<>>
  /\ later = <<>>
  /\ closed = FALSE
  /\ gpc = "none"
  /\ watch \in Watched
  /\ status = "Unknown"
  /\ lost = FALSE
  /\ late = FALSE

-----------------------------------------------------------------------------
(* The commands.  Query() gets all properties in one call, which fails     *)
(* when the daemon is not there.                                           *)

Goto(c, pc) == op' = [op EXCEPT ![c].pc = pc]
Return(c) == op' = [op EXCEPT ![c] = Idle]

(* Continue at one place when the query shows what is needed, else return. *)
Check(c, from, ok, to) ==
  /\ op[c].pc = from
  /\ IF Up /\ ok THEN Goto(c, to) ELSE Return(c)
  /\ UNCHANGED <<apiVars, by, subVars>>

Active == Cardinality({c \in Callers : op[c] # Idle})
          + IF mpc \in {"idle", "closed"} THEN 0 ELSE 1

Begin(c, cmd) ==
  /\ op[c] = Idle
  /\ Active < MaxActive
  /\ op' = [op EXCEPT ![c].cmd = cmd,
                      ![c].pc = CASE cmd = "connect"    -> "check"
                                  [] cmd = "disconnect" -> "dquery"
                                  [] cmd = "reconnect"  -> "rquery"
                                  [] cmd = "dump"       -> "DumpState"]
  /\ UNCHANGED <<apiVars, by, subVars>>

(* checkStatus of Authenticate() and again of Connect(). *)
StatusOK ==
  /\ props.TrustedNetwork # "Trusted"
  /\ props.ConnectionState # "Connected"
  /\ props.OCRunning # "Running"

CheckStatus(c) == Check(c, "check", StatusOK, "auth") \/ Check(c, "recheck", StatusOK, "Connect")

(* openconnect --authenticate runs, possibly for long. *)
Authenticate(c, ok) ==
  /\ op[c].pc = "auth"
  /\ IF ok THEN Goto(c, "recheck") ELSE Return(c)
  /\ UNCHANGED <<apiVars, by, subVars>>

(* Disconnect() *)
CheckRunning(c) == Check(c, "dquery", props.OCRunning = "Running", "Disconnect")

Call(c) ==
  /\ op[c].pc \in Methods
  /\ MethodCall(c, op[c].pc)
  /\ Goto(c, "reply")
  /\ UNCHANGED <<by, subVars>>

Reply(c) ==
  /\ op[c].pc = "reply"
  /\ MethodReply(c)
  /\ IF op[c].cmd = "reconnect" /\ meth[c] = [name |-> "Disconnect", pc |-> "ok"]
     THEN Goto(c, "poll")
     ELSE Return(c)
  /\ UNCHANGED <<by, subVars>>

(* reconnectVPN: disconnect if openconnect is running, *)
ReconnectQuery(c) ==
  Check(c, "rquery", TRUE, IF props.OCRunning = "Running" THEN "dquery" ELSE "poll")

(* then wait for the end of the connection, a limited number of tries. *)
ReconnectPoll(c) ==
  /\ op[c].pc = "poll"
  /\ IF ~Up THEN Return(c)
     ELSE IF /\ props.TrustedNetwork # "Trusted"
             /\ props.ConnectionState = "Disconnected"
             /\ props.OCRunning # "Running"
     THEN Goto(c, "check")
     ELSE IF op[c].try + 1 >= MaxReconnectTries THEN Return(c)
     ELSE op' = [op EXCEPT ![c].try = @ + 1]
  /\ UNCHANGED <<apiVars, by, subVars>>

CallerStep(c) ==
  \/ CheckStatus(c)
  \/ \E ok \in BOOLEAN : Authenticate(c, ok)
  \/ CheckRunning(c) \/ Call(c) \/ Reply(c) \/ ReconnectQuery(c) \/ ReconnectPoll(c)

-----------------------------------------------------------------------------
(* Subscribe() and Close() of the library. *)

Subscribe ==
  /\ mpc = "idle"
  /\ Active < MaxActive
  /\ mpc' = "query"
  /\ UNCHANGED <<apiVars, op, by, sig, later, closed, gpc, watch, status, lost, late>>

(* The initial status is queried; after an error there is no goroutine,    *)
(* but the client is flagged as subscribed.                                *)
SubscribeQuery ==
  /\ mpc = "query"
  /\ mpc' = IF Up THEN "match" ELSE "failed"
  /\ status' = IF Up THEN props[watch] ELSE status
  /\ lost' = FALSE
  /\ late' = FALSE
  /\ UNCHANGED <<apiVars, op, by, sig, later, closed, gpc, watch>>

(* The bus is asked for the signals. *)
SubscribeMatch(ok) ==
  /\ mpc = "match"
  /\ mpc' = IF ok THEN "signal" ELSE "failed"
  /\ UNCHANGED <<apiVars, op, by, sig, later, closed, gpc, watch, status, lost, late>>

(* The channel is registered and the goroutine started. *)
SubscribeSignal ==
  /\ mpc = "signal"
  /\ mpc' = "on"
  /\ gpc' = "initial"
  /\ UNCHANGED <<apiVars, op, by, sig, later, closed, watch, status, lost, late>>

(* Close(): the connection is closed, which closes the channel; nobody     *)
(* looks at the status any more,                                           *)
CloseConn ==
  /\ mpc \in {"on", "failed"}
  /\ mpc' = "closing"
  /\ closed' = TRUE
  /\ later' = <<>>
  /\ status' = "Unknown"
  /\ lost' = FALSE
  /\ late' = FALSE
  /\ UNCHANGED <<apiVars, op, by, sig, gpc, watch>>

(* then the goroutine is told and waited for if the client is subscribed.  *)
CloseDone ==
  /\ mpc = "closing"
  /\ mpc' = "wait"
  /\ UNCHANGED <<apiVars, op, by, sig, later, closed, gpc, watch, status, lost, late>>

CloseReturn ==
  /\ mpc = "wait"
  /\ gpc = "done"
  /\ mpc' = "closed"
  /\ gpc' = "none"
  /\ sig' = <<>>
  /\ UNCHANGED <<apiVars, op, by, later, closed, watch, status, lost, late>>

-----------------------------------------------------------------------------
(* Signals and updates. *)

(* Properties are independent of each other: of a signal of one that is    *)
(* not followed only its place in the channel matters.                     *)
Signal(n, v) == IF n = watch THEN v ELSE "other"

(* The subscriber's half of SetMust: the signal is delivered, or nobody    *)
(* has asked for it yet.                                                   *)
Deliver(n, v) ==
  IF mpc # "on"
  THEN lost' = (lost \/ mpc \in {"match", "signal"}) /\ UNCHANGED <<sig, later, late>>
  ELSE IF Len(sig) < SignalBuffer
  THEN sig' = Append(sig, Signal(n, v)) /\ UNCHANGED <<later, lost, late>>
  ELSE /\ Len(later) < MaxLater
       /\ later' = Append(later, Signal(n, v))
       /\ late' = TRUE
       /\ UNCHANGED <<sig, lost>>

ServiceSet ==
  /\ \E n \in PropNames : \E v \in Values(n) : SetMust(n, v) /\ Deliver(n, v)
  /\ UNCHANGED <<op, by, mpc, closed, gpc, watch, status>>

(* A waiting signal gets into the channel, not necessarily the oldest. *)
DeliverLater(i) ==
  /\ Len(sig) < SignalBuffer
  /\ sig' = Append(sig, later[i])
  /\ later' = SubSeq(later, 1, i - 1) \o SubSeq(later, i + 1, Len(later))
  /\ UNCHANGED <<apiVars, op, by, mpc, closed, gpc, watch, status, lost, late>>

(* The user receives the initial status or an update. *)
Receive ==
  /\ mpc = "on"
  /\ gpc \in {"initial", "send"}
  /\ gpc' = "range"
  /\ UNCHANGED <<apiVars, op, by, mpc, sig, later, closed, watch, status, lost, late>>

(* handlePropertiesChanged, and the new status is offered to the user. *)
HandlePropertiesChanged ==
  /\ gpc = "range"
  /\ sig # <<>>
  /\ sig' = Tail(sig)
  /\ status' = IF closed \/ Head(sig) = "other" THEN status ELSE Head(sig)
  /\ gpc' = "send"
  /\ UNCHANGED <<apiVars, op, by, mpc, later, closed, watch, lost, late>>

(* A mutated form: only the end of the channel ends the goroutine. *)
UpdatesEndRange ==
  /\ gpc = "range" /\ sig = <<>> /\ closed
  /\ gpc' = "done"
  /\ UNCHANGED <<apiVars, op, by, mpc, sig, later, closed, watch, status, lost, late>>

(* The goroutine returns: done is closed while it offers a status, or the  *)
(* channel is closed and empty.                                            *)
UpdatesEnd ==
  /\ \/ gpc \in {"initial", "send"} /\ mpc = "wait"
     \/ gpc = "range" /\ sig = <<>> /\ closed
  /\ gpc' = "done"
  /\ UNCHANGED <<apiVars, op, by, mpc, sig, later, closed, watch, status, lost, late>>

-----------------------------------------------------------------------------
DaemonStep ==
  /\ ScriptConnect \/ RunnerExit \/ (\E t \in Trusts : TNDResult(t))
     \/ HandlerEnd \/ StartEnd \/ Stop \/ StopEnd \/ SetProperty \/ RecvDone \/ Crash
  /\ UNCHANGED <<op, by, subVars>>

DaemonStart ==
  /\ Start
  /\ by' = NoCaller
  /\ UNCHANGED <<op, subVars>>

DaemonOtherRequest(name) ==
  /\ OtherRequest(name)
  /\ by' = IF name = "Connect" /\ st.OCRunning # "Running" THEN NoCaller ELSE by
  /\ UNCHANGED <<op, subVars>>

DaemonRequest(c) ==
  /\ RecvRequest(c)
  /\ by' = IF meth[c].name = "Connect" /\ st.OCRunning # "Running" THEN c ELSE by
  /\ UNCHANGED <<op, subVars>>

MethodStep(c) ==
  /\ MethodAbort(c) \/ MethodReturn(c)
  /\ UNCHANGED <<op, by, subVars>>

Next ==
  \/ \E c \in Callers, cmd \in Commands : Begin(c, cmd)
  \/ \E c \in Callers : CallerStep(c) \/ DaemonRequest(c) \/ MethodStep(c)
  \/ \E name \in Methods : DaemonOtherRequest(name)
  \/ DaemonStart \/ DaemonStep \/ ServiceSet
  \/ Subscribe \/ SubscribeQuery \/ SubscribeSignal
  \/ \E ok \in BOOLEAN : SubscribeMatch(ok)
  \/ CloseConn \/ CloseDone \/ CloseReturn
  \/ \E i \in DOMAIN later : DeliverLater(i)
  \/ Receive \/ HandlePropertiesChanged \/ UpdatesEnd

Spec == Init /\ [][Next]_vars

(* Goroutines and processes that can run do run; Go's select takes a case  *)
(* that is ready again and again.  Nothing is assumed of users, of the     *)
(* events of the network and of openconnect, of crashes and restarts; a    *)
(* stopped daemon stops.  The user of a subscription reads its updates     *)
(* until he closes the client.                                             *)
Fairness ==
  /\ \A c \in Callers :
       /\ WF_vars(CallerStep(c))
       /\ SF_vars(DaemonRequest(c))
       /\ WF_vars(MethodStep(c))
  /\ WF_vars((HandlerEnd \/ StartEnd \/ StopEnd \/ SetProperty) /\ UNCHANGED <<op, by, subVars>>)
  /\ SF_vars(RecvDone /\ UNCHANGED <<op, by, subVars>>)
  /\ WF_vars(ServiceSet)
  /\ WF_vars(SubscribeQuery)
  /\ WF_vars(\E ok \in BOOLEAN : SubscribeMatch(ok))
  /\ WF_vars(SubscribeSignal)
  /\ WF_vars(CloseDone)
  /\ WF_vars(CloseReturn)
  /\ WF_vars(\E i \in DOMAIN later : DeliverLater(i))
  /\ WF_vars(Receive \/ HandlePropertiesChanged \/ UpdatesEnd)

FairSpec == Spec /\ Fairness

-----------------------------------------------------------------------------
(* Properties *)

Settled ==
  /\ mpc = "on"
  /\ gpc = "range"
  /\ sig = <<>>
  /\ later = <<>>
  /\ spc \in {"select", "down"}

(* When all signals are handled, the status of a subscriber is what the    *)
(* daemon exports, over any number of updates, a crash and a restart, and  *)
(* unknown when the daemon has stopped (setInitialProps of the service,    *)
(* handlePropertiesChanged).  The only exceptions are a signal emitted     *)
(* between the query of the initial status and the registration of the     *)
(* channel, which is lost, and a full channel, where signals overtake each *)
(* other.                                                                  *)
SettledStatusExact ==
  (Settled /\ ~lost /\ ~late) => status = IF spc = "down" THEN "Unknown" ELSE props[watch]

(* A connect request that the daemon is going to ignore without an error   *)
(* was overtaken by that of another client, never by the client's own: the *)
(* status a client checks is not older than the last reply it had          *)
(* (checkStatus, connectVPN).  A daemon that stops refuses the request.    *)
IgnoredOnlyForOthers ==
  \A c \in Callers :
    (~sdone /\ meth[c].name = "Connect" /\ meth[c].pc = "send" /\ st.OCRunning = "Running")
      => by # c

(* Every command comes to its end, whether the daemon runs, stops, crashes *)
(* or is not there: no method waits for a handler that will never run, no  *)
(* reconnect polls forever.                                                *)
CommandReturns == \A c \in Callers : op[c].pc \notin {"idle"} ~> op[c].pc = "idle"

(* Close() returns: a goroutine that offers an update nobody reads, or     *)
(* waits for signals, ends.  The exception is a failed Subscribe(), which  *)
(* leaves the client flagged as subscribed without a goroutine.            *)
CloseReturns == mpc = "closing" ~> (mpc = "closed" \/ (mpc = "wait" /\ gpc = "none"))

=============================================================================
