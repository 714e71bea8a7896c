------------------------------ MODULE DBusAPI ------------------------------
(***************************************************************************)
(* The D-Bus service of the daemon (internal/dbusapi/service.go): the      *)
(* goroutine that owns the exported properties, the goroutines that run    *)
(* the methods clients call, and the main goroutine of the daemon as far   *)
(* as it talks to them, with its status and the order in which it sets     *)
(* properties (internal/daemon/daemon.go).                                 *)
(*                                                                         *)
(* The channels propUps and requests are unbuffered.  The properties of    *)
(* the interface differ in their names and types only; the three that the  *)
(* clients decide by and the VPN configuration, which Start() does not     *)
(* set, stand for all sixteen.                                             *)
(***************************************************************************)
EXTENDS Naturals, Sequences

CONSTANTS
  Callers,   \* clients that call methods
  MaxLives,  \* bound: how often the daemon is started
  Trusts,    \* results of trusted network detection
  NoCaller

ASSUME DBusAPIAssumption ==
  /\ MaxLives \in Nat \ {0}
  /\ Trusts \subseteq {"Trusted", "NotTrusted"}
  /\ NoCaller \notin Callers

VARIABLES
  st,     \* d.status of the main goroutine
  lpc,    \* what the main goroutine does: Start(), select, a handler, Stop()
  todo,   \* the SetProperty calls the handler still has to make
  req,    \* the client whose request is being handled
  props,  \* the exported properties
  spc,    \* what the goroutine of the service does
  left,   \* the properties setInitialProps still has to set
  upd,    \* the update the service is applying
  sdone,  \* the done channel of the service is closed
  meth,   \* the method each client has called, and how far it has come
  lives   \* how often the daemon has been started

apiVars == <<st, lpc, todo, req, props, spc, left, upd, sdone, meth, lives>>

PropOrder == <<"TrustedNetwork", "ConnectionState", "OCRunning", "VPNConfig">>
PropNames == {PropOrder[i] : i \in 1 .. Len(PropOrder)}

Values(n) ==
  CASE n = "TrustedNetwork"  -> {"Unknown", "NotTrusted", "Trusted"}
    [] n = "ConnectionState" -> {"Unknown", "Disconnected", "Connecting", "Connected",
                                 "Disconnecting"}
    [] n = "OCRunning"       -> {"Unknown", "NotRunning", "Running"}
    [] n = "VPNConfig"       -> {"Unknown", "Set"}

Status == [TrustedNetwork  : Values("TrustedNetwork"),
           ConnectionState : Values("ConnectionState"),
           OCRunning       : Values("OCRunning"),
           VPNConfig       : Values("VPNConfig")]

InitialProps == [n \in PropNames |-> "Unknown"]

Update == [name : PropNames, value : UNION {Values(n) : n \in PropNames}]
NoUpdate == [name |-> "none", value |-> "none"]
Prop(n, v) == [name |-> n, value |-> v]

NoMethod == [name |-> "none", pc |-> "none"]
Methods == {"Connect", "Disconnect", "DumpState"}

APITypeOK ==
  /\ st \in Status
  /\ lpc \in {"start", "select", "handle", "stop", "down"}
  /\ todo \in Seq(Update) /\ Len(todo) <= 3
  /\ req \in Callers \cup {NoCaller}
  /\ props \in Status
  /\ spc \in {"init", "select", "set", "final", "down", "crashed"}
  /\ left \in Seq(PropNames) /\ Len(left) <= Len(PropOrder)
  /\ upd \in Update \cup {NoUpdate}
  /\ sdone \in BOOLEAN
  /\ meth \in [Callers -> {NoMethod} \cup
                 [name : Methods, pc : {"send", "wait", "handled", "ok", "error"}]]
  /\ lives \in 0 .. MaxLives

(* Is the name of the daemon owned on the bus? *)
Up == spc \notin {"down", "crashed"}

(* The bus answers for a daemon that left without a reply. *)
NoReply == [c \in Callers |-> IF meth[c].pc \in {"send", "wait", "handled"}
                              THEN [meth[c] EXCEPT !.pc = "error"] ELSE meth[c]]

APIInit ==
  /\ st = InitialProps
  /\ lpc = "down"
  /\ todo = <<>>
  /\ req = NoCaller
  /\ props = InitialProps
  /\ spc = "down"
  /\ left = <<>>
  /\ upd = NoUpdate
  /\ sdone = FALSE
  /\ meth = [c \in Callers |-> NoMethod]
  /\ lives = 0

-----------------------------------------------------------------------------
(* The main goroutine.  A setStatus method compares with the status and    *)
(* calls SetProperty for what changes; handlers call one after the other.  *)

Apply(x, us) == [n \in PropNames |->
  LET hits == {i \in DOMAIN us : us[i].name = n}
  IN  IF hits = {} THEN x[n] ELSE us[CHOOSE i \in hits : \A j \in hits : j <= i].value]

SetStatus(x, n, v) == IF x[n] = v THEN <<>> ELSE <<Prop(n, v)>>

Handle(us, c) ==
  /\ st' = Apply(st, us)
  /\ todo' = us
  /\ lpc' = "handle"
  /\ req' = c

(* A mutated form: the status of openconnect is set last. *)
ConnectUpdatesRunningLast ==
  IF st.OCRunning = "Running" THEN <<>>
  ELSE SetStatus(st, "ConnectionState", "Connecting") \o SetStatus(st, "OCRunning", "Running")

(* connectVPN: a running VPN makes it return, without an error. *)
ConnectUpdates ==
  IF st.OCRunning = "Running" THEN <<>>
  ELSE SetStatus(st, "OCRunning", "Running") \o SetStatus(st, "ConnectionState", "Connecting")

(* disconnectVPN *)
DisconnectUpdates ==
  IF st.OCRunning = "Running" THEN SetStatus(st, "ConnectionState", "Disconnecting") ELSE <<>>

RequestUpdates(name) ==
  CASE name = "Connect"    -> ConnectUpdates
    [] name = "Disconnect" -> DisconnectUpdates
    [] name = "DumpState"  -> <<>>

(* handleDBusRequest *)
RecvRequest(c) ==
  /\ lpc = "select"
  /\ meth[c].pc = "send"
  /\ meth' = [meth EXCEPT ![c].pc = "wait"]
  /\ Handle(RequestUpdates(meth[c].name), c)
  /\ UNCHANGED <<props, spc, left, upd, sdone, lives>>

(* Events of the other components: a script reports the connection         *)
(* (updateVPNConfigUp), the runner the end of openconnect                  *)
(* (handleRunnerDisconnect), the detection a trusted network.              *)
Event(us) ==
  /\ lpc = "select"
  /\ Handle(us, NoCaller)
  /\ UNCHANGED <<props, spc, left, upd, sdone, meth, lives>>

(* A request of a client outside the model, which need not check anything  *)
(* before it calls a method.                                               *)
OtherRequest(name) == Event(RequestUpdates(name))

ScriptConnect ==
  /\ st.OCRunning = "Running"
  /\ st.ConnectionState # "Connected"
  /\ Event(SetStatus(st, "VPNConfig", "Set")
             \o SetStatus(st, "ConnectionState", "Connected"))

RunnerExit ==
  /\ st.OCRunning = "Running"
  /\ Event(SetStatus(st, "OCRunning", "NotRunning")
             \o SetStatus(st, "ConnectionState", "Disconnected")
             \o SetStatus(st, "VPNConfig", "Unknown"))

TNDResult(t) ==
  Event(SetStatus(st, "TrustedNetwork", t)
        \o IF t = "Trusted" THEN DisconnectUpdates ELSE <<>>)

(* A mutated form: the request is not completed. *)
HandlerEndNoClose ==
  /\ lpc = "handle"
  /\ todo = <<>>
  /\ lpc' = "select"
  /\ req' = NoCaller
  /\ UNCHANGED <<st, todo, props, spc, left, upd, sdone, meth, lives>>

(* The handler returns and completes the request. *)
HandlerEnd ==
  /\ lpc = "handle"
  /\ todo = <<>>
  /\ lpc' = "select"
  /\ req' = NoCaller
  /\ meth' = [c \in Callers |-> IF c = req /\ meth[c].pc = "wait"
                                THEN [meth[c] EXCEPT !.pc = "handled"]
                                ELSE meth[c]]
  /\ UNCHANGED <<st, todo, props, spc, left, upd, sdone, lives>>

(* Start() has set the initial status, the main loop runs. *)
StartEnd ==
  /\ lpc = "start"
  /\ todo = <<>>
  /\ lpc' = "select"
  /\ UNCHANGED <<st, todo, req, props, spc, left, upd, sdone, meth, lives>>

(* The daemon stops: dbus.Stop() closes done and waits for the service. *)
Stop ==
  /\ lpc = "select"
  /\ lpc' = "stop"
  /\ sdone' = TRUE
  /\ UNCHANGED <<st, todo, req, props, spc, left, upd, meth, lives>>

StopEnd ==
  /\ lpc = "stop"
  /\ spc = "down"
  /\ lpc' = "down"
  /\ st' = InitialProps
  /\ UNCHANGED <<todo, req, props, spc, left, upd, sdone, meth, lives>>

-----------------------------------------------------------------------------
(* The goroutine of the service. *)

(* SetProperty meets the select of the service. *)
SetProperty ==
  /\ lpc \in {"start", "handle"}
  /\ todo # <<>>
  /\ spc = "select"
  /\ upd' = Head(todo)
  /\ todo' = Tail(todo)
  /\ spc' = "set"
  /\ UNCHANGED <<st, lpc, req, props, left, sdone, meth, lives>>

(* SetMust sets a property; the signal it emits is the clients' half.      *)
(* setInitialProps is run at the start and before the end, after which the *)
(* connection to the bus is closed.                                        *)
SetInitial(n, v) ==
  /\ spc \in {"init", "final"}
  /\ n = Head(left)
  /\ v = "Unknown"
  /\ props' = [props EXCEPT ![n] = v]
  /\ left' = Tail(left)
  /\ spc' = IF Len(left) > 1 THEN spc ELSE IF spc = "init" THEN "select" ELSE "down"
  /\ meth' = IF spc' = "down" THEN NoReply ELSE meth
  /\ UNCHANGED <<st, lpc, todo, req, upd, sdone, lives>>

SetUpdate(n, v) ==
  /\ spc = "set"
  /\ upd = Prop(n, v)
  /\ props' = [props EXCEPT ![n] = v]
  /\ upd' = NoUpdate
  /\ spc' = "select"
  /\ UNCHANGED <<st, lpc, todo, req, left, sdone, meth, lives>>

SetMust(n, v) == SetInitial(n, v) \/ SetUpdate(n, v)

(* A mutated form: the service ends without resetting the properties. *)
RecvDoneSilent ==
  /\ spc = "select"
  /\ sdone
  /\ spc' = "down"
  /\ meth' = NoReply
  /\ UNCHANGED <<st, lpc, todo, req, props, left, upd, sdone, lives>>

RecvDone ==
  /\ spc = "select"
  /\ sdone
  /\ spc' = "final"
  /\ left' = PropOrder
  /\ UNCHANGED <<st, lpc, todo, req, props, upd, sdone, meth, lives>>

-----------------------------------------------------------------------------
(* The life of the process. *)

(* Start(): the service exports its properties and is started, then the    *)
(* initial status is set.                                                  *)
Start ==
  LET us == SetStatus(InitialProps, "TrustedNetwork", "NotTrusted")
            \o SetStatus(InitialProps, "ConnectionState", "Disconnected")
            \o SetStatus(InitialProps, "OCRunning", "NotRunning")
  IN  /\ lpc = "down"
      /\ lives < MaxLives
      /\ lives' = lives + 1
      /\ st' = Apply(InitialProps, us)
      /\ lpc' = "start"
      /\ todo' = us
      /\ props' = InitialProps
      /\ spc' = "init"
      /\ left' = PropOrder
      /\ sdone' = FALSE
      /\ UNCHANGED <<req, upd, meth>>

(* The process dies. *)
Crash ==
  /\ lpc # "down"
  /\ lpc' = "down"
  /\ spc' = "crashed"
  /\ st' = InitialProps
  /\ todo' = <<>>
  /\ req' = NoCaller
  /\ left' = <<>>
  /\ upd' = NoUpdate
  /\ sdone' = FALSE
  /\ meth' = NoReply
  /\ UNCHANGED <<props, lives>>

-----------------------------------------------------------------------------
(* A method: its goroutine sends the request and waits for its completion, *)
(* and gives up when the service is stopped.                               *)
MethodCall(c, name) ==
  /\ meth' = [meth EXCEPT ![c] = [name |-> name, pc |-> IF Up THEN "send" ELSE "error"]]
  /\ UNCHANGED <<st, lpc, todo, req, props, spc, left, upd, sdone, lives>>

MethodAbort(c) ==
  /\ meth[c].pc \in {"send", "wait", "handled"}
  /\ sdone
  /\ meth' = [meth EXCEPT ![c].pc = "error"]
  /\ UNCHANGED <<st, lpc, todo, req, props, spc, left, upd, sdone, lives>>

MethodReturn(c) ==
  /\ meth[c].pc = "handled"
  /\ meth' = [meth EXCEPT ![c].pc = "ok"]
  /\ UNCHANGED <<st, lpc, todo, req, props, spc, left, upd, sdone, lives>>

(* The caller has the reply. *)
MethodReply(c) ==
  /\ meth[c].pc \in {"ok", "error"}
  /\ meth' = [meth EXCEPT ![c] = NoMethod]
  /\ UNCHANGED <<st, lpc, todo, req, props, spc, left, upd, sdone, lives>>

=============================================================================
