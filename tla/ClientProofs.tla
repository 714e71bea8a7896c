---------------------------- MODULE ClientProofs ----------------------------
(***************************************************************************)
(* Proofs about the D-Bus service and its clients, for any number of       *)
(* clients, any followed property, any size of the channel of signals and  *)
(* any number of restarts of the daemon: the status of a subscriber is     *)
(* exact when all signals are handled, and a connect request is never      *)
(* ignored because of an earlier one of the same client.                   *)
(***************************************************************************)
EXTENDS Client, TLAPS

Vals == UNION {Values(n) : n \in PropNames}

(* Where the main goroutine and the goroutine of the service can be at the *)
(* same time.  The initial status is still to be set when the service runs *)
(* setInitialProps for the first time.                                     *)
Places ==
  /\ lpc \in {"start", "select", "handle", "stop", "down"}
  /\ lpc = "start" => spc \in {"init", "select", "set"}
  /\ lpc \in {"select", "handle"} => spc \in {"select", "set"}
  /\ lpc = "stop" => spc \in {"select", "set", "final", "down"} /\ sdone
  /\ lpc = "down" => spc \in {"down", "crashed"}
  /\ spc = "init" => todo # <<>>
  /\ sdone => lpc \in {"stop", "down"}

(* What is exported, and what setInitialProps has left to do. *)
Properties ==
  /\ todo \in Seq(Update)
  /\ spc = "set" => upd \in Update
  /\ props \in [PropNames -> Vals]
  /\ left \in Seq(PropNames)
  /\ spc \in {"init", "final"} => left # <<>>
  /\ spc = "final" => \A n \in PropNames : \/ props[n] = "Unknown"
                                           \/ \E i \in 1 .. Len(left) : left[i] = n
  /\ spc = "down" => \A n \in PropNames : props[n] = "Unknown"

MethodStates ==
  {NoMethod} \cup [name : Methods, pc : {"send", "wait", "handled", "ok", "error"}]

CommandPlaces ==
  {"idle", "check", "auth", "recheck", "Connect", "dquery", "Disconnect", "rquery", "poll",
   "DumpState", "reply"}

CommandStates == [cmd : Commands \cup {"none"}, pc : CommandPlaces, try : Nat]

(* A client that has called a method waits for its reply. *)
Called ==
  /\ meth \in [Callers -> MethodStates]
  /\ op \in [Callers -> CommandStates]
  /\ \A c \in Callers : meth[c] # NoMethod => op[c].pc = "reply"

APIInv == Places /\ Properties /\ Called

-----------------------------------------------------------------------------
(* The subscription. *)

(* What is left of the status when all signals in the channel are handled. *)
Agrees(v) ==
  \/ \E i \in 1 .. Len(sig) :
       sig[i] = v /\ \A j \in 1 .. Len(sig) : j > i => sig[j] = "other"
  \/ status = v /\ \A j \in 1 .. Len(sig) : sig[j] = "other"

Channel ==
  /\ watch \in PropNames
  /\ closed => mpc \in {"closing", "wait", "closed"}
  /\ mpc \in {"idle", "query", "match", "signal"} => sig = <<>> /\ later = <<>>
  /\ mpc = "on" /\ ~late => sig \in Seq(Vals \cup {"other"}) /\ later = <<>>

(* The status will be that of the service, unless the daemon crashed and   *)
(* the new one has not come to the property in setInitialProps yet.        *)
Follows ==
  mpc \in {"match", "signal", "on"} /\ ~lost /\ ~late =>
    \/ spc = "crashed"
    \/ spc = "init" /\ \E i \in 1 .. Len(left) : left[i] = watch
    \/ Agrees(props[watch])

SubscriberInv == APIInv /\ Channel /\ Follows

-----------------------------------------------------------------------------
(* Connect requests. *)

(* The service exports that openconnect is running, and nothing else is on *)
(* its way to it, ...                                                      *)
Exported ==
  /\ props.OCRunning = "Running"
  /\ spc = "set" => upd.name # "OCRunning"
  /\ \A i \in 1 .. Len(todo) : todo[i].name # "OCRunning"

(* ... or the handler of the connect request is still at work. *)
Exporting ==
  /\ lpc = "handle"
  /\ req = by
  /\ \/ /\ todo # <<>>
        /\ spc = "set" /\ upd = Prop("OCRunning", "Running")
        /\ \A i \in 1 .. Len(todo) : todo[i].name # "OCRunning"
     \/ /\ Len(todo) = 2
        /\ todo[1] = Prop("OCRunning", "Running")
        /\ todo[2].name # "OCRunning"

Running ==
  /\ DOMAIN st = PropNames
  /\ lpc \in {"start", "down"} => st.OCRunning # "Running"
  /\ st.OCRunning # "Running" => st.ConnectionState # "Connecting"
  /\ st.OCRunning = "Running" /\ ~sdone => Exported \/ Exporting

(* The client whose request started openconnect is not about to connect    *)
(* again, and does not have the reply before the status is exported.       *)
NotAgain ==
  st.OCRunning = "Running" /\ ~sdone =>
    \A c \in Callers : by = c => /\ op[c].pc # "Connect"
                                 /\ meth[c].pc # "send" \/ meth[c].name # "Connect"
                                 /\ Exported \/ meth[c].pc = "wait"

ConnectInv == APIInv /\ Running /\ NotAgain

-----------------------------------------------------------------------------
(* Names and values of properties. *)

(* The properties of the interface and their order, and their values: a    *)
(* value is never taken for the signal of another property.                *)
LEMMA PropFacts ==
  /\ PropNames = {"TrustedNetwork", "ConnectionState", "OCRunning", "VPNConfig"}
  /\ PropOrder \in Seq(PropNames) /\ PropOrder # <<>>
  /\ \A n \in PropNames : \E i \in 1 .. Len(PropOrder) : PropOrder[i] = n
  /\ "other" \notin Vals /\ "Unknown" \in Vals
  /\ Update = [name : PropNames, value : Vals]
  <1>1. Len(PropOrder) = 4 /\ PropOrder[1] = "TrustedNetwork" /\ PropOrder[2] = "ConnectionState"
        /\ PropOrder[3] = "OCRunning" /\ PropOrder[4] = "VPNConfig"
    BY DEF PropOrder
  <1>2. PropNames = {"TrustedNetwork", "ConnectionState", "OCRunning", "VPNConfig"}
    BY <1>1 DEF PropNames
  <1>3. PropOrder \in Seq(PropNames) /\ PropOrder # <<>>
    BY <1>2 DEF PropOrder
  <1>4. \A n \in PropNames : \E i \in 1 .. Len(PropOrder) : PropOrder[i] = n
    BY <1>1, <1>2
  <1>5. /\ Values("TrustedNetwork") = {"Unknown", "NotTrusted", "Trusted"}
        /\ Values("ConnectionState") = {"Unknown", "Disconnected", "Connecting", "Connected",
                                        "Disconnecting"}
        /\ Values("OCRunning") = {"Unknown", "NotRunning", "Running"}
        /\ Values("VPNConfig") = {"Unknown", "Set"}
    BY DEF Values
  <1>6. "other" \notin Vals /\ "Unknown" \in Vals
    BY <1>2, <1>5 DEF Vals
  <1>7. QED
    BY <1>2, <1>3, <1>4, <1>6 DEF Update, Vals

(* The values the handlers set. *)
LEMMA ValueFacts ==
  {"NotTrusted", "Trusted", "Disconnected", "Connecting", "Connected", "Disconnecting",
   "NotRunning", "Running", "Set"} \subseteq Vals
  <1>1. /\ {"NotTrusted", "Trusted"} \subseteq Values("TrustedNetwork")
        /\ {"Disconnected", "Connecting", "Connected", "Disconnecting"}
             \subseteq Values("ConnectionState")
        /\ {"NotRunning", "Running"} \subseteq Values("OCRunning")
        /\ {"Set"} \subseteq Values("VPNConfig")
    BY DEF Values
  <1>2. QED
    BY <1>1, PropFacts DEF Vals

(* One call of a setStatus method makes at most one update. *)
LEMMA SetStatusTyped ==
  ASSUME NEW x, NEW n \in PropNames, NEW v \in Vals
  PROVE  SetStatus(x, n, v) \in Seq(Update)
  <1>1. Prop(n, v) \in Update
    BY PropFacts DEF Prop
  <1>2. QED
    BY <1>1 DEF SetStatus

(* The updates of all handlers are updates of properties. *)
LEMMA UpdatesTyped ==
  /\ ConnectUpdates \in Seq(Update) /\ DisconnectUpdates \in Seq(Update)
  /\ \A name \in Methods : RequestUpdates(name) \in Seq(Update)
  <1>1. SetStatus(st, "OCRunning", "Running") \in Seq(Update)
    BY SetStatusTyped, PropFacts, ValueFacts
  <1>2. SetStatus(st, "ConnectionState", "Connecting") \in Seq(Update)
    BY SetStatusTyped, PropFacts, ValueFacts
  <1>3. SetStatus(st, "ConnectionState", "Disconnecting") \in Seq(Update)
    BY SetStatusTyped, PropFacts, ValueFacts
  <1>4. ConnectUpdates \in Seq(Update) /\ DisconnectUpdates \in Seq(Update)
    BY <1>1, <1>2, <1>3 DEF ConnectUpdates, DisconnectUpdates
  <1>5. QED
    BY <1>4 DEF RequestUpdates, Methods

-----------------------------------------------------------------------------
(* Goroutines and properties. *)

(* A handler of the main goroutine begins. *)
HandlerBegins ==
  /\ lpc = "select" /\ lpc' = "handle" /\ todo' \in Seq(Update)
  /\ UNCHANGED <<props, spc, left, upd, sdone>>

(* Requests and events begin a handler. *)
LEMMA HandlersBegin ==
  ASSUME \/ \E c \in Callers : DaemonRequest(c) /\ meth[c].name \in Methods
         \/ \E name \in Methods : DaemonOtherRequest(name)
         \/ ScriptConnect \/ RunnerExit \/ \E t \in Trusts : TNDResult(t)
  PROVE  HandlerBegins
  <1>1. CASE \E c \in Callers : DaemonRequest(c) /\ meth[c].name \in Methods
    BY <1>1, UpdatesTyped DEF DaemonRequest, RecvRequest, Handle, HandlerBegins
  <1>2. CASE \E name \in Methods : DaemonOtherRequest(name)
    BY <1>2, UpdatesTyped DEF DaemonOtherRequest, OtherRequest, Event, Handle, HandlerBegins
  <1>3. CASE ScriptConnect
    <2> DEFINE u1 == SetStatus(st, "VPNConfig", "Set")
               u2 == SetStatus(st, "ConnectionState", "Connected")
    <2>1. u1 \in Seq(Update) /\ u2 \in Seq(Update)
      BY SetStatusTyped, PropFacts, ValueFacts
    <2>2. lpc = "select" /\ lpc' = "handle" /\ todo' = u1 \o u2
          /\ UNCHANGED <<props, spc, left, upd, sdone>>
      BY <1>3 DEF ScriptConnect, Event, Handle
    <2> HIDE DEF u1, u2
    <2>3. QED
      BY <2>1, <2>2 DEF HandlerBegins
  <1>4. CASE RunnerExit
    <2> DEFINE u1 == SetStatus(st, "OCRunning", "NotRunning")
               u2 == SetStatus(st, "ConnectionState", "Disconnected")
               u3 == SetStatus(st, "VPNConfig", "Unknown")
    <2>1. u1 \in Seq(Update) /\ u2 \in Seq(Update) /\ u3 \in Seq(Update)
      BY SetStatusTyped, PropFacts, ValueFacts
    <2>2. lpc = "select" /\ lpc' = "handle" /\ todo' = u1 \o u2 \o u3
          /\ UNCHANGED <<props, spc, left, upd, sdone>>
      BY <1>4 DEF RunnerExit, Event, Handle
    <2> HIDE DEF u1, u2, u3
    <2>3. QED
      BY <2>1, <2>2 DEF HandlerBegins
  <1>5. CASE \E t \in Trusts : TNDResult(t)
    <2>1. PICK t \in Trusts : TNDResult(t)
      BY <1>5
    <2> DEFINE u1 == SetStatus(st, "TrustedNetwork", t)
               u2 == IF t = "Trusted" THEN DisconnectUpdates ELSE <<>>
    <2>2. u1 \in Seq(Update) /\ u2 \in Seq(Update)
      <3>1. t \in Vals
        BY DBusAPIAssumption, ValueFacts
      <3>2. u1 \in Seq(Update)
        BY <3>1, SetStatusTyped, PropFacts
      <3>3. u2 \in Seq(Update)
        BY UpdatesTyped
      <3>4. QED
        BY <3>2, <3>3
    <2>3. lpc = "select" /\ lpc' = "handle" /\ todo' = u1 \o u2
          /\ UNCHANGED <<props, spc, left, upd, sdone>>
      BY <2>1 DEF TNDResult, Event, Handle
    <2> HIDE DEF u1, u2
    <2>4. QED
      BY <2>2, <2>3 DEF HandlerBegins
  <1>6. QED
    BY <1>1, <1>2, <1>3, <1>4, <1>5

(* Where the goroutines are and what they export, after any step. *)
LEMMA PlacesNext ==
  ASSUME APIInv, [Next]_vars
  PROVE  Places' /\ Properties'
  <1> USE DEF APIInv
  <1>1. CASE HandlerBegins
    BY <1>1 DEF HandlerBegins, Places, Properties
  <1>2. CASE UNCHANGED <<lpc, spc, todo, props, left, upd, sdone>>
    BY <1>2 DEF Places, Properties
  <1>3. CASE HandlerEnd \/ StartEnd \/ Stop \/ StopEnd
    BY <1>3 DEF HandlerEnd, StartEnd, Stop, StopEnd, Places, Properties
  <1>4. CASE SetProperty
    <2>1. Head(todo) \in Update /\ Tail(todo) \in Seq(Update)
      BY <1>4 DEF SetProperty, Properties
    <2>2. QED
      BY <1>4, <2>1 DEF SetProperty, Places, Properties
  <1>5. CASE RecvDone
    <2>1. Places'
      BY <1>5 DEF RecvDone, Places
    <2>2. Properties'
      BY <1>5, PropFacts DEF RecvDone, Properties
    <2>3. QED
      BY <2>1, <2>2
  <1>6. CASE Crash
    BY <1>6 DEF Crash, Places, Properties
  <1>7. CASE DaemonStart
    <2> DEFINE u1 == SetStatus(InitialProps, "TrustedNetwork", "NotTrusted")
               u2 == SetStatus(InitialProps, "ConnectionState", "Disconnected")
               u3 == SetStatus(InitialProps, "OCRunning", "NotRunning")
    <2>1. u1 \in Seq(Update) /\ u2 \in Seq(Update) /\ u3 \in Seq(Update)
      BY SetStatusTyped, PropFacts, ValueFacts
    <2>2. u1 # <<>>
      BY PropFacts DEF SetStatus, InitialProps
    <2>3. /\ lpc' = "start" /\ todo' = u1 \o u2 \o u3 /\ props' = InitialProps /\ spc' = "init"
          /\ left' = PropOrder /\ sdone' = FALSE /\ upd' = upd
      BY <1>7 DEF DaemonStart, Start
    <2> HIDE DEF u1, u2, u3
    <2>4. todo' \in Seq(Update) /\ todo' # <<>>
      BY <2>1, <2>2, <2>3
    <2>5. props' \in [PropNames -> Vals]
      BY <2>3, PropFacts DEF InitialProps
    <2>6. QED
      BY <2>3, <2>4, <2>5, PropFacts DEF Places, Properties
  <1>8. CASE ServiceSet
    <2>1. PICK n \in PropNames : \E v \in Values(n) : SetInitial(n, v) \/ SetUpdate(n, v)
      BY <1>8 DEF ServiceSet, SetMust
    <2> PICK v \in Values(n) : SetInitial(n, v) \/ SetUpdate(n, v)
      BY <2>1
    <2>2. v \in Vals
      BY DEF Vals
    <2>3. CASE SetInitial(n, v)
      <3>1. /\ spc \in {"init", "final"} /\ n = Head(left) /\ v = "Unknown"
            /\ props' = [props EXCEPT ![n] = v] /\ left' = Tail(left)
            /\ spc' = IF Len(left) > 1 THEN spc ELSE IF spc = "init" THEN "select" ELSE "down"
            /\ UNCHANGED <<lpc, todo, upd, sdone>>
        BY <2>3 DEF SetInitial
      <3>2. /\ left \in Seq(PropNames) /\ left # <<>> /\ left' \in Seq(PropNames)
            /\ Len(left') = Len(left) - 1 /\ \A i \in 1 .. Len(left') : left'[i] = left[i + 1]
        BY <3>1 DEF Properties
      <3>3. props' \in [PropNames -> Vals] /\ props'[n] = "Unknown"
            /\ \A k \in PropNames : k # n => props'[k] = props[k]
        BY <2>2, <3>1 DEF Properties
      <3>4. spc = "final" => \A k \in PropNames : \/ props'[k] = "Unknown"
                                                  \/ \E i \in 1 .. Len(left') : left'[i] = k
        <4> SUFFICES ASSUME spc = "final", NEW k \in PropNames, props'[k] # "Unknown"
                     PROVE  \E i \in 1 .. Len(left') : left'[i] = k
          OBVIOUS
        <4>1. PICK i \in 1 .. Len(left) : left[i] = k
          BY <3>3 DEF Properties
        <4>2. i # 1
          BY <3>1, <3>2, <3>3, <4>1
        <4>3. i - 1 \in 1 .. Len(left') /\ left'[i - 1] = k
          BY <3>2, <4>1, <4>2
        <4>4. QED
          BY <4>3
      <3>5. spc' = "down" => Len(left') = 0 /\ spc = "final"
        BY <3>1, <3>2 DEF Places
      <3>6. spc' \in {"init", "final"} => left' # <<>>
        <4>1. spc' \in {"init", "final"} => Len(left) > 1
          BY <3>1
        <4>2. Len(left) > 1 => Len(left') # 0
          BY <3>2
        <4>3. QED
          BY <4>1, <4>2
      <3>7. Places'
        BY <3>1 DEF Places
      <3>8. Properties'
        <4>1. spc' = "down" => \A k \in PropNames : props'[k] = "Unknown"
          BY <3>4, <3>5
        <4>2. spc' = "final" => spc = "final"
          BY <3>1
        <4>3. todo' \in Seq(Update) /\ spc' # "set"
          BY <3>1 DEF Properties
        <4>4. QED
          BY <3>2, <3>3, <3>4, <3>6, <4>1, <4>2, <4>3 DEF Properties
      <3>9. QED
        BY <3>7, <3>8
    <2>4. CASE SetUpdate(n, v)
      <3>1. /\ spc = "set" /\ props' = [props EXCEPT ![n] = v] /\ spc' = "select"
            /\ UNCHANGED <<lpc, todo, left, sdone>>
        BY <2>4 DEF SetUpdate
      <3>2. QED
        BY <2>2, <3>1 DEF Places, Properties
    <2>5. QED
      BY <2>1, <2>3, <2>4
  <1>9. QED
    <2>1. CASE \E c \in Callers : DaemonRequest(c)
      <3>1. PICK c \in Callers : DaemonRequest(c)
        BY <2>1
      <3>2. meth[c].name \in Methods
        BY <3>1 DEF DaemonRequest, RecvRequest, Called, MethodStates, NoMethod
      <3>3. QED
        BY <1>1, <3>1, <3>2, HandlersBegin
    <2>2. CASE DaemonStep
      BY <1>1, <1>3, <1>4, <1>5, <1>6, <2>2, HandlersBegin DEF DaemonStep
    <2>3. CASE \E name \in Methods : DaemonOtherRequest(name)
      BY <1>1, <2>3, HandlersBegin
    <2>4. CASE \E c \in Callers : CallerStep(c) \/ MethodStep(c)
      BY <1>2, <2>4
      DEF CallerStep, CheckStatus, Authenticate, CheckRunning, Call, Reply, ReconnectQuery,
          ReconnectPoll, Check, MethodCall, MethodReply, MethodStep, MethodAbort, MethodReturn,
          apiVars
    <2>5. CASE \/ \E c \in Callers, cmd \in Commands : Begin(c, cmd)
               \/ Subscribe \/ SubscribeQuery \/ SubscribeSignal
               \/ \E ok \in BOOLEAN : SubscribeMatch(ok)
               \/ CloseConn \/ CloseDone \/ CloseReturn
               \/ \E i \in DOMAIN later : DeliverLater(i)
               \/ Receive \/ HandlePropertiesChanged \/ UpdatesEnd \/ UNCHANGED vars
      BY <1>2, <2>5
      DEF Begin, Subscribe, SubscribeQuery, SubscribeSignal, SubscribeMatch, CloseConn, CloseDone,
          CloseReturn, DeliverLater, Receive, HandlePropertiesChanged, UpdatesEnd, vars, apiVars
    <2>6. QED
      BY <1>7, <1>8, <2>1, <2>2, <2>3, <2>4, <2>5 DEF Next

-----------------------------------------------------------------------------
(* Commands and methods. *)

(* A step of the command of one client. *)
CommandMoves(c) ==
  /\ op' \in [Callers -> CommandStates]
  /\ \A q \in Callers : q # c => op'[q] = op[q]

(* A command goes to another place, or returns. *)
LEMMA GotoMoves ==
  ASSUME Called, NEW c \in Callers
  PROVE  /\ \A pc \in CommandPlaces : Goto(c, pc) => CommandMoves(c) /\ op'[c].pc = pc
         /\ Return(c) => CommandMoves(c) /\ op'[c].pc = "idle"
  <1>1. op \in [Callers -> CommandStates] /\ op[c] \in CommandStates
    BY DEF Called
  <1>2. Idle \in CommandStates /\ Idle.pc = "idle"
    BY DEF Idle, CommandStates, CommandPlaces
  <1>3. ASSUME NEW pc \in CommandPlaces, Goto(c, pc) PROVE CommandMoves(c) /\ op'[c].pc = pc
    <2>1. op' = [op EXCEPT ![c] = [op[c] EXCEPT !.pc = pc]]
      BY <1>1, <1>3 DEF Goto
    <2>2. [op[c] EXCEPT !.pc = pc] \in CommandStates /\ [op[c] EXCEPT !.pc = pc].pc = pc
      BY <1>1 DEF CommandStates
    <2>3. QED
      BY <1>1, <2>1, <2>2 DEF CommandMoves
  <1>4. ASSUME Return(c) PROVE CommandMoves(c) /\ op'[c].pc = "idle"
    BY <1>1, <1>2, <1>4 DEF Return, CommandMoves
  <1>5. QED
    BY <1>3, <1>4

(* A command goes on without calling a method: only a client whose status  *)
(* check shows no running VPN gets to the connect request.                 *)
LEMMA CommandContinues ==
  ASSUME Called, NEW c \in Callers,
         \/ CheckStatus(c) \/ \E ok \in BOOLEAN : Authenticate(c, ok)
         \/ CheckRunning(c) \/ ReconnectQuery(c) \/ ReconnectPoll(c)
         \/ \E cmd \in Commands : Begin(c, cmd)
  PROVE  /\ CommandMoves(c) /\ op[c].pc # "reply" /\ UNCHANGED <<apiVars, by>>
         /\ op'[c].pc = "Connect" => op[c].pc = "Connect" \/ props.OCRunning # "Running"
  <1> USE DEF CommandPlaces
  <1>0. op[c] \in CommandStates
    BY DEF Called
  <1>1. ASSUME NEW from \in CommandPlaces, NEW ok, NEW to \in CommandPlaces, Check(c, from, ok, to)
        PROVE  /\ CommandMoves(c) /\ op[c].pc = from /\ UNCHANGED <<apiVars, by>>
               /\ op'[c].pc = "idle" \/ (ok /\ op'[c].pc = to)
    BY <1>1, GotoMoves DEF Check
  <1>2. CASE CheckStatus(c)
    <2>1. CASE Check(c, "check", StatusOK, "auth")
      BY <1>1, <2>1
    <2>2. CASE Check(c, "recheck", StatusOK, "Connect")
      <3>1. StatusOK => props.OCRunning # "Running"
        BY DEF StatusOK
      <3>2. QED
        BY <1>1, <2>2, <3>1
    <2>3. QED
      BY <1>2, <2>1, <2>2 DEF CheckStatus
  <1>3. CASE \E ok \in BOOLEAN : Authenticate(c, ok)
    BY <1>3, GotoMoves DEF Authenticate
  <1>4. CASE CheckRunning(c)
    BY <1>1, <1>4 DEF CheckRunning
  <1>5. CASE ReconnectQuery(c)
    <2> DEFINE to == IF props.OCRunning = "Running" THEN "dquery" ELSE "poll"
    <2>1. to \in {"dquery", "poll"} /\ Check(c, "rquery", TRUE, to)
      BY <1>5 DEF ReconnectQuery
    <2> HIDE DEF to
    <2>2. QED
      BY <1>1, <2>1
  <1>6. CASE ReconnectPoll(c)
    <2>1. op[c].pc = "poll" /\ UNCHANGED <<apiVars, by>>
      BY <1>6 DEF ReconnectPoll
    <2>2. CASE Return(c) \/ Goto(c, "check")
      BY <2>1, <2>2, GotoMoves
    <2>3. CASE op' = [op EXCEPT ![c].try = @ + 1]
      <3>1. op' = [op EXCEPT ![c] = [op[c] EXCEPT !.try = op[c].try + 1]]
        BY <2>3 DEF Called
      <3>2. /\ [op[c] EXCEPT !.try = op[c].try + 1] \in CommandStates
            /\ [op[c] EXCEPT !.try = op[c].try + 1].pc = op[c].pc
        BY <1>0 DEF CommandStates
      <3>3. CommandMoves(c) /\ op'[c].pc = op[c].pc
        BY <3>1, <3>2 DEF Called, CommandMoves
      <3>4. QED
        BY <2>1, <3>3
    <2>4. QED
      BY <1>6, <2>2, <2>3 DEF ReconnectPoll
  <1>7. CASE \E cmd \in Commands : Begin(c, cmd)
    <2>1. PICK cmd \in Commands : Begin(c, cmd)
      BY <1>7
    <2> DEFINE to == CASE cmd = "connect"    -> "check"
                       [] cmd = "disconnect" -> "dquery"
                       [] cmd = "reconnect"  -> "rquery"
                       [] cmd = "dump"       -> "DumpState"
    <2>2. to \in {"check", "dquery", "rquery", "DumpState"}
      BY ClientAssumption
    <2>3. op[c] = Idle /\ op' = [op EXCEPT ![c].cmd = cmd, ![c].pc = to] /\ UNCHANGED <<apiVars, by>>
      BY <2>1 DEF Begin
    <2> HIDE DEF to
    <2> DEFINE x == [op[c] EXCEPT !.cmd = cmd]
               y == [x EXCEPT !.pc = to]
               o == [op EXCEPT ![c] = x]
    <2>4. op' = [o EXCEPT ![c] = [o[c] EXCEPT !.pc = to]] /\ o[c] = x
      BY <2>3 DEF Called
    <2>5. y \in CommandStates /\ y.pc = to
      BY <1>0, <2>2 DEF CommandStates
    <2> HIDE DEF x, y
    <2>6. op' \in [Callers -> CommandStates] /\ op'[c] = y /\ \A q \in Callers : q # c => op'[q] = op[q]
      BY <2>4, <2>5 DEF Called, y
    <2>7. QED
      BY <2>2, <2>3, <2>5, <2>6 DEF CommandMoves, Idle
  <1>8. QED
    BY <1>2, <1>3, <1>4, <1>5, <1>6, <1>7

(* The methods that are called go on, and no other. *)
MethodsMove ==
  /\ meth' \in [Callers -> MethodStates]
  /\ \A c \in Callers : meth'[c] # NoMethod => meth[c] # NoMethod

(* A method changes its place. *)
LEMMA MethodPlace ==
  ASSUME Called, NEW c \in Callers, meth[c] # NoMethod,
         NEW pc \in {"send", "wait", "handled", "ok", "error"}
  PROVE  /\ [meth[c] EXCEPT !.pc = pc] \in MethodStates
         /\ [meth[c] EXCEPT !.pc = pc].pc = pc
         /\ [meth[c] EXCEPT !.pc = pc].name = meth[c].name
  BY DEF Called, MethodStates

(* Goroutines of the service and of methods. *)
LEMMA MethodsMoveSteps ==
  ASSUME Called
  PROVE  /\ meth' = meth => MethodsMove
         /\ meth' = NoReply => MethodsMove
         /\ \A c \in Callers : \A pc \in {"send", "wait", "handled", "ok", "error"} :
              meth[c].pc # "none" /\ meth' = [meth EXCEPT ![c].pc = pc] =>
                /\ MethodsMove /\ meth'[c].pc = pc
                /\ \A q \in Callers : q # c => meth'[q] = meth[q]
         /\ HandlerEnd => MethodsMove
  <1>0. meth \in [Callers -> MethodStates]
    BY DEF Called
  <1>1. meth' = meth => MethodsMove
    BY <1>0 DEF MethodsMove
  <1>2. ASSUME meth' = NoReply PROVE MethodsMove
    <2>1. ASSUME NEW c \in Callers
          PROVE  meth'[c] \in MethodStates /\ (meth'[c] # NoMethod => meth[c] # NoMethod)
      <3>1. CASE meth[c].pc \in {"send", "wait", "handled"}
        <4>1. meth'[c] = [meth[c] EXCEPT !.pc = "error"]
          BY <1>2, <3>1 DEF NoReply
        <4>2. meth[c] # NoMethod
          BY <3>1 DEF NoMethod
        <4>3. QED
          BY <4>1, <4>2, MethodPlace
      <3>2. CASE meth[c].pc \notin {"send", "wait", "handled"}
        BY <1>0, <1>2, <3>2 DEF NoReply
      <3>3. QED
        BY <3>1, <3>2
    <2>2. DOMAIN (meth') = Callers /\ meth' = [c \in Callers |-> meth'[c]]
      BY <1>2 DEF NoReply
    <2>3. QED
      BY <2>1, <2>2 DEF MethodsMove
  <1>3. ASSUME NEW c \in Callers, NEW pc \in {"send", "wait", "handled", "ok", "error"},
               meth[c].pc # "none", meth' = [meth EXCEPT ![c].pc = pc]
        PROVE  /\ MethodsMove /\ meth'[c].pc = pc
               /\ \A q \in Callers : q # c => meth'[q] = meth[q]
    <2>1. meth[c] # NoMethod
      BY <1>3 DEF NoMethod
    <2>2. meth' = [meth EXCEPT ![c] = [meth[c] EXCEPT !.pc = pc]]
      BY <1>0, <1>3
    <2>3. QED
      BY <1>0, <2>1, <2>2, MethodPlace DEF MethodsMove
  <1>4. ASSUME HandlerEnd PROVE MethodsMove
    <2>1. ASSUME NEW c \in Callers
          PROVE  meth'[c] \in MethodStates /\ (meth'[c] # NoMethod => meth[c] # NoMethod)
      <3>1. CASE c = req /\ meth[c].pc = "wait"
        <4>1. meth'[c] = [meth[c] EXCEPT !.pc = "handled"]
          BY <1>4, <3>1 DEF HandlerEnd
        <4>2. meth[c] # NoMethod
          BY <3>1 DEF NoMethod
        <4>3. QED
          BY <4>1, <4>2, MethodPlace
      <3>2. CASE ~(c = req /\ meth[c].pc = "wait")
        BY <1>0, <1>4, <3>2 DEF HandlerEnd
      <3>3. QED
        BY <3>1, <3>2
    <2>2. DOMAIN (meth') = Callers /\ meth' = [c \in Callers |-> meth'[c]]
      BY <1>4 DEF HandlerEnd
    <2>3. QED
      BY <2>1, <2>2 DEF MethodsMove
  <1>5. QED
    BY <1>1, <1>2, <1>3, <1>4

(* A client calls a method, and has its reply. *)
LEMMA CallMoves ==
  ASSUME Called, NEW c \in Callers, Call(c)
  PROVE  /\ op[c].pc \in Methods /\ CommandMoves(c) /\ op'[c].pc = "reply"
         /\ meth' \in [Callers -> MethodStates]
         /\ meth'[c].name = op[c].pc
         /\ \A q \in Callers : q # c => meth'[q] = meth[q]
         /\ UNCHANGED <<st, lpc, todo, req, props, spc, upd, sdone, by>>
  <1> DEFINE x == [name |-> op[c].pc, pc |-> IF Up THEN "send" ELSE "error"]
  <1>1. /\ op[c].pc \in Methods /\ Goto(c, "reply") /\ meth' = [meth EXCEPT ![c] = x]
        /\ UNCHANGED <<st, lpc, todo, req, props, spc, upd, sdone, by>>
    BY DEF Call, MethodCall
  <1>2. x \in MethodStates /\ x.name = op[c].pc
    BY <1>1 DEF MethodStates
  <1> HIDE DEF x
  <1>3. QED
    BY <1>1, <1>2, GotoMoves DEF Called, CommandPlaces

(* The reply ends the method and the command, or lets reconnect poll. *)
LEMMA ReplyMoves ==
  ASSUME Called, NEW c \in Callers, Reply(c)
  PROVE  /\ CommandMoves(c) /\ op'[c].pc \in {"poll", "idle"}
         /\ meth' \in [Callers -> MethodStates] /\ meth'[c] = NoMethod
         /\ \A q \in Callers : q # c => meth'[q] = meth[q]
         /\ meth[c].pc \in {"ok", "error"}
         /\ UNCHANGED <<st, lpc, todo, req, props, spc, upd, sdone, by>>
  <1>1. /\ meth[c].pc \in {"ok", "error"} /\ meth' = [meth EXCEPT ![c] = NoMethod]
        /\ Goto(c, "poll") \/ Return(c)
        /\ UNCHANGED <<st, lpc, todo, req, props, spc, upd, sdone, by>>
    BY DEF Reply, MethodReply
  <1>2. NoMethod \in MethodStates
    BY DEF MethodStates
  <1>3. QED
    BY <1>1, <1>2, GotoMoves DEF Called, CommandPlaces

(* Steps of others than the commands. *)
OtherSteps ==
  \/ \E c \in Callers : DaemonRequest(c) \/ MethodStep(c)
  \/ \E name \in Methods : DaemonOtherRequest(name)
  \/ DaemonStart \/ DaemonStep \/ ServiceSet
  \/ Subscribe \/ SubscribeQuery \/ SubscribeSignal
  \/ \E ok \in BOOLEAN : SubscribeMatch(ok)
  \/ CloseConn \/ CloseDone \/ CloseReturn
  \/ \E i \in DOMAIN later : DeliverLater(i)
  \/ Receive \/ HandlePropertiesChanged \/ UpdatesEnd \/ UNCHANGED vars

(* The daemon and the subscription end methods, and start none. *)
LEMMA OtherStepsMove ==
  ASSUME Called, OtherSteps
  PROVE  op' = op /\ MethodsMove
  <1>1. CASE \E c \in Callers : DaemonRequest(c) \/ MethodStep(c)
    <2>1. PICK c \in Callers : DaemonRequest(c) \/ MethodStep(c)
      BY <1>1
    <2>2. /\ op' = op /\ meth[c].pc # "none"
          /\ \E pc \in {"wait", "error", "ok"} : meth' = [meth EXCEPT ![c].pc = pc]
      BY <2>1 DEF DaemonRequest, RecvRequest, MethodStep, MethodAbort, MethodReturn
    <2>3. QED
      BY <2>2, MethodsMoveSteps
  <1>2. CASE \E name \in Methods : DaemonOtherRequest(name)
    BY <1>2, MethodsMoveSteps DEF DaemonOtherRequest, OtherRequest, Event
  <1>3. CASE DaemonStart
    BY <1>3, MethodsMoveSteps DEF DaemonStart, Start
  <1>4. CASE DaemonStep
    <2>1. op' = op
      BY <1>4 DEF DaemonStep
    <2>2. CASE HandlerEnd
      BY <2>1, <2>2, MethodsMoveSteps
    <2>3. CASE Crash
      BY <2>1, <2>3, MethodsMoveSteps DEF Crash
    <2>4. CASE \/ ScriptConnect \/ RunnerExit \/ (\E t \in Trusts : TNDResult(t))
               \/ StartEnd \/ Stop \/ StopEnd \/ SetProperty \/ RecvDone
      BY <2>1, <2>4, MethodsMoveSteps
      DEF ScriptConnect, RunnerExit, TNDResult, Event, StartEnd, Stop, StopEnd, SetProperty,
          RecvDone
    <2>5. QED
      BY <1>4, <2>2, <2>3, <2>4 DEF DaemonStep
  <1>5. CASE ServiceSet
    <2>1. op' = op /\ meth' \in {meth, NoReply}
      BY <1>5 DEF ServiceSet, SetMust, SetInitial, SetUpdate
    <2>2. QED
      BY <2>1, MethodsMoveSteps
  <1>6. CASE \/ Subscribe \/ SubscribeQuery \/ SubscribeSignal
             \/ \E ok \in BOOLEAN : SubscribeMatch(ok)
             \/ CloseConn \/ CloseDone \/ CloseReturn
             \/ \E i \in DOMAIN later : DeliverLater(i)
             \/ Receive \/ HandlePropertiesChanged \/ UpdatesEnd \/ UNCHANGED vars
    BY <1>6, MethodsMoveSteps
    DEF Subscribe, SubscribeQuery, SubscribeSignal, SubscribeMatch, CloseConn, CloseDone,
        CloseReturn, DeliverLater, Receive, HandlePropertiesChanged, UpdatesEnd, vars, apiVars
  <1>7. QED
    BY <1>1, <1>2, <1>3, <1>4, <1>5, <1>6 DEF OtherSteps

(* A command goes on between two calls. *)
CommandSteps(c) ==
  \/ CheckStatus(c) \/ \E ok \in BOOLEAN : Authenticate(c, ok)
  \/ CheckRunning(c) \/ ReconnectQuery(c) \/ ReconnectPoll(c)
  \/ \E cmd \in Commands : Begin(c, cmd)

(* Every step is one of those. *)
LEMMA NextSteps ==
  ASSUME [Next]_vars
  PROVE  OtherSteps \/ \E c \in Callers : CommandSteps(c) \/ Call(c) \/ Reply(c)
  BY DEF Next, OtherSteps, CommandSteps, CallerStep

(* Every step keeps the invariant of the service and of methods. *)
LEMMA APINextInv ==
  ASSUME APIInv, [Next]_vars
  PROVE  APIInv'
  <1>0. Called
    BY DEF APIInv
  <1>1. Called'
    <2>1. CASE OtherSteps
      BY <1>0, <2>1, OtherStepsMove DEF MethodsMove, Called
    <2>2. ASSUME NEW c \in Callers, CommandSteps(c) PROVE Called'
      <3>1. CommandMoves(c) /\ op[c].pc # "reply" /\ UNCHANGED apiVars
        BY <1>0, <2>2, CommandContinues DEF CommandSteps
      <3>2. meth[c] = NoMethod /\ meth' = meth
        BY <1>0, <3>1 DEF Called, apiVars
      <3>3. QED
        BY <1>0, <3>1, <3>2 DEF Called, CommandMoves
    <2>3. ASSUME NEW c \in Callers, Call(c) PROVE Called'
      BY <1>0, <2>3, CallMoves DEF Called, CommandMoves
    <2>4. ASSUME NEW c \in Callers, Reply(c) PROVE Called'
      BY <1>0, <2>4, ReplyMoves DEF Called, CommandMoves
    <2>5. QED
      BY <2>1, <2>2, <2>3, <2>4, NextSteps
  <1>2. QED
    BY <1>1, PlacesNext DEF APIInv

-----------------------------------------------------------------------------
(* The subscription. *)

(* A signal of the followed property, or of another one, is appended. *)
LEMMA AgreesAppend ==
  ASSUME sig \in Seq(Vals \cup {"other"}), NEW s \in Vals \cup {"other"},
         sig' = Append(sig, s), status' = status
  PROVE  /\ s # "other" => Agrees(s)'
         /\ \A v : s = "other" /\ Agrees(v) => Agrees(v)'
  <1>1. /\ Len(sig) \in Nat /\ Len(sig') = Len(sig) + 1 /\ sig'[Len(sig')] = s
        /\ \A j \in 1 .. Len(sig) : sig'[j] = sig[j]
    OBVIOUS
  <1>2. s # "other" => Agrees(s)'
    BY <1>1 DEF Agrees
  <1>3. ASSUME NEW v, s = "other", Agrees(v) PROVE Agrees(v)'
    <2>1. \A j \in 1 .. Len(sig') : j \in 1 .. Len(sig) \/ sig'[j] = "other"
      BY <1>1, <1>3
    <2>2. CASE status = v /\ \A j \in 1 .. Len(sig) : sig[j] = "other"
      BY <1>1, <2>1, <2>2 DEF Agrees
    <2>3. CASE \E i \in 1 .. Len(sig) :
                 sig[i] = v /\ \A j \in 1 .. Len(sig) : j > i => sig[j] = "other"
      <3>1. PICK i \in 1 .. Len(sig) :
                   sig[i] = v /\ \A j \in 1 .. Len(sig) : j > i => sig[j] = "other"
        BY <2>3
      <3>2. i \in 1 .. Len(sig') /\ sig'[i] = v
        BY <1>1, <3>1
      <3>3. \A j \in 1 .. Len(sig') : j > i => sig'[j] = "other"
        BY <1>1, <2>1, <3>1
      <3>4. QED
        BY <3>2, <3>3 DEF Agrees
    <2>4. QED
      BY <1>3, <2>2, <2>3 DEF Agrees
  <1>4. QED
    BY <1>2, <1>3

(* A signal is handled. *)
LEMMA AgreesTail ==
  ASSUME sig \in Seq(Vals \cup {"other"}), sig # <<>>, sig' = Tail(sig),
         status' = IF Head(sig) = "other" THEN status ELSE Head(sig),
         NEW v \in Vals, Agrees(v)
  PROVE  Agrees(v)'
  <1>1. /\ Len(sig) \in Nat /\ Len(sig) > 0 /\ Len(sig') = Len(sig) - 1 /\ Head(sig) = sig[1]
        /\ \A j \in 1 .. Len(sig') : sig'[j] = sig[j + 1] /\ j + 1 \in 1 .. Len(sig)
    OBVIOUS
  <1>2. v # "other"
    BY PropFacts
  <1>3. CASE status = v /\ \A j \in 1 .. Len(sig) : sig[j] = "other"
    <2>1. status' = v
      BY <1>1, <1>3
    <2>2. QED
      BY <1>1, <1>3, <2>1 DEF Agrees
  <1>4. CASE \E i \in 1 .. Len(sig) :
               sig[i] = v /\ \A j \in 1 .. Len(sig) : j > i => sig[j] = "other"
    <2>1. PICK i \in 1 .. Len(sig) :
                 sig[i] = v /\ \A j \in 1 .. Len(sig) : j > i => sig[j] = "other"
      BY <1>4
    <2>2. CASE i = 1
      <3>1. status' = v
        BY <1>1, <1>2, <2>1, <2>2
      <3>2. \A j \in 1 .. Len(sig') : sig'[j] = "other"
        BY <1>1, <2>1, <2>2
      <3>3. QED
        BY <3>1, <3>2 DEF Agrees
    <2>3. CASE i # 1
      <3>1. i - 1 \in 1 .. Len(sig') /\ sig'[i - 1] = v
        BY <1>1, <2>1, <2>3
      <3>2. \A j \in 1 .. Len(sig') : j > i - 1 => sig'[j] = "other"
        BY <1>1, <2>1
      <3>3. QED
        BY <3>1, <3>2 DEF Agrees
    <2>4. QED
      BY <2>2, <2>3
  <1>5. QED
    BY <1>3, <1>4 DEF Agrees

(* The service sets a property and emits its signal. *)
LEMMA ServiceSetFollows ==
  ASSUME SubscriberInv, ServiceSet
  PROVE  Channel' /\ Follows'
  <1>0. APIInv /\ Channel /\ Follows /\ Places /\ Properties
    BY DEF SubscriberInv, APIInv
  <1>1. PICK n \in PropNames : \E v \in Values(n) : SetMust(n, v) /\ Deliver(n, v)
    BY DEF ServiceSet
  <1> PICK v \in Values(n) : SetMust(n, v) /\ Deliver(n, v)
    BY <1>1
  <1>2. v \in Vals /\ v # "other" /\ watch \in PropNames
    BY <1>0, PropFacts DEF Vals, Channel
  <1>3. UNCHANGED <<mpc, closed, watch, status>>
    BY DEF ServiceSet
  <1>4. props' = [props EXCEPT ![n] = v] /\ props \in [PropNames -> Vals] /\ spc # "crashed"
    BY <1>0 DEF SetMust, SetInitial, SetUpdate, Properties
  <1>5. CASE mpc # "on"
    <2>1. /\ UNCHANGED <<sig, later, late>>
          /\ mpc \in {"match", "signal"} => lost'
      BY <1>5 DEF Deliver
    <2>2. QED
      BY <1>0, <1>3, <1>5, <2>1 DEF Channel, Follows
  <1>6. CASE mpc = "on" /\ Len(sig) < SignalBuffer
    <2>1. sig' = Append(sig, Signal(n, v)) /\ UNCHANGED <<later, lost, late>>
      BY <1>6 DEF Deliver
    <2>2. Signal(n, v) \in Vals \cup {"other"}
      BY <1>2 DEF Signal
    <2>3. Channel'
      BY <1>0, <1>3, <1>6, <2>1, <2>2 DEF Channel
    <2>4. ASSUME ~lost, ~late
          PROVE  \/ spc' = "init" /\ \E i \in 1 .. Len(left') : left'[i] = watch
                 \/ Agrees(props[watch])'
      <3>0. sig \in Seq(Vals \cup {"other"})
        BY <1>0, <1>6, <2>4 DEF Channel
      <3>1. CASE n = watch
        <4>1. Signal(n, v) = v /\ props'[watch] = v
          BY <1>4, <3>1 DEF Signal
        <4>2. Agrees(v)'
          BY <1>2, <1>3, <2>1, <2>2, <3>0, <4>1, AgreesAppend
        <4>3. QED
          BY <1>3, <4>1, <4>2 DEF Agrees
      <3>2. CASE n # watch
        <4>1. Signal(n, v) = "other" /\ props'[watch] = props[watch]
          BY <1>2, <1>4, <3>2 DEF Signal
        <4>2. CASE Agrees(props[watch])
          <5>1. PICK w : w = props[watch]
            OBVIOUS
          <5>2. Agrees(w)
            BY <4>2, <5>1 DEF Agrees
          <5>3. Agrees(w)'
            BY <1>3, <2>1, <2>2, <3>0, <4>1, <5>2, AgreesAppend
          <5>4. props'[watch'] = w
            BY <1>3, <4>1, <5>1
          <5>5. QED
            BY <5>3, <5>4 DEF Agrees
        <4>3. CASE spc = "init" /\ \E i \in 1 .. Len(left) : left[i] = watch
          <5>1. PICK i \in 1 .. Len(left) : left[i] = watch
            BY <4>3
          <5>2. /\ n = Head(left) /\ left' = Tail(left) /\ left \in Seq(PropNames)
                /\ spc' = IF Len(left) > 1 THEN spc ELSE "select"
            BY <1>0, <4>3 DEF SetMust, SetInitial, SetUpdate, Properties
          <5>3. Len(left) \in Nat /\ i # 1 /\ Len(left') = Len(left) - 1
                /\ \A j \in 1 .. Len(left') : left'[j] = left[j + 1]
            BY <3>2, <5>1, <5>2
          <5>4. i - 1 \in 1 .. Len(left') /\ left'[i - 1] = watch /\ Len(left) > 1
            BY <5>1, <5>3
          <5>5. QED
            BY <4>3, <5>2, <5>4
        <4>4. QED
          BY <1>0, <1>4, <1>6, <2>4, <4>2, <4>3 DEF Follows
      <3>3. QED
        BY <3>1, <3>2
    <2>5. Follows'
      BY <1>3, <2>1, <2>4 DEF Follows, Agrees
    <2>6. QED
      BY <2>3, <2>5
  <1>7. CASE mpc = "on" /\ ~(Len(sig) < SignalBuffer)
    <2>1. late'
      BY <1>7 DEF Deliver
    <2>2. QED
      BY <1>0, <1>3, <1>7, <2>1 DEF Channel, Follows
  <1>8. QED
    BY <1>5, <1>6, <1>7

(* Steps that neither set a property nor touch the subscription. *)
LEMMA OthersFollow ==
  ASSUME Channel, Follows, UNCHANGED <<subVars, props>>,
         spc = "crashed" => spc' = "crashed",
         spc = "init" => spc' = "init" /\ left' = left
  PROVE  Channel' /\ Follows'
  <1>1. UNCHANGED <<mpc, sig, later, closed, watch, status, lost, late, props>>
    BY DEF subVars
  <1>2. QED
    BY <1>1 DEF Channel, Follows, Agrees

(* Steps of Subscribe(), of Close() and of the goroutine of the client. *)
LEMMA SubscriberSteps ==
  ASSUME SubscriberInv, UNCHANGED apiVars,
         \/ Subscribe \/ SubscribeQuery \/ SubscribeSignal
         \/ \E ok \in BOOLEAN : SubscribeMatch(ok)
         \/ CloseConn \/ CloseDone \/ CloseReturn
         \/ \E i \in DOMAIN later : DeliverLater(i)
         \/ Receive \/ HandlePropertiesChanged \/ UpdatesEnd
  PROVE  Channel' /\ Follows'
  <1>0. /\ Channel /\ Follows /\ Properties
        /\ UNCHANGED <<props, spc, left>>
    BY DEF SubscriberInv, APIInv, apiVars
  <1>1. CASE Subscribe
    BY <1>0, <1>1 DEF Subscribe, Channel, Follows
  <1>2. CASE SubscribeQuery
    <2>1. /\ mpc = "query" /\ UNCHANGED <<sig, later, closed, watch>> /\ sig = <<>> /\ later = <<>>
          /\ (mpc' = "match" /\ status' = props[watch]) \/ mpc' = "failed"
      BY <1>0, <1>2 DEF SubscribeQuery, Channel
    <2>2. \A j \in 1 .. Len(sig') : sig'[j] = "other"
      BY <2>1
    <2>3. mpc' = "match" => Agrees(props[watch])'
      BY <1>0, <2>1, <2>2 DEF Agrees
    <2>4. QED
      BY <1>0, <2>1, <2>3 DEF Channel, Follows
  <1>3. CASE SubscribeSignal \/ \E ok \in BOOLEAN : SubscribeMatch(ok)
    <2>1. /\ mpc \in {"match", "signal"} /\ mpc' \in {"signal", "failed", "on"}
          /\ mpc' = "signal" \/ mpc' = "failed" \/ sig = <<>>
          /\ UNCHANGED <<sig, later, closed, watch, status, lost, late>>
      BY <1>0, <1>3 DEF SubscribeSignal, SubscribeMatch, Channel
    <2>2. sig = <<>> /\ later = <<>>
      BY <1>0, <2>1 DEF Channel
    <2>3. Channel'
      BY <1>0, <2>1, <2>2 DEF Channel
    <2>4. Follows'
      BY <1>0, <2>1 DEF Follows, Agrees
    <2>5. QED
      BY <2>3, <2>4
  <1>4. CASE CloseConn \/ CloseDone \/ CloseReturn
    BY <1>0, <1>4 DEF CloseConn, CloseDone, CloseReturn, Channel, Follows
  <1>5. CASE \E i \in DOMAIN later : DeliverLater(i)
    <2>1. PICK i \in DOMAIN later : DeliverLater(i)
      BY <1>5
    <2>2. later # <<>> /\ UNCHANGED <<mpc, closed, watch, late>>
      BY <2>1 DEF DeliverLater
    <2>3. mpc \notin {"idle", "query", "match", "signal"} /\ ~(mpc = "on" /\ ~late)
      BY <1>0, <2>2 DEF Channel
    <2>4. QED
      BY <1>0, <2>2, <2>3 DEF Channel, Follows
  <1>6. CASE Receive \/ UpdatesEnd
    BY <1>0, <1>6 DEF Receive, UpdatesEnd, Channel, Follows, Agrees
  <1>7. CASE HandlePropertiesChanged
    <2>1. /\ sig # <<>> /\ sig' = Tail(sig) /\ UNCHANGED <<mpc, later, closed, watch, lost, late>>
          /\ status' = IF closed \/ Head(sig) = "other" THEN status ELSE Head(sig)
      BY <1>7 DEF HandlePropertiesChanged
    <2>2. mpc \notin {"idle", "query", "match", "signal"}
      BY <1>0, <2>1 DEF Channel
    <2>3. CASE ~(mpc = "on" /\ ~late)
      BY <1>0, <2>1, <2>2, <2>3 DEF Channel, Follows
    <2>4. CASE mpc = "on" /\ ~late
      <3>1. sig \in Seq(Vals \cup {"other"}) /\ ~closed /\ watch \in PropNames
        BY <1>0, <2>4 DEF Channel
      <3>2. sig' \in Seq(Vals \cup {"other"})
        BY <2>1, <3>1
      <3>3. Channel'
        BY <1>0, <2>1, <2>2, <2>4, <3>2 DEF Channel
      <3>4. ASSUME Agrees(props[watch]) PROVE Agrees(props[watch])'
        <4> DEFINE w == props[watch]
        <4>1. w \in Vals /\ Agrees(w)
          BY <1>0, <3>1, <3>4 DEF Properties
        <4>2. \A v \in Vals : Agrees(v) => Agrees(v)'
          BY <2>1, <3>1, AgreesTail
        <4>3. w' = w
          BY <1>0, <2>1
        <4> HIDE DEF w
        <4>4. Agrees(w)'
          BY <4>1, <4>2, <4>3 DEF Agrees
        <4>5. QED
          BY <4>4 DEF w
      <3>5. Follows'
        BY <1>0, <2>1, <2>4, <3>4 DEF Follows
      <3>6. QED
        BY <3>3, <3>5
    <2>5. QED
      BY <2>3, <2>4
  <1>8. QED
    BY <1>1, <1>2, <1>3, <1>4, <1>5, <1>6, <1>7

(* Every step keeps the invariant of the subscription. *)
LEMMA SubscriberNextInv ==
  ASSUME SubscriberInv, [Next]_vars
  PROVE  SubscriberInv'
  <1>0. APIInv /\ Channel /\ Follows /\ Places /\ Properties
    BY DEF SubscriberInv, APIInv
  <1>1. APIInv'
    BY <1>0, APINextInv
  <1>2. Channel' /\ Follows'
    <2>1. CASE ServiceSet
      BY <2>1, ServiceSetFollows
    <2>2. CASE \/ Subscribe \/ SubscribeQuery \/ SubscribeSignal
               \/ \E ok \in BOOLEAN : SubscribeMatch(ok)
               \/ CloseConn \/ CloseDone \/ CloseReturn
               \/ \E i \in DOMAIN later : DeliverLater(i)
               \/ Receive \/ HandlePropertiesChanged \/ UpdatesEnd
      <3>1. UNCHANGED apiVars
        BY <2>2
        DEF Subscribe, SubscribeQuery, SubscribeSignal, SubscribeMatch, CloseConn, CloseDone,
            CloseReturn, DeliverLater, Receive, HandlePropertiesChanged, UpdatesEnd
      <3>2. QED
        BY <2>2, <3>1, SubscriberSteps
    <2>3. CASE DaemonStart
      <3>1. spc' = "init" /\ left' = PropOrder /\ UNCHANGED <<mpc, sig, later, closed, watch, late>>
        BY <2>3 DEF DaemonStart, Start, subVars
      <3>2. \E i \in 1 .. Len(PropOrder) : PropOrder[i] = watch
        BY <1>0, PropFacts DEF Channel
      <3>3. Channel'
        BY <1>0, <3>1 DEF Channel
      <3>4. QED
        BY <3>1, <3>2, <3>3 DEF Follows
    <2>4. CASE DaemonStep
      <3>1. UNCHANGED subVars
        BY <2>4 DEF DaemonStep
      <3>2. CASE Crash
        <4>1. spc' = "crashed" /\ UNCHANGED <<mpc, sig, later, closed, watch, late>>
          BY <3>1, <3>2 DEF Crash, subVars
        <4>2. QED
          BY <1>0, <4>1 DEF Channel, Follows
      <3>3. CASE \/ ScriptConnect \/ RunnerExit \/ (\E t \in Trusts : TNDResult(t))
                 \/ HandlerEnd \/ StartEnd \/ Stop \/ StopEnd
        <4>1. UNCHANGED <<props, spc, left>>
          BY <3>3
          DEF ScriptConnect, RunnerExit, TNDResult, Event, HandlerEnd, StartEnd, Stop, StopEnd
        <4>2. QED
          BY <1>0, <3>1, <4>1, OthersFollow
      <3>4. CASE SetProperty \/ RecvDone
        <4>1. spc = "select" /\ props' = props
          BY <3>4 DEF SetProperty, RecvDone
        <4>2. QED
          BY <1>0, <3>1, <4>1, OthersFollow
      <3>5. QED
        BY <2>4, <3>2, <3>3, <3>4 DEF DaemonStep
    <2>5. CASE \/ \E c \in Callers, cmd \in Commands : Begin(c, cmd)
               \/ \E c \in Callers : CallerStep(c) \/ DaemonRequest(c) \/ MethodStep(c)
               \/ \E name \in Methods : DaemonOtherRequest(name)
               \/ UNCHANGED vars
      <3>1. UNCHANGED <<subVars, props, spc, left>>
        <4>1. CASE \E c \in Callers : CallerStep(c) \/ DaemonRequest(c) \/ MethodStep(c)
          BY <4>1
          DEF CallerStep, CheckStatus, Authenticate, CheckRunning, Call, Reply, ReconnectQuery,
              ReconnectPoll, Check, MethodCall, MethodReply, MethodStep, MethodAbort, MethodReturn,
              DaemonRequest, RecvRequest, apiVars
        <4>2. CASE \/ \E c \in Callers, cmd \in Commands : Begin(c, cmd)
                   \/ \E name \in Methods : DaemonOtherRequest(name)
                   \/ UNCHANGED vars
          BY <4>2 DEF Begin, DaemonOtherRequest, OtherRequest, Event, apiVars, vars
        <4>3. QED
          BY <2>5, <4>1, <4>2
      <3>2. QED
        BY <1>0, <3>1, OthersFollow
    <2>6. QED
      BY <2>1, <2>2, <2>3, <2>4, <2>5 DEF Next
  <1>3. QED
    BY <1>1, <1>2 DEF SubscriberInv

(* Before the first start there is nothing to follow. *)
LEMMA APIInitInv == Init => APIInv
  <1> SUFFICES ASSUME Init PROVE APIInv
    OBVIOUS
  <1>1. Places
    BY DEF Init, APIInit, Places
  <1>2. Properties
    BY PropFacts DEF Init, APIInit, Properties, InitialProps
  <1>3. Called
    BY DEF Init, APIInit, Called, MethodStates, CommandStates, CommandPlaces, Idle
  <1>4. QED
    BY <1>1, <1>2, <1>3 DEF APIInv

(* The invariant of the subscription holds in every state. *)
THEOREM SubscriberInvariance == Spec => []SubscriberInv
  <1>1. Init => SubscriberInv
    BY APIInitInv, ClientAssumption DEF Init, SubscriberInv, Channel, Follows
  <1>2. SubscriberInv /\ [Next]_vars => SubscriberInv'
    BY SubscriberNextInv
  <1>3. QED
    BY <1>1, <1>2, PTL DEF Spec

(* When all signals are handled, the status of a subscriber is what the    *)
(* daemon exports, over any number of updates, crashes and restarts, for   *)
(* every followed property and every size of the channel, unless a signal  *)
(* was lost before the channel was registered or had to wait for it        *)
(* (setInitialProps, handlePropertiesChanged).                             *)
THEOREM SettledIsExact == Spec => []SettledStatusExact
  <1>1. SubscriberInv => SettledStatusExact
    <2> SUFFICES ASSUME SubscriberInv, Settled, ~lost, ~late
                 PROVE  status = IF spc = "down" THEN "Unknown" ELSE props[watch]
      BY DEF SettledStatusExact
    <2>1. mpc = "on" /\ sig = <<>> /\ spc \in {"select", "down"}
      BY DEF Settled
    <2>2. Agrees(props[watch]) /\ watch \in PropNames
      BY <2>1 DEF SubscriberInv, Follows, Channel
    <2>3. status = props[watch]
      BY <2>1, <2>2 DEF Agrees
    <2>4. spc = "down" => props[watch] = "Unknown"
      BY <2>2 DEF SubscriberInv, APIInv, Properties
    <2>5. QED
      BY <2>1, <2>3, <2>4
  <1>2. QED
    BY <1>1, SubscriberInvariance, PTL

-----------------------------------------------------------------------------
(* Connect requests. *)

(* Updates that do not concern a property, and updates after which it has  *)
(* a certain value.                                                        *)
Free(us, n) == \A i \in 1 .. Len(us) : us[i].name # n

Yields(x, us, n, v) ==
  \/ Free(us, n) /\ x[n] = v
  \/ \E i \in 1 .. Len(us) : /\ us[i].name = n /\ us[i].value = v
                            /\ \A j \in 1 .. Len(us) : us[j].name = n => j = i

(* The status after updates of different properties. *)
LEMMA ApplyLemma ==
  ASSUME NEW x, NEW us \in Seq(Update), NEW n \in PropNames
  PROVE  /\ (\A i \in 1 .. Len(us) : us[i].name # n) => Apply(x, us)[n] = x[n]
         /\ \A i \in 1 .. Len(us) :
              us[i].name = n /\ (\A j \in 1 .. Len(us) : us[j].name = n => j = i)
                => Apply(x, us)[n] = us[i].value
         /\ DOMAIN Apply(x, us) = PropNames
  <1> DEFINE hits == {i \in DOMAIN us : us[i].name = n}
  <1>1. DOMAIN us = 1 .. Len(us) /\ Len(us) \in Nat
    OBVIOUS
  <1>2. Apply(x, us)[n] =
          IF hits = {} THEN x[n] ELSE us[CHOOSE i \in hits : \A j \in hits : j <= i].value
    BY DEF Apply
  <1>3. ASSUME NEW i \in 1 .. Len(us), us[i].name = n,
               \A j \in 1 .. Len(us) : us[j].name = n => j = i
        PROVE  Apply(x, us)[n] = us[i].value
    <2>1. hits = {i}
      BY <1>1, <1>3
    <2>2. \A j \in hits : j <= i
      BY <1>1, <2>1
    <2> HIDE DEF hits
    <2>3. (CHOOSE k \in hits : \A j \in hits : j <= k) = i
      BY <2>1, <2>2
    <2>4. QED
      BY <1>2, <2>1, <2>3
  <1>4. (\A i \in 1 .. Len(us) : us[i].name # n) => hits = {}
    BY <1>1
  <1>5. DOMAIN Apply(x, us) = PropNames
    BY DEF Apply
  <1> HIDE DEF hits
  <1>6. QED
    BY <1>2, <1>3, <1>4, <1>5

(* What updates yield as part of more updates. *)
LEMMA ConcatLemma ==
  ASSUME NEW us \in Seq(Update), NEW vs \in Seq(Update), NEW n
  PROVE  /\ us \o vs \in Seq(Update)
         /\ Free(us, n) /\ Free(vs, n) => Free(us \o vs, n)
         /\ \A x, v : Yields(x, us, n, v) /\ Free(vs, n) => Yields(x, us \o vs, n, v)
         /\ \A x, v : Free(us, n) /\ Yields(x, vs, n, v) => Yields(x, us \o vs, n, v)
  <1> DEFINE ws == us \o vs
  <1>1. /\ ws \in Seq(Update) /\ Len(us) \in Nat /\ Len(vs) \in Nat
        /\ Len(ws) = Len(us) + Len(vs)
        /\ \A i \in 1 .. Len(us) : ws[i] = us[i]
        /\ \A i \in 1 .. Len(vs) : ws[Len(us) + i] = vs[i]
    OBVIOUS
  <1> HIDE DEF ws
  <1>2. \A i \in 1 .. Len(ws) :
          i \notin 1 .. Len(us) => i - Len(us) \in 1 .. Len(vs) /\ ws[i] = vs[i - Len(us)]
    <2> SUFFICES ASSUME NEW i \in 1 .. Len(ws), i \notin 1 .. Len(us)
                 PROVE  i - Len(us) \in 1 .. Len(vs) /\ ws[i] = vs[i - Len(us)]
      OBVIOUS
    <2>1. i - Len(us) \in 1 .. Len(vs) /\ Len(us) + (i - Len(us)) = i
      BY <1>1
    <2>2. QED
      BY <1>1, <2>1
  <1>3. Free(us, n) /\ Free(vs, n) => Free(ws, n)
    BY <1>1, <1>2 DEF Free
  <1>4. ASSUME NEW x, NEW v, Yields(x, us, n, v), Free(vs, n) PROVE Yields(x, ws, n, v)
    <2>1. CASE Free(us, n) /\ x[n] = v
      BY <1>3, <1>4, <2>1 DEF Yields
    <2>2. CASE \E i \in 1 .. Len(us) : /\ us[i].name = n /\ us[i].value = v
                                       /\ \A j \in 1 .. Len(us) : us[j].name = n => j = i
      <3>1. PICK i \in 1 .. Len(us) : /\ us[i].name = n /\ us[i].value = v
                                      /\ \A j \in 1 .. Len(us) : us[j].name = n => j = i
        BY <2>2
      <3>2. i \in 1 .. Len(ws) /\ ws[i] = us[i]
        BY <1>1
      <3>3. \A j \in 1 .. Len(ws) : ws[j].name = n => j = i
        BY <1>1, <1>2, <1>4, <3>1 DEF Free
      <3>4. QED
        BY <3>1, <3>2, <3>3 DEF Yields
    <2>3. QED
      BY <1>4, <2>1, <2>2 DEF Yields
  <1>5. ASSUME NEW x, NEW v, Free(us, n), Yields(x, vs, n, v) PROVE Yields(x, ws, n, v)
    <2>1. CASE Free(vs, n) /\ x[n] = v
      BY <1>3, <1>5, <2>1 DEF Yields
    <2>2. CASE \E i \in 1 .. Len(vs) : /\ vs[i].name = n /\ vs[i].value = v
                                       /\ \A j \in 1 .. Len(vs) : vs[j].name = n => j = i
      <3>1. PICK i \in 1 .. Len(vs) : /\ vs[i].name = n /\ vs[i].value = v
                                      /\ \A j \in 1 .. Len(vs) : vs[j].name = n => j = i
        BY <2>2
      <3>2. Len(us) + i \in 1 .. Len(ws) /\ ws[Len(us) + i] = vs[i]
        BY <1>1
      <3>3. \A j \in 1 .. Len(ws) : ws[j].name = n => j = Len(us) + i
        <4> SUFFICES ASSUME NEW j \in 1 .. Len(ws), ws[j].name = n PROVE j = Len(us) + i
          OBVIOUS
        <4>1. j \notin 1 .. Len(us)
          BY <1>1, <1>5 DEF Free
        <4>2. j - Len(us) \in 1 .. Len(vs) /\ vs[j - Len(us)].name = n
          BY <1>2, <4>1
        <4>3. j - Len(us) = i
          BY <3>1, <4>2
        <4>4. QED
          BY <1>1, <4>3
      <3>4. QED
        BY <3>1, <3>2, <3>3 DEF Yields
    <2>3. QED
      BY <1>5, <2>1, <2>2 DEF Yields
  <1>6. QED
    BY <1>1, <1>3, <1>4, <1>5 DEF ws

(* What the status is after updates. *)
LEMMA YieldsApply ==
  ASSUME NEW x, NEW us \in Seq(Update), NEW n \in PropNames, NEW v, Yields(x, us, n, v)
  PROVE  Apply(x, us)[n] = v /\ DOMAIN Apply(x, us) = PropNames
  BY ApplyLemma DEF Yields, Free

(* One call of a setStatus method yields the value it is called with and   *)
(* concerns no other property.                                             *)
LEMMA SetStatusYields ==
  ASSUME NEW x, NEW n \in PropNames, NEW v \in Vals
  PROVE  /\ SetStatus(x, n, v) \in Seq(Update)
         /\ Yields(x, SetStatus(x, n, v), n, v)
         /\ \A k : k # n => Free(SetStatus(x, n, v), k)
  <1>1. SetStatus(x, n, v) \in Seq(Update)
    BY SetStatusTyped
  <1>2. CASE x[n] = v
    <2>1. SetStatus(x, n, v) = <<>>
      BY <1>2 DEF SetStatus
    <2>2. \A k : Free(SetStatus(x, n, v), k)
      BY <2>1 DEF Free
    <2>3. QED
      BY <1>1, <1>2, <2>2 DEF Yields
  <1>3. CASE x[n] # v
    <2> DEFINE u == Prop(n, v)
    <2>1. SetStatus(x, n, v) = <<u>> /\ u.name = n /\ u.value = v
      BY <1>3 DEF SetStatus, Prop
    <2> HIDE DEF u
    <2> DEFINE s == SetStatus(x, n, v)
    <2>2. Len(s) = 1 /\ s[1] = u
      BY <2>1
    <2> HIDE DEF s
    <2>3. \A k : k # n => Free(s, k)
      BY <2>1, <2>2 DEF Free
    <2>4. Yields(x, s, n, v)
      BY <2>1, <2>2 DEF Yields
    <2>5. QED
      BY <1>1, <2>3, <2>4 DEF s
  <1>4. QED
    BY <1>2, <1>3

(* connectVPN, when openconnect is not running: it is exported first. *)
LEMMA ConnectHandled ==
  ASSUME Running, st.OCRunning # "Running", st' = Apply(st, ConnectUpdates),
         todo' = ConnectUpdates
  PROVE  /\ DOMAIN (st') = PropNames /\ st'.OCRunning = "Running"
         /\ Len(todo') = 2 /\ todo'[1] = Prop("OCRunning", "Running")
         /\ todo'[2].name # "OCRunning"
  <1>1. st.ConnectionState # "Connecting"
    BY DEF Running
  <1>2. ConnectUpdates = <<Prop("OCRunning", "Running")>> \o <<Prop("ConnectionState", "Connecting")>>
    BY <1>1 DEF ConnectUpdates, SetStatus
  <1>3. /\ Len(ConnectUpdates) = 2 /\ ConnectUpdates[1] = Prop("OCRunning", "Running")
        /\ ConnectUpdates[2] = Prop("ConnectionState", "Connecting")
    BY <1>2
  <1>4. /\ ConnectUpdates[1].name = "OCRunning" /\ ConnectUpdates[1].value = "Running"
        /\ ConnectUpdates[2].name = "ConnectionState"
    BY <1>3 DEF Prop
  <1>5. 1 \in 1 .. Len(ConnectUpdates)
        /\ \A j \in 1 .. Len(ConnectUpdates) : ConnectUpdates[j].name = "OCRunning" => j = 1
    BY <1>3, <1>4
  <1>6. "OCRunning" \in PropNames /\ ConnectUpdates \in Seq(Update)
    BY PropFacts, UpdatesTyped
  <1>7. Apply(st, ConnectUpdates)["OCRunning"] = "Running" /\ DOMAIN Apply(st, ConnectUpdates) = PropNames
    BY <1>4, <1>5, <1>6, ApplyLemma
  <1>8. QED
    BY <1>3, <1>4, <1>7

(* handleRunnerDisconnect: openconnect is not running any more. *)
LEMMA RunnerExitHandled ==
  ASSUME RunnerExit
  PROVE  /\ DOMAIN (st') = PropNames /\ st'.OCRunning = "NotRunning"
         /\ st'.ConnectionState = "Disconnected"
  <1> DEFINE u1 == SetStatus(st, "OCRunning", "NotRunning")
             u2 == SetStatus(st, "ConnectionState", "Disconnected")
             u3 == SetStatus(st, "VPNConfig", "Unknown")
  <1>0. /\ {"OCRunning", "ConnectionState", "VPNConfig"} \subseteq PropNames
        /\ {"NotRunning", "Disconnected", "Unknown"} \subseteq Vals
    BY PropFacts, ValueFacts
  <1>1. /\ u1 \in Seq(Update) /\ Yields(st, u1, "OCRunning", "NotRunning")
        /\ Free(u1, "ConnectionState")
    BY <1>0, SetStatusYields
  <1>2. /\ u2 \in Seq(Update) /\ Yields(st, u2, "ConnectionState", "Disconnected")
        /\ Free(u2, "OCRunning")
    BY <1>0, SetStatusYields
  <1>3. u3 \in Seq(Update) /\ Free(u3, "OCRunning") /\ Free(u3, "ConnectionState")
    BY <1>0, SetStatusYields
  <1>4. st' = Apply(st, u1 \o u2 \o u3)
    BY DEF RunnerExit, Event, Handle
  <1> HIDE DEF u1, u2, u3
  <1>5. /\ u1 \o u2 \in Seq(Update) /\ Yields(st, u1 \o u2, "OCRunning", "NotRunning")
        /\ Yields(st, u1 \o u2, "ConnectionState", "Disconnected")
    BY <1>1, <1>2, ConcatLemma
  <1> DEFINE us == (u1 \o u2) \o u3
  <1>6. /\ us \in Seq(Update) /\ Yields(st, us, "OCRunning", "NotRunning")
        /\ Yields(st, us, "ConnectionState", "Disconnected")
    BY <1>3, <1>5, ConcatLemma
  <1> HIDE DEF us
  <1>7. Apply(st, us)["OCRunning"] = "NotRunning" /\ Apply(st, us)["ConnectionState"] = "Disconnected"
        /\ DOMAIN Apply(st, us) = PropNames
    BY <1>0, <1>6, YieldsApply
  <1>8. QED
    BY <1>4, <1>7 DEF us

(* Start(): nor is it in a new daemon. *)
LEMMA StartHandled ==
  ASSUME Start
  PROVE  /\ DOMAIN (st') = PropNames /\ st'.OCRunning = "NotRunning"
         /\ st'.ConnectionState = "Disconnected"
  <1> DEFINE x == InitialProps
             u1 == SetStatus(x, "TrustedNetwork", "NotTrusted")
             u2 == SetStatus(x, "ConnectionState", "Disconnected")
             u3 == SetStatus(x, "OCRunning", "NotRunning")
  <1>0. /\ {"OCRunning", "ConnectionState", "TrustedNetwork"} \subseteq PropNames
        /\ {"NotRunning", "Disconnected", "NotTrusted"} \subseteq Vals
    BY PropFacts, ValueFacts
  <1>1. /\ u1 \in Seq(Update) /\ Free(u1, "ConnectionState") /\ Free(u1, "OCRunning")
    BY <1>0, SetStatusYields
  <1>2. /\ u2 \in Seq(Update) /\ Yields(x, u2, "ConnectionState", "Disconnected")
        /\ Free(u2, "OCRunning")
    BY <1>0, SetStatusYields
  <1>3. /\ u3 \in Seq(Update) /\ Yields(x, u3, "OCRunning", "NotRunning")
        /\ Free(u3, "ConnectionState")
    BY <1>0, SetStatusYields
  <1>4. st' = Apply(x, u1 \o u2 \o u3)
    BY DEF Start
  <1> HIDE DEF u1, u2, u3, x
  <1>5. /\ u1 \o u2 \in Seq(Update) /\ Free(u1 \o u2, "OCRunning")
        /\ Yields(x, u1 \o u2, "ConnectionState", "Disconnected")
    BY <1>1, <1>2, ConcatLemma
  <1> DEFINE us == (u1 \o u2) \o u3
  <1>6. /\ us \in Seq(Update) /\ Yields(x, us, "OCRunning", "NotRunning")
        /\ Yields(x, us, "ConnectionState", "Disconnected")
    BY <1>3, <1>5, ConcatLemma
  <1> HIDE DEF us
  <1>7. Apply(x, us)["OCRunning"] = "NotRunning" /\ Apply(x, us)["ConnectionState"] = "Disconnected"
        /\ DOMAIN Apply(x, us) = PropNames
    BY <1>0, <1>6, YieldsApply
  <1>8. QED
    BY <1>4, <1>7 DEF us

(* The updates of the other handlers do not concern OCRunning, and while   *)
(* openconnect is not running, not the state of the connection.            *)
Harmless(us) ==
  /\ us \in Seq(Update)
  /\ Free(us, "OCRunning")
  /\ st.OCRunning # "Running" => Free(us, "ConnectionState")

(* handleDBusRequest but for an accepted connect request, the report of a  *)
(* script and the result of the detection make such updates.               *)
LEMMA HarmlessHandlers ==
  /\ Harmless(<<>>)
  /\ Harmless(DisconnectUpdates)
  /\ st.OCRunning = "Running" => Harmless(ConnectUpdates)
  /\ st.OCRunning = "Running" =>
       Harmless(SetStatus(st, "VPNConfig", "Set") \o SetStatus(st, "ConnectionState", "Connected"))
  /\ \A t \in Trusts :
       Harmless(SetStatus(st, "TrustedNetwork", t) \o IF t = "Trusted" THEN DisconnectUpdates ELSE <<>>)
  <1>0. /\ {"OCRunning", "ConnectionState", "VPNConfig", "TrustedNetwork"} \subseteq PropNames
        /\ {"Set", "Connected", "Disconnecting"} \subseteq Vals /\ Trusts \subseteq Vals
    BY PropFacts, ValueFacts, DBusAPIAssumption
  <1>1. Harmless(<<>>)
    BY DEF Harmless, Free
  <1>2. Harmless(DisconnectUpdates)
    <2>1. CASE st.OCRunning = "Running"
      BY <1>0, <2>1, SetStatusYields DEF Harmless, DisconnectUpdates
    <2>2. CASE st.OCRunning # "Running"
      BY <1>1, <2>2 DEF DisconnectUpdates
    <2>3. QED
      BY <2>1, <2>2
  <1>3. st.OCRunning = "Running" => Harmless(ConnectUpdates)
    BY <1>1 DEF ConnectUpdates
  <1>4. ASSUME st.OCRunning = "Running"
        PROVE  Harmless(SetStatus(st, "VPNConfig", "Set")
                        \o SetStatus(st, "ConnectionState", "Connected"))
    <2> DEFINE u1 == SetStatus(st, "VPNConfig", "Set")
               u2 == SetStatus(st, "ConnectionState", "Connected")
    <2>1. u1 \in Seq(Update) /\ Free(u1, "OCRunning")
      BY <1>0, SetStatusYields
    <2>2. u2 \in Seq(Update) /\ Free(u2, "OCRunning")
      BY <1>0, SetStatusYields
    <2> HIDE DEF u1, u2
    <2>3. u1 \o u2 \in Seq(Update) /\ Free(u1 \o u2, "OCRunning")
      BY <2>1, <2>2, ConcatLemma
    <2>4. Harmless(u1 \o u2)
      BY <1>4, <2>3 DEF Harmless
    <2>5. QED
      BY <2>4 DEF u1, u2
  <1>5. ASSUME NEW t \in Trusts
        PROVE  Harmless(SetStatus(st, "TrustedNetwork", t)
                        \o IF t = "Trusted" THEN DisconnectUpdates ELSE <<>>)
    <2> DEFINE u1 == SetStatus(st, "TrustedNetwork", t)
               u2 == IF t = "Trusted" THEN DisconnectUpdates ELSE <<>>
    <2>1. u1 \in Seq(Update) /\ Free(u1, "OCRunning") /\ Free(u1, "ConnectionState")
      BY <1>0, SetStatusYields
    <2>2. Harmless(u2)
      BY <1>1, <1>2
    <2> HIDE DEF u1, u2
    <2>3. /\ u1 \o u2 \in Seq(Update) /\ Free(u1 \o u2, "OCRunning")
          /\ Free(u2, "ConnectionState") => Free(u1 \o u2, "ConnectionState")
      BY <2>1, <2>2, ConcatLemma DEF Harmless
    <2>4. Harmless(u1 \o u2)
      BY <2>2, <2>3 DEF Harmless
    <2>5. QED
      BY <2>4 DEF u1, u2
  <1>6. QED
    BY <1>1, <1>2, <1>3, <1>4, <1>5

(* What such a handler leaves alone. *)
LEMMA HarmlessApply ==
  ASSUME Running, NEW us, Harmless(us)
  PROVE  LET y == Apply(st, us)
         IN  /\ DOMAIN y = PropNames /\ y.OCRunning = st.OCRunning
             /\ y.OCRunning # "Running" => y.ConnectionState # "Connecting"
  <1>1. "OCRunning" \in PropNames /\ "ConnectionState" \in PropNames
    BY PropFacts
  <1>2. Apply(st, us)["OCRunning"] = st["OCRunning"] /\ DOMAIN Apply(st, us) = PropNames
    BY <1>1, YieldsApply DEF Harmless, Yields
  <1>3. ASSUME st.OCRunning # "Running"
        PROVE  Apply(st, us)["ConnectionState"] = st["ConnectionState"]
    <2>1. us \in Seq(Update) /\ Yields(st, us, "ConnectionState", st["ConnectionState"])
      BY <1>3 DEF Harmless, Yields
    <2>2. QED
      BY <1>1, <2>1, YieldsApply
  <1>4. QED
    BY <1>2, <1>3 DEF Running

(* A handler with such updates begins. *)
LEMMA HarmlessBegins ==
  ASSUME ConnectInv, NEW us, NEW d, Harmless(us), lpc = "select", Handle(us, d),
         UNCHANGED <<props, spc, upd, sdone, op, by>>,
         \A c \in Callers : meth'[c] = meth[c] \/ meth'[c].pc = "wait"
  PROVE  Running' /\ NotAgain'
  <1>1. /\ DOMAIN (st') = PropNames /\ st'.OCRunning = st.OCRunning
        /\ st'.OCRunning # "Running" => st'.ConnectionState # "Connecting"
        /\ lpc' = "handle" /\ todo' = us
    BY HarmlessApply DEF ConnectInv, Handle
  <1>2. ~Exporting
    BY DEF Exporting
  <1>3. Exported => Exported'
    BY <1>1 DEF Exported, Harmless, Free
  <1>4. Running'
    BY <1>1, <1>2, <1>3 DEF ConnectInv, Running
  <1>5. NotAgain'
    <2> SUFFICES ASSUME st'.OCRunning = "Running", ~sdone', NEW c \in Callers, by' = c
                 PROVE  /\ op'[c].pc # "Connect"
                        /\ meth'[c].pc # "send" \/ meth'[c].name # "Connect"
                        /\ Exported' \/ meth'[c].pc = "wait"
      BY DEF NotAgain
    <2>1. /\ op[c].pc # "Connect"
          /\ meth[c].pc # "send" \/ meth[c].name # "Connect"
          /\ Exported
      BY <1>1, <1>2 DEF ConnectInv, NotAgain, Running
    <2>2. CASE meth'[c] = meth[c]
      BY <1>3, <2>1, <2>2
    <2>3. CASE meth'[c].pc = "wait"
      BY <1>3, <2>1, <2>3
    <2>4. QED
      BY <2>2, <2>3
  <1>6. QED
    BY <1>4, <1>5

(* The handler of a connect request that is accepted begins: its client    *)
(* waits for the reply.                                                    *)
LEMMA ConnectBegins ==
  ASSUME ConnectInv, NEW d, lpc = "select", Handle(ConnectUpdates, d),
         st.OCRunning # "Running", UNCHANGED <<op, sdone>>, by' = d,
         \A c \in Callers : d = c => meth[c] # NoMethod /\ meth'[c].pc = "wait"
  PROVE  Running' /\ NotAgain'
  <1>1. /\ DOMAIN (st') = PropNames /\ st'.OCRunning = "Running"
        /\ Len(todo') = 2 /\ todo'[1] = Prop("OCRunning", "Running")
        /\ todo'[2].name # "OCRunning" /\ lpc' = "handle" /\ req' = by'
    BY ConnectHandled DEF ConnectInv, Handle
  <1>2. Running'
    BY <1>1 DEF Running, Exporting
  <1>3. \A c \in Callers : d = c => op[c].pc = "reply"
    BY DEF ConnectInv, APIInv, Called
  <1>4. NotAgain'
    BY <1>3 DEF NotAgain
  <1>5. QED
    BY <1>2, <1>4

(* A client asks to connect, disconnect or dump the state. *)
LEMMA RequestsConnect ==
  ASSUME ConnectInv, \/ \E c \in Callers : DaemonRequest(c)
                     \/ \E name \in Methods : DaemonOtherRequest(name)
  PROVE  Running' /\ NotAgain'
  <1>0. Called
    BY DEF ConnectInv, APIInv
  <1>1. ASSUME NEW c \in Callers, DaemonRequest(c) PROVE Running' /\ NotAgain'
    <2>1. /\ lpc = "select" /\ meth[c].pc = "send" /\ meth' = [meth EXCEPT ![c].pc = "wait"]
          /\ Handle(RequestUpdates(meth[c].name), c)
          /\ UNCHANGED <<props, spc, upd, sdone, op>>
          /\ by' = IF meth[c].name = "Connect" /\ st.OCRunning # "Running" THEN c ELSE by
      BY <1>1 DEF DaemonRequest, RecvRequest
    <2>2. meth[c] # NoMethod /\ meth[c].name \in Methods
      BY <1>0, <2>1 DEF Called, MethodStates, NoMethod
    <2>3. meth'[c].pc = "wait" /\ \A q \in Callers : q # c => meth'[q] = meth[q]
      BY <1>0, <2>1, MethodsMoveSteps
    <2>4. CASE meth[c].name = "Connect" /\ st.OCRunning # "Running"
      <3>1. Handle(ConnectUpdates, c) /\ by' = c
        BY <2>1, <2>4 DEF RequestUpdates
      <3>2. QED
        BY <2>1, <2>2, <2>3, <2>4, <3>1, ConnectBegins
    <2>5. CASE ~(meth[c].name = "Connect" /\ st.OCRunning # "Running")
      <3>1. Harmless(RequestUpdates(meth[c].name)) /\ by' = by
        BY <2>1, <2>2, <2>5, HarmlessHandlers DEF RequestUpdates, Methods
      <3>2. QED
        BY <2>1, <2>3, <3>1, HarmlessBegins
    <2>6. QED
      BY <2>4, <2>5
  <1>2. ASSUME NEW name \in Methods, DaemonOtherRequest(name) PROVE Running' /\ NotAgain'
    <2>1. /\ lpc = "select" /\ Handle(RequestUpdates(name), NoCaller)
          /\ UNCHANGED <<props, spc, upd, sdone, op, meth>>
          /\ by' = IF name = "Connect" /\ st.OCRunning # "Running" THEN NoCaller ELSE by
      BY <1>2 DEF DaemonOtherRequest, OtherRequest, Event
    <2>2. CASE name = "Connect" /\ st.OCRunning # "Running"
      <3>1. Handle(ConnectUpdates, NoCaller) /\ by' = NoCaller
        BY <2>1, <2>2 DEF RequestUpdates
      <3>2. QED
        BY <2>1, <2>2, <3>1, ConnectBegins, DBusAPIAssumption
    <2>3. CASE ~(name = "Connect" /\ st.OCRunning # "Running")
      <3>1. Harmless(RequestUpdates(name)) /\ by' = by
        BY <2>1, <2>3, HarmlessHandlers DEF RequestUpdates, Methods
      <3>2. QED
        BY <2>1, <3>1, HarmlessBegins
    <2>4. QED
      BY <2>2, <2>3
  <1>3. QED
    BY <1>1, <1>2

(* The other events begin a handler. *)
LEMMA EventsConnect ==
  ASSUME ConnectInv, ScriptConnect \/ RunnerExit \/ \E t \in Trusts : TNDResult(t),
         UNCHANGED <<op, by>>
  PROVE  Running' /\ NotAgain'
  <1>1. CASE ScriptConnect
    <2> DEFINE us == SetStatus(st, "VPNConfig", "Set") \o SetStatus(st, "ConnectionState", "Connected")
    <2>1. /\ lpc = "select" /\ Handle(us, NoCaller) /\ UNCHANGED <<props, spc, upd, sdone, meth>>
          /\ st.OCRunning = "Running"
      BY <1>1 DEF ScriptConnect, Event
    <2>2. Harmless(us)
      BY <2>1, HarmlessHandlers
    <2> HIDE DEF us
    <2>3. QED
      BY <2>1, <2>2, HarmlessBegins
  <1>2. CASE RunnerExit
    <2>1. lpc' = "handle"
      BY <1>2 DEF RunnerExit, Event, Handle
    <2>2. QED
      BY <1>2, <2>1, RunnerExitHandled DEF Running, NotAgain
  <1>3. CASE \E t \in Trusts : TNDResult(t)
    <2>1. PICK t \in Trusts : TNDResult(t)
      BY <1>3
    <2> DEFINE us == SetStatus(st, "TrustedNetwork", t)
                     \o IF t = "Trusted" THEN DisconnectUpdates ELSE <<>>
    <2>2. /\ lpc = "select" /\ Handle(us, NoCaller) /\ UNCHANGED <<props, spc, upd, sdone, meth>>
      BY <2>1 DEF TNDResult, Event
    <2>3. Harmless(us)
      BY HarmlessHandlers
    <2> HIDE DEF us
    <2>4. QED
      BY <2>2, <2>3, HarmlessBegins
  <1>4. QED
    BY <1>1, <1>2, <1>3

(* Steps that leave the status and its export alone, and give no client a  *)
(* reason to connect: what they do with methods, they do to clients whose  *)
(* request is not the one openconnect was started for, or that have the    *)
(* status exported already.                                                *)
LEMMA KeepsConnect ==
  ASSUME ConnectInv,
         UNCHANGED <<st, by, sdone>>,
         lpc' \in {"start", "down"} => lpc \in {"start", "down"},
         st.OCRunning = "Running" /\ ~sdone => (Exported => Exported') /\ (Exporting => Exporting' \/ Exported'),
         \A c \in Callers :
           st.OCRunning = "Running" /\ ~sdone /\ by = c =>
             /\ op'[c].pc = "Connect" => op[c].pc = "Connect"
             /\ meth'[c].pc = "send" /\ meth'[c].name = "Connect" =>
                  meth[c].pc = "send" /\ meth[c].name = "Connect"
             /\ meth[c].pc = "wait" => Exported' \/ meth'[c].pc = "wait"
  PROVE  Running' /\ NotAgain'
  <1>1. Running'
    BY DEF ConnectInv, Running
  <1>2. NotAgain'
    <2> SUFFICES ASSUME st'.OCRunning = "Running", ~sdone', NEW c \in Callers, by' = c
                 PROVE  /\ op'[c].pc # "Connect"
                        /\ meth'[c].pc # "send" \/ meth'[c].name # "Connect"
                        /\ Exported' \/ meth'[c].pc = "wait"
      BY DEF NotAgain
    <2>1. /\ op[c].pc # "Connect"
          /\ meth[c].pc # "send" \/ meth[c].name # "Connect"
          /\ Exported \/ meth[c].pc = "wait"
      BY DEF ConnectInv, NotAgain
    <2>2. QED
      BY <2>1
  <1>3. QED
    BY <1>1, <1>2

(* Handlers end, and properties are set. *)
LEMMA DaemonConnect ==
  ASSUME ConnectInv, UNCHANGED <<op, by>>,
         HandlerEnd \/ StartEnd \/ Stop \/ StopEnd \/ SetProperty \/ RecvDone \/ Crash
  PROVE  Running' /\ NotAgain'
  <1>0. Running /\ NotAgain /\ Places /\ Properties /\ Called
    BY DEF ConnectInv, APIInv
  <1>1. CASE HandlerEnd
    <2>1. /\ todo = <<>> /\ lpc' = "select"
          /\ UNCHANGED <<st, todo, props, spc, upd, sdone>>
          /\ meth' = [c \in Callers |-> IF c = req /\ meth[c].pc = "wait"
                                         THEN [meth[c] EXCEPT !.pc = "handled"]
                                         ELSE meth[c]]
      BY <1>1 DEF HandlerEnd
    <2>2. ~Exporting /\ (Exported => Exported')
      BY <2>1 DEF Exporting, Exported
    <2>3. st.OCRunning = "Running" /\ ~sdone => Exported
      BY <1>0, <2>2 DEF Running
    <2>4. ASSUME NEW c \in Callers
          PROVE  meth'[c].pc = "send" /\ meth'[c].name = "Connect" =>
                   meth[c].pc = "send" /\ meth[c].name = "Connect"
      <3>1. CASE c = req /\ meth[c].pc = "wait"
        <4>1. meth'[c] = [meth[c] EXCEPT !.pc = "handled"]
          BY <2>1, <3>1
        <4>2. meth[c] # NoMethod
          BY <3>1 DEF NoMethod
        <4>3. meth'[c].pc = "handled"
          BY <1>0, <4>1, <4>2, MethodPlace
        <4>4. QED
          BY <4>3
      <3>2. CASE ~(c = req /\ meth[c].pc = "wait")
        BY <2>1, <3>2
      <3>3. QED
        BY <3>1, <3>2
    <2>5. QED
      BY <2>1, <2>2, <2>3, <2>4, KeepsConnect
  <1>2. CASE StartEnd
    <2>1. /\ lpc = "start" /\ lpc' = "select" /\ st.OCRunning # "Running"
          /\ UNCHANGED <<st, sdone>>
      BY <1>0, <1>2 DEF StartEnd, Running
    <2>2. QED
      BY <1>0, <2>1 DEF Running, NotAgain
  <1>3. CASE Stop
    BY <1>0, <1>3 DEF Stop, Running, NotAgain
  <1>4. CASE StopEnd \/ Crash
    <2>1. st' = InitialProps
      BY <1>4 DEF StopEnd, Crash
    <2>2. DOMAIN (st') = PropNames /\ st'["OCRunning"] = "Unknown" /\ st'["ConnectionState"] = "Unknown"
      BY <2>1, PropFacts DEF InitialProps
    <2>3. QED
      BY <2>2 DEF Running, NotAgain
  <1>5. CASE SetProperty
    <2>1. /\ todo # <<>> /\ spc = "select" /\ upd' = Head(todo) /\ todo' = Tail(todo) /\ spc' = "set"
          /\ UNCHANGED <<st, lpc, req, props, sdone, meth>>
      BY <1>5 DEF SetProperty
    <2>2. /\ todo \in Seq(Update) /\ Len(todo) \in Nat /\ Len(todo') = Len(todo) - 1
          /\ 1 \in 1 .. Len(todo) /\ upd' = todo[1]
          /\ \A i \in 1 .. Len(todo') : i + 1 \in 1 .. Len(todo) /\ todo'[i] = todo[i + 1]
      BY <1>0, <2>1 DEF Properties
    <2>3. Exported => Exported'
      BY <2>1, <2>2 DEF Exported
    <2>4. ASSUME Exporting PROVE Exporting'
      <3>1. /\ lpc = "handle" /\ req = by /\ Len(todo) = 2 /\ todo[1] = Prop("OCRunning", "Running")
            /\ todo[2].name # "OCRunning"
        BY <2>1, <2>4 DEF Exporting
      <3>2. Len(todo') = 1 /\ todo'[1] = todo[2]
        BY <2>2, <3>1
      <3>3. \A i \in 1 .. Len(todo') : todo'[i].name # "OCRunning"
        BY <3>1, <3>2
      <3>4. todo' # <<>> /\ upd' = Prop("OCRunning", "Running")
        <4>1. upd' = Prop("OCRunning", "Running")
          BY <2>2, <3>1
        <4>2. todo' # <<>>
          BY <3>2
        <4>3. QED
          BY <4>1, <4>2
      <3>5. QED
        BY <2>1, <3>1, <3>3, <3>4 DEF Exporting, Prop
    <2>5. QED
      BY <2>1, <2>3, <2>4, KeepsConnect
  <1>6. CASE RecvDone
    BY <1>0, <1>6 DEF RecvDone, Running, NotAgain
  <1>7. QED
    BY <1>1, <1>2, <1>3, <1>4, <1>5, <1>6

(* The service sets a property: at the end of the first update of the      *)
(* handler of a connect request, the status is exported.                   *)
LEMMA ServiceSetConnect ==
  ASSUME ConnectInv, ServiceSet
  PROVE  Running' /\ NotAgain'
  <1>0. Running /\ NotAgain /\ Places /\ Properties
    BY DEF ConnectInv, APIInv
  <1>1. PICK n \in PropNames : \E v \in Values(n) : SetInitial(n, v) \/ SetUpdate(n, v)
    BY DEF ServiceSet, SetMust
  <1> PICK v \in Values(n) : SetInitial(n, v) \/ SetUpdate(n, v)
    BY <1>1
  <1>2. UNCHANGED <<op, by>>
    BY DEF ServiceSet
  <1>3. CASE SetInitial(n, v)
    <2>1. spc \in {"init", "final"} /\ UNCHANGED <<st, lpc, sdone>>
      BY <1>3 DEF SetInitial
    <2>2. lpc = "start" \/ sdone
      BY <1>0, <2>1 DEF Places
    <2>3. st.OCRunning # "Running" \/ sdone
      BY <1>0, <2>2 DEF Running
    <2>4. QED
      BY <1>0, <2>1, <2>3 DEF Running, NotAgain
  <1>4. CASE SetUpdate(n, v)
    <2>1. /\ spc = "set" /\ upd = Prop(n, v) /\ props' = [props EXCEPT ![n] = v] /\ spc' = "select"
          /\ UNCHANGED <<st, lpc, todo, req, sdone, meth>>
      BY <1>4 DEF SetUpdate
    <2>2. /\ props \in [PropNames -> Vals] /\ "OCRunning" \in PropNames
          /\ upd.name = n /\ upd.value = v
      BY <1>0, <2>1, PropFacts DEF Properties, Prop
    <2>3. Exported => Exported'
      <3> SUFFICES ASSUME Exported PROVE Exported'
        OBVIOUS
      <3>1. n # "OCRunning" /\ props["OCRunning"] = "Running"
            /\ \A i \in 1 .. Len(todo) : todo[i].name # "OCRunning"
        BY <2>1, <2>2 DEF Exported
      <3>2. props'["OCRunning"] = "Running"
        BY <2>1, <2>2, <3>1
      <3>3. QED
        BY <2>1, <3>1, <3>2 DEF Exported
    <2>4. Exporting => Exporting' \/ Exported'
      <3>1. ASSUME todo # <<>>, spc = "set", upd = Prop("OCRunning", "Running"),
                   \A i \in 1 .. Len(todo) : todo[i].name # "OCRunning"
            PROVE  Exported'
        <4>1. n = "OCRunning" /\ v = "Running"
          BY <2>2, <3>1 DEF Prop
        <4>2. props'["OCRunning"] = "Running"
          BY <2>1, <2>2, <4>1
        <4>3. QED
          BY <2>1, <3>1, <4>2 DEF Exported
      <3>2. ASSUME lpc = "handle", req = by, Len(todo) = 2,
                   todo[1] = Prop("OCRunning", "Running"), todo[2].name # "OCRunning"
            PROVE  Exporting'
        BY <1>2, <2>1, <3>2 DEF Exporting, Prop
      <3>3. QED
        BY <3>1, <3>2 DEF Exporting
    <2>5. QED
      BY <1>2, <2>1, <2>3, <2>4, KeepsConnect
  <1>5. QED
    BY <1>3, <1>4

(* The steps of a client: it connects only after a check that shows no     *)
(* running VPN, and cannot check while it waits for a reply.               *)
LEMMA CallersConnect ==
  ASSUME ConnectInv, NEW c \in Callers, CommandSteps(c) \/ Call(c) \/ Reply(c)
  PROVE  Running' /\ NotAgain'
  <1>0. Running /\ NotAgain /\ Called
    BY DEF ConnectInv, APIInv
  <1>1. CASE CommandSteps(c)
    <2>1. /\ CommandMoves(c) /\ op[c].pc # "reply" /\ UNCHANGED <<apiVars, by>>
          /\ op'[c].pc = "Connect" => op[c].pc = "Connect" \/ props.OCRunning # "Running"
      BY <1>0, <1>1, CommandContinues DEF CommandSteps
    <2>2. UNCHANGED <<st, lpc, todo, req, props, spc, upd, sdone, meth, by>>
      BY <2>1 DEF apiVars
    <2>3. meth[c] = NoMethod
      BY <1>0, <2>1 DEF Called
    <2>4. (Exported => Exported') /\ (Exporting => Exporting')
      BY <2>2 DEF Exported, Exporting
    <2>5. ASSUME st.OCRunning = "Running", ~sdone, by = c
          PROVE  op'[c].pc = "Connect" => op[c].pc = "Connect"
      <3>1. Exported
        BY <1>0, <2>3, <2>5 DEF NotAgain, NoMethod
      <3>2. QED
        BY <2>1, <3>1 DEF Exported
    <2>6. \A q \in Callers : q # c => op'[q] = op[q]
      BY <2>1 DEF CommandMoves
    <2>7. QED
      BY <2>2, <2>4, <2>5, <2>6, KeepsConnect
  <1>2. CASE Call(c)
    <2>1. /\ op[c].pc \in Methods /\ CommandMoves(c) /\ op'[c].pc = "reply"
          /\ meth'[c].name = op[c].pc
          /\ \A q \in Callers : q # c => meth'[q] = meth[q]
          /\ UNCHANGED <<st, lpc, todo, req, props, spc, upd, sdone, by>>
      BY <1>0, <1>2, CallMoves
    <2>2. meth[c] = NoMethod
      BY <1>0, <2>1 DEF Called, Methods
    <2>3. (Exported => Exported') /\ (Exporting => Exporting')
      BY <2>1 DEF Exported, Exporting
    <2>4. ASSUME st.OCRunning = "Running", ~sdone, by = c PROVE meth'[c].name # "Connect"
      BY <1>0, <2>1, <2>4 DEF NotAgain
    <2>5. \A q \in Callers : q # c => op'[q] = op[q]
      BY <2>1 DEF CommandMoves
    <2>6. meth[c].pc # "wait"
      BY <2>2 DEF NoMethod
    <2>7. QED
      BY <2>1, <2>3, <2>4, <2>5, <2>6, KeepsConnect
  <1>3. CASE Reply(c)
    <2>1. /\ CommandMoves(c) /\ op'[c].pc \in {"poll", "idle"} /\ meth'[c] = NoMethod
          /\ \A q \in Callers : q # c => meth'[q] = meth[q]
          /\ meth[c].pc \in {"ok", "error"}
          /\ UNCHANGED <<st, lpc, todo, req, props, spc, upd, sdone, by>>
      BY <1>0, <1>3, ReplyMoves
    <2>2. (Exported => Exported') /\ (Exporting => Exporting')
      BY <2>1 DEF Exported, Exporting
    <2>3. \A q \in Callers : q # c => op'[q] = op[q]
      BY <2>1 DEF CommandMoves
    <2>4. meth'[c].pc # "send"
      BY <2>1 DEF NoMethod
    <2>5. QED
      BY <2>1, <2>2, <2>3, <2>4, KeepsConnect
  <1>4. QED
    BY <1>1, <1>2, <1>3

(* Every step keeps the invariant of connect requests. *)
LEMMA ConnectNextInv ==
  ASSUME ConnectInv, [Next]_vars
  PROVE  ConnectInv'
  <1>0. APIInv /\ Running /\ NotAgain /\ Called
    BY DEF ConnectInv, APIInv
  <1>1. APIInv'
    BY <1>0, APINextInv
  <1>2. ASSUME UNCHANGED <<apiVars, op, by>> PROVE Running' /\ NotAgain'
    <2>1. UNCHANGED <<st, lpc, todo, req, props, spc, upd, sdone, meth, op, by>>
      BY <1>2 DEF apiVars
    <2>2. QED
      BY <1>0, <2>1 DEF Running, NotAgain, Exported, Exporting
  <1>3. ASSUME OtherSteps PROVE Running' /\ NotAgain'
    <2>1. CASE \/ \E c \in Callers : DaemonRequest(c)
               \/ \E name \in Methods : DaemonOtherRequest(name)
      BY <2>1, RequestsConnect
    <2>2. ASSUME NEW c \in Callers, MethodStep(c) PROVE Running' /\ NotAgain'
      <3>1. /\ UNCHANGED <<st, lpc, todo, req, props, spc, upd, sdone, op, by>>
            /\ \/ sdone
               \/ meth[c].pc = "handled" /\ meth' = [meth EXCEPT ![c].pc = "ok"]
        BY <2>2 DEF MethodStep, MethodAbort, MethodReturn
      <3>2. CASE sdone
        BY <1>0, <3>1, <3>2 DEF Running, NotAgain
      <3>3. CASE meth[c].pc = "handled" /\ meth' = [meth EXCEPT ![c].pc = "ok"]
        <4>1. meth'[c].pc = "ok" /\ \A q \in Callers : q # c => meth'[q] = meth[q]
          BY <1>0, <3>3, MethodsMoveSteps
        <4>2. (Exported => Exported') /\ (Exporting => Exporting')
          BY <3>1 DEF Exported, Exporting
        <4>3. QED
          BY <3>1, <3>3, <4>1, <4>2, KeepsConnect
      <3>4. QED
        BY <3>1, <3>2, <3>3
    <2>3. CASE DaemonStart
      <3>1. Start /\ by' = NoCaller
        BY <2>3 DEF DaemonStart
      <3>2. QED
        BY <3>1, StartHandled DEF Running, NotAgain
    <2>4. CASE DaemonStep
      <3>1. UNCHANGED <<op, by>>
        BY <2>4 DEF DaemonStep
      <3>2. QED
        BY <2>4, <3>1, EventsConnect, DaemonConnect DEF DaemonStep
    <2>5. CASE ServiceSet
      BY <2>5, ServiceSetConnect
    <2>6. CASE \/ Subscribe \/ SubscribeQuery \/ SubscribeSignal
               \/ \E ok \in BOOLEAN : SubscribeMatch(ok)
      BY <1>2, <2>6 DEF Subscribe, SubscribeQuery, SubscribeMatch, SubscribeSignal
    <2>7. CASE CloseConn \/ CloseDone \/ CloseReturn \/ \E i \in DOMAIN later : DeliverLater(i)
      BY <1>2, <2>7 DEF CloseConn, CloseDone, CloseReturn, DeliverLater
    <2>8. CASE Receive \/ HandlePropertiesChanged \/ UpdatesEnd \/ UNCHANGED vars
      BY <1>2, <2>8 DEF Receive, HandlePropertiesChanged, UpdatesEnd, vars
    <2>9. QED
      BY <1>3, <2>1, <2>2, <2>3, <2>4, <2>5, <2>6, <2>7, <2>8 DEF OtherSteps
  <1>4. ASSUME NEW c \in Callers, CommandSteps(c) \/ Call(c) \/ Reply(c)
        PROVE  Running' /\ NotAgain'
    BY <1>4, CallersConnect
  <1>5. QED
    BY <1>1, <1>3, <1>4, NextSteps DEF ConnectInv

(* In every state in which openconnect runs, this is exported or about to  *)
(* be, and the client that started it neither connects again nor has its   *)
(* reply before (connectVPN, handleDBusRequest, checkStatus).              *)
THEOREM ConnectInvariance == Spec => []ConnectInv
  <1>1. Init => ConnectInv
    <2> SUFFICES ASSUME Init PROVE ConnectInv
      OBVIOUS
    <2>1. st = InitialProps
      BY DEF Init, APIInit
    <2>2. DOMAIN st = PropNames /\ st["OCRunning"] = "Unknown" /\ st["ConnectionState"] = "Unknown"
      BY <2>1, PropFacts DEF InitialProps
    <2>3. QED
      BY <2>2, APIInitInv DEF ConnectInv, Running, NotAgain
  <1>2. ConnectInv /\ [Next]_vars => ConnectInv'
    BY ConnectNextInv
  <1>3. QED
    BY <1>1, <1>2, PTL DEF Spec

(* A connect request the daemon is going to ignore was overtaken by that   *)
(* of another client, never by the client's own: for any number of         *)
(* clients, commands, stops, crashes and restarts (connectVPN,             *)
(* checkStatus, reconnectVPN).                                             *)
THEOREM OvertakenByOthers == Spec => []IgnoredOnlyForOthers
  <1>1. ConnectInv => IgnoredOnlyForOthers
    BY DEF ConnectInv, NotAgain, IgnoredOnlyForOthers
  <1>2. QED
    BY <1>1, ConnectInvariance, PTL

=============================================================================
