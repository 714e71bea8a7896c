------------------------------- MODULE Runner -------------------------------
(***************************************************************************)
(* The OpenConnect runner (internal/ocrunner/connect.go): one goroutine    *)
(* that starts, interrupts and reaps the openconnect process and reports   *)
(* its start and its exit on an unbuffered event channel.                  *)
(*                                                                         *)
(* All channels of the runner are unbuffered, so every send is a           *)
(* rendezvous.  The halves the user of the runner takes part in            *)
(* (RecvConnect, RecvDisconnect, EventReceived, CloseDone) are written     *)
(* without the user's half; OCDaemon conjoins them with the daemon's.      *)
(***************************************************************************)
EXTENDS Naturals

CONSTANT MaxSessions  \* bound: number of openconnect processes ever started

ASSUME MaxSessionsAssumption == MaxSessions \in Nat \ {0}

VARIABLES
  rpc,      \* where start() is: in its select, in sendEvent, in handleStop
            \* receiving from exits, or returned
  command,  \* c.command: nil, set with Process = nil (Start failed), or set
  event,    \* the event offered on c.events, meaningful in sendEvent
  waiter,   \* the goroutine that reports an exit: not there, in
            \* command.Wait(), or blocked in c.exits <- struct{}{}
  rdone,    \* c.done is closed
  pid,      \* pid of the last process started (processes are numbered 1, 2...)
  proc,     \* the operating system's view of every openconnect process
  pidFile   \* content of the PID file, 0 when there is none

runnerVars == <<rpc, command, event, waiter, rdone, pid, proc, pidFile>>

Pids == 1 .. MaxSessions

ConnectEvent(p) == [Connect |-> TRUE, PID |-> p]
DisconnectEvent == [Connect |-> FALSE, PID |-> 0]

RunnerTypeOK ==
  /\ rpc \in {"select", "sendEvent", "stopWait", "closed"}
  /\ command \in {"nil", "noProcess", "process"}
  /\ event \in {DisconnectEvent} \cup {ConnectEvent(p) : p \in Pids}
  /\ waiter \in {"none", "wait", "exits"}
  /\ rdone \in BOOLEAN
  /\ pid \in 0 .. MaxSessions
  /\ proc \in [Pids -> {"none", "running", "interrupted", "dead"}]
  /\ pidFile \in 0 .. MaxSessions

RunnerInit ==
  /\ rpc = "select"
  /\ command = "nil"
  /\ event = DisconnectEvent
  /\ waiter = "none"
  /\ rdone = FALSE
  /\ pid = 0
  /\ proc = [p \in Pids |-> "none"]
  /\ pidFile = 0

Alive(p) == proc[p] \in {"running", "interrupted"}

-----------------------------------------------------------------------------
(* handleConnect.  A command that is already set makes it return.  When    *)
(* Start() fails, a goroutine reports an exit and c.command stays set      *)
(* without a Process.  Otherwise the PID file is written (an error there   *)
(* is only logged) and the connect event is offered; the goroutine that    *)
(* waits for the process is started after the event has been taken.        *)

ConnectFails ==
  /\ command' = "noProcess"
  /\ waiter' = "exits"
  /\ UNCHANGED <<rpc, event, rdone, pid, proc, pidFile>>

ConnectStarts ==
  /\ pid < MaxSessions
  /\ pid' = pid + 1
  /\ proc' = [proc EXCEPT ![pid'] = "running"]
  /\ command' = "process"
  /\ pidFile' \in {pidFile, pid'}
  /\ rpc' = "sendEvent"
  /\ event' = ConnectEvent(pid')
  /\ UNCHANGED <<waiter, rdone>>

RecvConnect ==
  /\ rpc = "select"
  /\ IF command # "nil" THEN UNCHANGED runnerVars ELSE ConnectFails \/ ConnectStarts

(* handleDisconnect sends SIGINT to the process of the command, if there   *)
(* is one.  A process that already terminated yields an error that is      *)
(* only logged.                                                            *)
Interrupt(ps) ==
  IF command = "process" /\ ps[pid] = "running"
  THEN [ps EXCEPT ![pid] = "interrupted"]
  ELSE ps

(* A mutated form: the signal is not sent. *)
RecvDisconnectNoSignal ==
  /\ rpc = "select"
  /\ UNCHANGED runnerVars

(* A mutated form: the command is forgotten with the signal. *)
RecvDisconnectForgets ==
  /\ rpc = "select"
  /\ proc' = Interrupt(proc)
  /\ command' = "nil"
  /\ UNCHANGED <<rpc, event, waiter, rdone, pid, pidFile>>

RecvDisconnect ==
  /\ rpc = "select"
  /\ proc' = Interrupt(proc)
  /\ UNCHANGED <<rpc, command, event, waiter, rdone, pid, pidFile>>

(* A mutated form: the exit is not reported. *)
RecvExitSilent ==
  /\ rpc = "select"
  /\ waiter = "exits"
  /\ waiter' = "none"
  /\ command' = "nil"
  /\ UNCHANGED <<rpc, event, rdone, pid, proc, pidFile>>

(* handleOCExit: forget the command, offer the disconnect event. *)
RecvExit ==
  /\ rpc = "select"
  /\ waiter = "exits"
  /\ waiter' = "none"
  /\ command' = "nil"
  /\ rpc' = "sendEvent"
  /\ event' = DisconnectEvent
  /\ UNCHANGED <<rdone, pid, proc, pidFile>>

(* sendEvent returns: back to the select, after a connect event with the   *)
(* waiting goroutine started.                                              *)
EventDone ==
  /\ rpc = "sendEvent"
  /\ rpc' = "select"
  /\ waiter' = IF event.Connect THEN "wait" ELSE waiter
  /\ UNCHANGED <<command, event, rdone, pid, proc, pidFile>>

(* The user received the event. *)
EventReceived == EventDone

(* The user is stopping the runner, the event is dropped. *)
EventAborted ==
  /\ rdone
  /\ EventDone

(* Stop() closes c.done. *)
CloseDone ==
  /\ ~rdone
  /\ rdone' = TRUE
  /\ UNCHANGED <<rpc, command, event, waiter, pid, proc, pidFile>>

(* A mutated form: the runner does not wait for the process. *)
HandleStopNoWait ==
  /\ rpc = "select"
  /\ rdone
  /\ rpc' = "closed"
  /\ proc' = Interrupt(proc)
  /\ UNCHANGED <<command, event, waiter, rdone, pid, pidFile>>

(* handleStop: without a command the runner returns at once, otherwise it  *)
(* interrupts the process and waits for its exit; handleOCExit then finds  *)
(* c.done closed and nobody receiving, so its event is dropped.            *)
HandleStop ==
  /\ rpc = "select"
  /\ rdone
  /\ rpc' = IF command = "nil" THEN "closed" ELSE "stopWait"
  /\ proc' = Interrupt(proc)
  /\ UNCHANGED <<command, event, waiter, rdone, pid, pidFile>>

StopExit ==
  /\ rpc = "stopWait"
  /\ waiter = "exits"
  /\ waiter' = "none"
  /\ command' = "nil"
  /\ event' = DisconnectEvent
  /\ rpc' = "closed"
  /\ UNCHANGED <<rdone, pid, proc, pidFile>>

(* command.Wait() returns and the goroutine blocks on c.exits. *)
WaitReturns ==
  /\ waiter = "wait"
  /\ proc[pid] = "dead"
  /\ waiter' = "exits"
  /\ UNCHANGED <<rpc, command, event, rdone, pid, proc, pidFile>>

(* The operating system: process p terminates. *)
ProcExit(p) ==
  /\ Alive(p)
  /\ proc' = [proc EXCEPT ![p] = "dead"]
  /\ UNCHANGED <<rpc, command, event, waiter, rdone, pid, pidFile>>

-----------------------------------------------------------------------------
(* The runner with the most general user: any command and any stop at any  *)
(* time, events taken at any time.                                         *)

RunnerInternal == RecvExit \/ EventAborted \/ HandleStop \/ StopExit \/ WaitReturns

RunnerUser == RecvConnect \/ RecvDisconnect \/ EventReceived \/ CloseDone

RunnerNext == RunnerInternal \/ RunnerUser \/ \E p \in Pids : ProcExit(p)

RunnerSpec == RunnerInit /\ [][RunnerNext]_runnerVars

-----------------------------------------------------------------------------
(* The runner never loses track of a process: a live openconnect process   *)
(* is the one c.command stands for, so there is at most one and Disconnect *)
(* and Stop reach it (handleConnect, handleOCExit).                        *)
NoProcessLost == \A p \in Pids : Alive(p) => command = "process" /\ p = pid

(* Exactly one party is responsible for reporting the end of the command:  *)
(* a command is set iff its connect event is being offered or a goroutine  *)
(* waits for or reports its exit; never two exits for one command, never   *)
(* a command nobody watches (handleConnect starts the waiting goroutine    *)
(* after the event, handleOCExit clears the command).                      *)
EveryCommandWatched ==
  /\ command # "nil" <=> \/ rpc = "sendEvent" /\ event.Connect
                         \/ waiter # "none"
  /\ rpc = "sendEvent" /\ event.Connect => waiter = "none" /\ command = "process"

(* The exit of a process is reported only after the process is gone: a     *)
(* disconnect event on offer, and a runner that returned from Stop(), mean *)
(* that no openconnect process is left.                                    *)
ReportedMeansGone ==
  (rpc = "sendEvent" /\ ~event.Connect) \/ rpc = "closed"
    => \A p \in Pids : ~Alive(p)

=============================================================================
