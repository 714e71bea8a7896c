-------------------------------- MODULE CPD ---------------------------------
(***************************************************************************)
(* Captive portal detection (internal/cpd/cpd.go): one goroutine that      *)
(* starts probes on request and periodically, a goroutine per probe, and   *)
(* the handing over of the probe's report to the user.  The user takes     *)
(* part in ProbeRequested (Probe()), ReportSent (Results()), CPDStart and  *)
(* CloseCPD (Stop()); TrafPol conjoins them with its own half.             *)
(***************************************************************************)

VARIABLES
  cpc,       \* start(): not started, in its select, in handleProbeReport, returned
  running,   \* c.running
  runAgain,  \* c.runAgain
  detected,  \* c.detected
  creport,   \* Detected of the report handleProbeReport is sending
  ppc,       \* the probe goroutine: none, probing, or sending its report
  presult,   \* Detected of the report it sends
  cdone,     \* c.done is closed
  asked      \* history: a probe was requested and none has been started since

cpdVars == <<cpc, running, runAgain, detected, creport, ppc, presult, cdone, asked>>

CPDTypeOK ==
  /\ cpc \in {"nil", "select", "report", "closed"}
  /\ running \in BOOLEAN
  /\ runAgain \in BOOLEAN
  /\ detected \in BOOLEAN
  /\ creport \in BOOLEAN
  /\ ppc \in {"none", "probing", "offer"}
  /\ presult \in BOOLEAN
  /\ cdone \in BOOLEAN
  /\ asked \in BOOLEAN

CPDInit ==
  /\ cpc = "nil"
  /\ running = FALSE
  /\ runAgain = FALSE
  /\ detected = FALSE
  /\ creport = FALSE
  /\ ppc = "none"
  /\ presult = FALSE
  /\ cdone = FALSE
  /\ asked = FALSE

CPDStart ==
  /\ cpc = "nil"
  /\ cpc' = "select"
  /\ UNCHANGED <<running, runAgain, detected, creport, ppc, presult, cdone, asked>>

-----------------------------------------------------------------------------
(* go c.probe(): checks the host until a portal is detected or all checks  *)
(* were made; the outcome of the HTTP requests is arbitrary.               *)
StartProbe == running' = TRUE /\ ppc' = "probing" /\ asked' = FALSE

ProbeResult(r) ==
  /\ ppc = "probing"
  /\ ppc' = "offer"
  /\ presult' = r
  /\ UNCHANGED <<cpc, running, runAgain, detected, creport, cdone, asked>>

ProbeAborted ==
  /\ ppc = "offer"
  /\ cdone
  /\ ppc' = "none"
  /\ presult' = FALSE
  /\ UNCHANGED <<cpc, running, runAgain, detected, creport, cdone, asked>>

-----------------------------------------------------------------------------
(* A mutated form: a request that meets a running probe is dropped. *)
ProbeRequestedOnce ==
  /\ \/ cpc = "select" /\ ~running /\ StartProbe
     \/ cpc = "select" /\ running /\ asked' = TRUE /\ UNCHANGED <<running, ppc>>
     \/ cpc = "report" /\ asked' = TRUE /\ UNCHANGED <<running, ppc>>
  /\ UNCHANGED <<cpc, runAgain, detected, creport, presult, cdone>>

(* handleProbeRequest, and the same request in handleProbeReport. *)
ProbeRequested ==
  /\ \/ cpc = "select" /\ ~running /\ StartProbe /\ UNCHANGED runAgain
     \/ /\ (cpc = "select" /\ running) \/ cpc = "report"
        /\ runAgain' = TRUE
        /\ asked' = TRUE
        /\ UNCHANGED <<running, ppc>>
  /\ UNCHANGED <<cpc, detected, creport, presult, cdone>>

RecvProbeReport ==
  /\ cpc = "select"
  /\ ppc = "offer"
  /\ cpc' = "report"
  /\ creport' = presult
  /\ ppc' = "none"
  /\ presult' = FALSE
  /\ UNCHANGED <<running, runAgain, detected, cdone, asked>>

(* The report is received: handleProbeReport starts the next probe if one  *)
(* was requested meanwhile.                                                *)
ReportSent ==
  /\ cpc = "report"
  /\ runAgain' = FALSE
  /\ IF runAgain THEN StartProbe ELSE running' = FALSE /\ UNCHANGED <<ppc, asked>>
  /\ detected' = creport
  /\ cpc' = "select"
  /\ creport' = FALSE
  /\ UNCHANGED <<presult, cdone>>

ReportAborted ==
  /\ cpc = "report"
  /\ cdone
  /\ cpc' = "select"
  /\ UNCHANGED <<running, runAgain, detected, creport, ppc, presult, cdone, asked>>

(* handleTimer; detected only selects the next period of the timer. *)
CPDTimer ==
  /\ cpc = "select"
  /\ ~running
  /\ ~runAgain
  /\ StartProbe
  /\ UNCHANGED <<cpc, runAgain, detected, creport, presult, cdone>>

CPDReturn ==
  /\ cpc = "select"
  /\ cdone
  /\ cpc' = "closed"
  /\ UNCHANGED <<running, runAgain, detected, creport, ppc, presult, cdone, asked>>

CloseCPD ==
  /\ cdone' = TRUE
  /\ UNCHANGED <<cpc, running, runAgain, detected, creport, ppc, presult, asked>>

(* The steps of the detection itself. *)
CPDInternal ==
  \/ \E r \in BOOLEAN : ProbeResult(r)
  \/ ProbeAborted \/ RecvProbeReport \/ ReportAborted \/ CPDTimer \/ CPDReturn

=============================================================================
