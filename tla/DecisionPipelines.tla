--------------------------- MODULE DecisionPipelines ---------------------------
(* The pipelines of the service around a decision about a release: the       *)
(* assessment of an asset (AssessmentExecution), the protection of a file    *)
(* (FileProtection), what is handed out about its outputs (ProofExport), and *)
(* the two pages from which people drive them (ReleaseConsole and            *)
(* RightsGateConsole, each with what it sees of the service), the boundary   *)
(* at which requests are judged and counted (DeploymentBoundary and          *)
(* RuntimeMetrics), the archive of the source tree (ReleasePackage) and the  *)
(* documents an assessment is bound to (ControlDocuments).  A step of one    *)
(* reads nothing that another one changes, so one moves while the others     *)
(* wait in their first state.                                                *)
EXTENDS AssessmentExecution, FileProtection, ProofExport, ReleaseConsole, RightsGateConsole,
        DeploymentBoundary, RuntimeMetrics, ReleasePackage, ControlDocuments

VARIABLE pipeline

(* The first states of the pipelines that wait.                              *)
NoRequest == request = CHOOSE r \in Requests : TRUE
NoFile == document = (CHOOSE d \in Documents : TRUE) /\ job = CHOOSE j \in Jobs : TRUE
NoExport == desk = [r \in CHOOSE s \in Scenarios : TRUE |-> NewRequest]

NoStart == settings = CHOOSE s \in Settings : TRUE
PageVars == <<ConsoleVars, IntakeVars>>
OuterVars == <<BoundaryVars, MetricsVars, PackagingVars, ControlVars>>
PipelinesVars == <<pipeline, vars, FileVars, ExportVars, PageVars, OuterVars>>

PipelinesInit ==
  /\ \/ pipeline = "assessment" /\ NoFile /\ NoExport /\ NoStart
     \/ pipeline = "protection" /\ NoRequest /\ NoExport /\ NoStart
     \/ pipeline = "export" /\ NoRequest /\ NoFile /\ NoStart
     \/ pipeline = "boundary" /\ NoRequest /\ NoFile /\ NoExport
     \/ /\ pipeline \in {"console", "intake", "metrics", "packaging", "controls"}
        /\ NoRequest /\ NoFile /\ NoExport /\ NoStart
  /\ Init /\ FileInit /\ ExportInit /\ ConsoleInit /\ IntakeInit
  /\ BoundaryInit /\ MetricsInit /\ PackagingInit /\ ControlInit

PipelinesNext ==
  \/ /\ pipeline = "assessment" /\ Next
     /\ UNCHANGED <<pipeline, FileVars, ExportVars, PageVars, OuterVars>>
  \/ /\ pipeline = "protection" /\ FileNext
     /\ UNCHANGED <<pipeline, vars, ExportVars, PageVars, OuterVars>>
  \/ /\ pipeline = "export" /\ ExportNext
     /\ UNCHANGED <<pipeline, vars, FileVars, PageVars, OuterVars>>
  \/ /\ pipeline = "console" /\ ConsoleNext
     /\ UNCHANGED <<pipeline, vars, FileVars, ExportVars, IntakeVars, OuterVars>>
  \/ /\ pipeline = "intake" /\ IntakeNext
     /\ UNCHANGED <<pipeline, vars, FileVars, ExportVars, ConsoleVars, OuterVars>>
  \/ /\ pipeline = "boundary" /\ BoundaryNext
     /\ UNCHANGED <<pipeline, vars, FileVars, ExportVars, PageVars, MetricsVars, PackagingVars,
                    ControlVars>>
  \/ /\ pipeline = "metrics" /\ MetricsNext
     /\ UNCHANGED <<pipeline, vars, FileVars, ExportVars, PageVars, BoundaryVars, PackagingVars,
                    ControlVars>>
  \/ /\ pipeline = "packaging" /\ PackagingNext
     /\ UNCHANGED <<pipeline, vars, FileVars, ExportVars, PageVars, BoundaryVars, MetricsVars,
                    ControlVars>>
  \/ /\ pipeline = "controls" /\ ControlNext
     /\ UNCHANGED <<pipeline, vars, FileVars, ExportVars, PageVars, BoundaryVars, MetricsVars,
                    PackagingVars>>

PipelinesSpec == PipelinesInit /\ [][PipelinesNext]_PipelinesVars

-----------------------------------------------------------------------------
(* Every pipeline keeps its state in the shape its handlers expect: the      *)
(* record of an assessment passes validate_assessment before it is stored,   *)
(* the stages of a file follow each other, requests are in a known step.     *)
PipelinesTypeOK ==
  /\ TypeOK /\ FileTypeOK /\ ExportTypeOK
  /\ ConsoleTypeOK /\ IntakeTypeOK
  /\ BoundaryTypeOK /\ MetricsTypeOK /\ PackagingTypeOK /\ ControlTypeOK

(* The documents of an assessment are taken at their word: what is refused   *)
(* is refused for what they say, and what is handed out for a key belongs to *)
(* what they say, however they are listed and typed.                         *)
DocumentsMeanWhatTheySay ==
  /\ pipeline = "assessment" => RefusalsAreForeseen
  /\ pipeline = "controls" => ControlsAreBound

(* What the service or a script has packaged and written, its verifier       *)
(* accepts, and a mixture or an altered archive it does not, and what left   *)
(* is on the ledger a package commits to: for the proof packages of outputs  *)
(* and for the release of the source tree, each asked while it is the one    *)
(* that moves.                                                               *)
VerifiersAcceptWhatWasBuilt ==
  /\ pipeline = "export" => VerifierAcceptsTheExports /\ HandedOutIsAudited
  /\ pipeline = "packaging" => ReleaseIsWhatWasBuilt

(* Startup and middleware let in whom they should and nobody else, and the   *)
(* guard lets out what BoundaryHolds says.                                   *)
BoundaryIsKept == pipeline = "boundary" => BoundaryHolds

(* What the operator reads of those let in adds up, however they ended.      *)
RequestsAreCounted == pipeline = "metrics" => MetricsAddUp

(* Neither page shows a release, a level or a receipt that the service does  *)
(* not stand behind, whatever is pressed, refused or late.                   *)
ConsolesAreTruthful == ConsoleIsTruthful /\ ReceiptIsOfResult
=============================================================================
