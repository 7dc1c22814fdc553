----------------------------- MODULE Decisions ------------------------------
(***************************************************************************)
(* All the questions about the program's pure decisions.                   *)
(***************************************************************************)
EXTENDS ProfileQuestions, GraphQuestions, ReadyQuestions, ScanQuestions, LintQuestions,
  AuditQuestions, RewriteQuestions, GateQuestions, BacklogQuestions

(* Neither the work graph nor a batch of proposals depends on the order in *)
(* which its files or drafts are read.                                     *)
OrderIndependent == GraphOrderIndependent /\ BatchOrderIndependent

(* What a passing check of a whole backlog is worth: linted, every         *)
(* dependency of a completed item is settled; audited, every active task   *)
(* is found by its id.                                                     *)
PassedMeansSettled == LintedMeansSettled /\ AuditedMeansFound

Next == \/ Half(1) /\ (AskProfile \/ AskGraph \/ AskBacklogWide \/ AskStatus \/ AskAboutReadiness)
        \/ Half(2) /\ (AskScan \/ AskLinted \/ AskAudit \/ AskRewrite \/ AskGate)
Spec == Init /\ [][Next]_asked
=============================================================================
