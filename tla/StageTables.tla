---------------------------- MODULE StageTables ----------------------------
(***************************************************************************)
(* The stages of a category workflow and what may be done in each: the     *)
(* tables the API answers with as available_actions.                       *)
(***************************************************************************)

Categories == {"SI_REQUEST", "INVOICE_QUERY", "GENERAL", "SPAM", "BL_COMPARISON"}

\* Where the workflow of a case starts.  No artifact exists at that time.
DefaultStage(category) ==
    CASE category = "SI_REQUEST" -> "PENDING_GENERATION"
      [] category = "SPAM" -> "FLAGGED"
      [] OTHER -> "RECEIVED"

\* The stage an action leads to.
ResultStage ==
    [generate_si |-> "GENERATED", verify_si |-> "VERIFIED", approve_si |-> "APPROVED",
     return_si |-> "RETURNED", route |-> "ROUTED", draft_response |-> "DRAFT_PREPARED",
     complete |-> "COMPLETED", block_sender |-> "BLOCKED", not_spam |-> "NOT_SPAM"]

CaseActions ==
    {"generate_si", "verify_si", "approve_si", "return_si", "route", "draft_response",
     "complete", "block_sender", "not_spam"}

Stages == {"PENDING_GENERATION", "RECEIVED", "FLAGGED", "GENERATED", "VERIFIED", "APPROVED",
           "RETURNED", "ROUTED", "DRAFT_PREPARED", "COMPLETED", "BLOCKED", "NOT_SPAM"}

RequestActions(stage) ==
    CASE stage = "GENERATED" -> {"verify_si", "approve_si"}
      [] stage = "VERIFIED" -> {"verify_si", "approve_si"}
      [] stage = "APPROVED" -> {"return_si", "verify_si"}
      [] stage = "RETURNED" -> {}
      [] OTHER -> {"generate_si"}

\* An invoice query is routed to Finance, a general one to Customer Service.
InquiryActions(stage) ==
    CASE stage = "RECEIVED" -> {"route", "draft_response"}
      [] stage \in {"ROUTED", "DRAFT_PREPARED"} -> {"draft_response", "complete"}
      [] stage = "COMPLETED" -> {}
      [] OTHER -> {"route"}

\* The actions offered; those of a comparison belong to DraftDelivery and FieldReview.
AvailableActions(category, stage, blocked) ==
    CASE category = "SI_REQUEST" -> RequestActions(stage)
      [] category \in {"INVOICE_QUERY", "GENERAL"} -> InquiryActions(stage)
      [] category = "SPAM" -> IF blocked THEN {"not_spam"} ELSE {"block_sender", "not_spam"}
      [] OTHER -> {}

=============================================================================
