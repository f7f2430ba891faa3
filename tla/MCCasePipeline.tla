--------------------------- MODULE MCCasePipeline ---------------------------
(***************************************************************************)
(* Instances of CasePipeline for TLC.                                      *)
(***************************************************************************)
EXTENDS CasePipeline, TLC

CONSTANTS d1, d2

\* Every delivery of the message carries the same two attachments.
SamePayload == {{d1, d2}}

\* A delivery may carry both attachments or only the first.
AlteredPayload == {{d1, d2}, {d1}}

\* One attachment.
OneDocument == {{d1}}

\* Each Telegram upload carries one document.
SingleUploads == {{d1}, {d2}}

\* Handlers of a kind are alike.
HandlerSymmetry == Permutations(Ingestors) \cup Permutations(Workers)

=============================================================================
