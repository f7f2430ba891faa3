---------------------------- MODULE MCGmailSync -----------------------------
(***************************************************************************)
(* Instances of GmailSync for TLC.                                         *)
(***************************************************************************)
EXTENDS GmailSync

\* A newer message too large keeps older ones waiting; an older one nobody.
NewestTooLarge == {NumMessages}

=============================================================================
