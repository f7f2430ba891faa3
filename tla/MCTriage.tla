------------------------------ MODULE MCTriage ------------------------------
(***************************************************************************)
(* The instance of Triage that TLC checks: mails with the usual pair, with *)
(* untitled, mistitled or unreadable attachments, with one name twice and  *)
(* with one attachment only; routings that name a type twice, one name for *)
(* both types, an unknown name or no name at all.                          *)
(***************************************************************************)
EXTENDS Triage

At(name, shows) == [name |-> name, shows |-> shows]
Route(name, type) == [name |-> name, type |-> type]
Listing(type, fields) == [type |-> type, fields |-> fields]

MCMails ==
    {<<At("a", "SI"), At("b", "BL")>>,
     <<At("a", "UNKNOWN"), At("b", "UNKNOWN")>>,
     <<At("a", "UNKNOWN"), At("a", "BL")>>,
     <<At("a", "OTHER"), At("b", "BL")>>,
     <<At("a", "unreadable"), At("b", "BL")>>,
     <<At("a", "SI")>>}

MCRoutings ==
    {<<>>,
     <<Route("a", "SI"), Route("b", "BL")>>,
     <<Route("a", "SI"), Route("a", "BL")>>,
     <<Route("b", "SI"), Route("a", "SI"), Route("b", "BL")>>,
     <<Route("c", "SI"), Route("a", "SI"), Route("b", "BL")>>,
     <<Route("a", "OTHER"), Route("b", "BL")>>}

\* The values of documents that a single call lists.
Ship(value, count) == [shipper |-> value, container_count |-> count]

MCListings ==
    {<<>>,
     <<Listing("SI", Ship("x", "x")), Listing("SI", Ship("x", "x"))>>,
     <<Listing("SI", Ship("x", "x")), Listing("BL", Nothing)>>}
    \cup {<<Listing("SI", Ship("x", "x")), Listing("BL", Ship(v, c))>> :
             v \in {None, Blank, "x2", "y"}, c \in {None, "x", "y"}}

=============================================================================
