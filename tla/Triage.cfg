\* Every classification, routing and extraction of six mails, in both modes.
SPECIFICATION Spec
CONSTANTS
    Fields = {"shipper", "container_count"}
    Mails <- MCMails
    Routings <- MCRoutings
    Listings <- MCListings
INVARIANTS
    TypeOK
    ComparedAsRouted
