-------------------------- MODULE MCOfferDocuments --------------------------
(***************************************************************************)
(* A small instance of OfferDocuments: handlers h1 and h2 on one document. *)
(***************************************************************************)
EXTENDS OfferDocuments

CONSTANTS h1, h2
=============================================================================
