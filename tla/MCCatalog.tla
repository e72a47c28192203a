----------------------------- MODULE MCCatalog -----------------------------
(* Catalog for TLC: the cfg gives the constants.                           *)
EXTENDS Catalog
=============================================================================
