----------------------------- MODULE MCListing -----------------------------
(* Three rows, two stamps and pages of one or two rows: a page boundary can  *)
(* fall between two rows of one stamp.                                       *)
EXTENDS Listing, TLC

=============================================================================
