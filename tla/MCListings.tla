----------------------------- MODULE MCListings -----------------------------
(* The four lists that share one handler shape, over two merchants whose    *)
(* names are interchangeable.                                                *)
EXTENDS Listings, TLC

AllLists == {PaymentsPage, PaymentLinksPage, CustomersPage, ApiKeysSection}
Interchangeable == Permutations(Merchants)
=============================================================================
