--------------------------- MODULE MCPackageFinance ---------------------------
(***************************************************************************)
(* Payments, refunds and invoices of one package.                          *)
(***************************************************************************)
EXTENDS PackageFinance

MCKinds == {<<"payment", "completed">>, <<"account_credit", "completed">>, <<"refund", "completed">>,
            <<"refund", "late">>}
=============================================================================
