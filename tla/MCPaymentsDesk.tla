--------------------------- MODULE MCPaymentsDesk ---------------------------
(***************************************************************************)
(* Instances of PaymentsDesk for TLC: one card, one invoice, one link.     *)
(***************************************************************************)
EXTENDS PaymentsDesk

CONSTANTS bill, link

MCInvoices == {bill}
MCLinks == {link}
MCDue == [x \in {bill, link} |-> IF x = bill THEN 2 ELSE 1]

=============================================================================
