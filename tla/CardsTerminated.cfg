SPECIFICATION Spec
CONSTANTS
  None = None
  bill = bill
  link = link
  OpeningBalance = 4
  MaxRequests = 5
  Cards = {c1}
  Purchases = {p1, p2}
  Debits = {p1, p2, k1, k2}
  Amounts = {1, 2}
  Limits = {2}
  Invoices <- MCInvoices
  Links <- MCLinks
  Due <- MCDue
  Sessions = {s1, s2}
  Payments = {k1, k2}
INVARIANT TerminatedForGood
CHECK_DEADLOCK FALSE
