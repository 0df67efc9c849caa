------------------------- MODULE MCAccountingReports -------------------------
(* Invoices with tax, payments, and payments of nobody; three entries of which *)
(* one may be reset.                                                          *)
EXTENDS AccountingReports, TLC

\* Bank, receivable, tax, income.
MCTypeOf == (1 :> "asset_cash") @@ (2 :> "asset_receivable") @@ (3 :> "liability_current")
            @@ (4 :> "income")

Line(account, amount, tax) == [account |-> account, amount |-> amount, tax |-> tax]

Payment(partner, dates) ==
    [journal |-> "bank", term |-> 0, partner |-> partner, dates |-> dates,
     lines |-> <<Line(1, 2, ""), Line(2, -2, "")>>]

MCKinds ==
    {[journal |-> "sale", term |-> 1, partner |-> 1, dates |-> {1, 2},
      lines |-> <<Line(2, 3, ""), Line(4, -2, "base"), Line(3, -1, "tax")>>],
     Payment(1, 1..3), Payment(NoPartner, {2})}

\* The balance sheet: assets, and liabilities with the profit and loss report.
Node(type, accounts, types, report, children) ==
    [type |-> type, accounts |-> accounts, types |-> types, report |-> report, children |-> children]
MCSheet == << Node("sum", {}, {}, 0, {2, 3}),
              Node("account_type", {}, {"asset_cash", "asset_receivable"}, 0, {}),
              Node("sum", {}, {}, 0, {4, 5}),
              Node("accounts", {3}, {}, 0, {}),
              Node("account_report", {}, {}, 6, {}),
              Node("account_type", {}, {"income"}, 0, {}) >>
=============================================================================
