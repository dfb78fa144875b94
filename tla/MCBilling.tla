----------------------------- MODULE MCBilling -----------------------------
(* Small instances of Billing for TLC. *)
EXTENDS Billing, TLC

CONSTANTS a1, a2, owner, c1, s1, s2, t1, t2

\* One customer with two mailboxes, so both accounts claim it; one account is
\* also known by its address.
MCAccounts == {a1, a2, owner}
MCSubscriptions == {s1, s2}
MCCustomers == {c1}
MCStampOf == s1 :> a1 @@ s2 :> a2
MCCustomerOf == s1 :> c1 @@ s2 :> c1
MCEmailOf == c1 :> a1
MCReturns == {t1, t2}
MCOneReturn == {t1}

\* One buyer who paid under an address this system does not know.
MCOneAccount == {a1, owner}
MCOneSubscription == {s1}
MCOneStampOf == s1 :> a1
MCOneCustomerOf == s1 :> c1
MCUnknownEmailOf == c1 :> Nobody
===========================================================================
