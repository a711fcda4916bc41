------------------------------ MODULE StockBook ------------------------------
(***************************************************************************)
(* What the stock-keeping promises a reader of committed rows: a book per  *)
(* product, which is only ever appended to.  A step enters movements into  *)
(* the books of any set of products at once; each movement starts from the *)
(* balance the one before it left, and the balance shown is the last one   *)
(* and never negative.                                                     *)
(***************************************************************************)
EXTENDS Integers, Sequences

CONSTANTS Product, Opening

VARIABLES ledger, quantityOnHand

bookVars == <<ledger, quantityOnHand>>

InitBook ==
  /\ ledger = [p \in Product |-> <<>>]
  /\ quantityOnHand = [p \in Product |-> Opening[p]]

(* s is t with entries added at its end.                                   *)
Appended(s, t) ==
  Len(s) <= Len(t) /\ \A i \in 1 .. Len(s) : t[i] = s[i]

(* The balance after the first i movements.                                *)
BalanceAfter(p, entries, i) == IF i = 0 THEN Opening[p] ELSE entries[i].quantityAfter

(* The entries added to p's book take its balance from where it was to     *)
(* where it is now, one movement after the other.                          *)
Entered(p) ==
  /\ Appended(ledger[p], ledger'[p])
  /\ \A i \in Len(ledger[p]) + 1 .. Len(ledger'[p]) :
        ledger'[p][i].quantityAfter =
          BalanceAfter(p, ledger'[p], i - 1) + ledger'[p][i].quantityChange
  /\ quantityOnHand'[p] = BalanceAfter(p, ledger'[p], Len(ledger'[p]))
  /\ quantityOnHand'[p] >= 0

Enter ==
  /\ DOMAIN ledger' = Product /\ DOMAIN quantityOnHand' = Product
  /\ \A p \in Product : Entered(p)

BookSpec == InitBook /\ [][Enter]_bookVars
=============================================================================
