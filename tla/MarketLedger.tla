---------------------------- MODULE MarketLedger -----------------------------
(***************************************************************************)
(* What an order book promises to the code that feeds it: at every side    *)
(* and price one resting quantity (zero when nothing rests there), and the *)
(* tape of the trades since the book was last cleared.  There are no maps, *)
(* no levels to create or to erase and no bounded history here; OrderBook  *)
(* implements this specification.                                          *)
(***************************************************************************)
EXTENDS Integers, Sequences

CONSTANTS Price, Quantity, TradeQuantity

VARIABLES
  resting,   \* quantity at each side and price
  tape       \* trades since the last clear, oldest first

vars == <<resting, tape>>

Side == {"BID", "ASK"}

Nothing == [k \in Side \X Price |-> 0]

Init == resting = Nothing /\ tape = << >>

(* A quote fixes the quantity resting at one price; zero takes it away. *)
Rest(s, p, n) ==
  /\ resting' = [resting EXCEPT ![<<s, p>>] = n]
  /\ UNCHANGED tape

ClearOneSide(s) ==
  /\ resting' = [k \in Side \X Price |-> IF k[1] = s THEN 0 ELSE resting[k]]
  /\ UNCHANGED tape

Trade(p, n) ==
  /\ tape' = Append(tape, [price |-> p, quantity |-> n])
  /\ UNCHANGED resting

Clear == resting' = Nothing /\ tape' = << >>

Next ==
  \/ \E s \in Side, p \in Price, n \in Quantity : Rest(s, p, n)
  \/ \E s \in Side : ClearOneSide(s)
  \/ \E p \in Price, n \in TradeQuantity : Trade(p, n)
  \/ Clear

Spec == Init /\ [][Next]_vars
=============================================================================
