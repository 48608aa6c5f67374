--------------------------- MODULE DailyLossStop ---------------------------
(***************************************************************************)
(* What the daily loss limit of the bot promises, with nothing of how      *)
(* RiskState keeps it: the day's realised PnL is counted, the first moment *)
(* the count is at or under minus the limit trading stops, and the stop    *)
(* lasts until the next UTC day.  Midnight clears count and stop at once.  *)
(* An operator who resets an account forgives the day, and a restart of    *)
(* the process counts again what the database still holds.                 *)
(***************************************************************************)
EXTENDS Integers

VARIABLES
  day,      \* the UTC day
  ledger,   \* PnL of the trades the database holds for this day
  counted,  \* the PnL the limit is compared with
  limit,    \* the loss, in USDT, that stops the day
  stop      \* trading is stopped until the day ends

vars == <<day, ledger, counted, limit, stop>>

Init == /\ day = 0
        /\ ledger = 0
        /\ counted = 0
        /\ limit \in Nat
        /\ stop = FALSE

\* Midnight: a new day owes nothing to the one before it.
NewDay == /\ day' = day + 1
          /\ ledger' = 0
          /\ counted' = 0
          /\ stop' = FALSE
          /\ UNCHANGED limit

\* A trade is closed: counted, and never a reason to lift the stop.
BookTrade == /\ ledger' \in Int
             /\ counted' = counted + (ledger' - ledger)
             /\ stop' = (stop \/ counted' <= -limit)
             /\ UNCHANGED <<day, limit>>

\* The operator resets an account; some or all of the day's trades may go.
Forgive == /\ counted' = 0
           /\ stop' = FALSE
           /\ ledger' \in Int
           /\ UNCHANGED <<day, limit>>

\* The process restarts and reads the day's trades, or fails to read them.
Reboot == /\ \/ /\ counted' = ledger
                /\ stop' = (ledger <= -limit)
             \/ /\ counted' = 0
                /\ stop' = FALSE
          /\ UNCHANGED <<day, ledger, limit>>

\* The history is deleted, and the count of the day is not.
Purge == /\ ledger' \in Int
         /\ UNCHANGED <<day, counted, limit, stop>>

\* A new limit is compared with the count only when the next trade closes.
SetLimit == /\ limit' \in Nat
            /\ UNCHANGED <<day, ledger, counted, stop>>

Next == NewDay \/ BookTrade \/ Forgive \/ Reboot \/ Purge \/ SetLimit

Spec == Init /\ [][Next]_vars
=============================================================================
