------------------------------ MODULE MCEntry ------------------------------
(* EntryLifecycle for TLC: two signals of one ticker and one of another.   *)
EXTENDS EntryPromise

Tickers == <<"A", "A", "B">>
OneTicker == <<"A", "A">>
=============================================================================
