----------------------------- MODULE MCServices -----------------------------
(***************************************************************************)
(* The services beside the life of a position, on small instances.  They    *)
(* share no variable, so each is explored on its own while the others stay  *)
(* in their initial states: interleaving them would add states and no       *)
(* behaviour.  Strategies and gate are explored twice, with one evaluator   *)
(* for the whole time and with two that overlap for less.                   *)
(***************************************************************************)
EXTENDS MCDecisions, PlanSizing, MarketStates, SignalIntake, TradingHalts,
        TachibanaOrders, TachibanaSession, UiSessions

CONSTANT Parts    \* the services to explore

VARIABLE part     \* the one that this behaviour explores

serviceVars == <<part, planVars, marketVars, gateVars, intakeVars, haltVars,
                 orderVars, sessionVars, uiVars>>

ServicesInit ==
    /\ part \in Parts
    /\ PlanInit /\ MarketInit /\ GateInit /\ IntakeInit /\ HaltInit
    /\ OrderInit /\ SessionInit /\ UiInit
    /\ part = "halts" \/ operator["ui"].at = "away"    \* one cast for the others

PlanOnly    == UNCHANGED <<marketVars, gateVars, intakeVars, haltVars, orderVars, sessionVars, uiVars>>
MarketOnly  == UNCHANGED <<planVars, gateVars, intakeVars, haltVars, orderVars, sessionVars, uiVars>>
GateOnly    == UNCHANGED <<planVars, marketVars, intakeVars, haltVars, orderVars, sessionVars, uiVars>>
IntakeOnly  == UNCHANGED <<planVars, marketVars, gateVars, haltVars, orderVars, sessionVars, uiVars>>
HaltsOnly   == UNCHANGED <<planVars, marketVars, gateVars, intakeVars, orderVars, sessionVars, uiVars>>
OrdersOnly  == UNCHANGED <<planVars, marketVars, gateVars, intakeVars, haltVars, sessionVars, uiVars>>
SessionOnly == UNCHANGED <<planVars, marketVars, gateVars, intakeVars, haltVars, orderVars, uiVars>>
UiOnly      == UNCHANGED <<planVars, marketVars, gateVars, intakeVars, haltVars, orderVars, sessionVars>>

ServicesNext ==
    /\ UNCHANGED part
    /\ \/ part = "plan" /\ PlanNext /\ PlanOnly
       \/ part = "market" /\ MarketNext /\ MarketOnly
       \/ part = "gate" /\ Undecided /\ GateNext /\ evaluation'["api"] = Idle /\ GateOnly
       \/ part = "overlap" /\ Undecided /\ GateNext /\ time' < EndTime /\ GateOnly
       \/ part = "intake" /\ IntakeNext /\ IntakeOnly
       \/ part = "halts" /\ HaltNext /\ HaltsOnly
       \/ part = "orders" /\ OrderNext /\ OrdersOnly
       \/ part = "session" /\ SessionNext /\ SessionOnly
       \/ part = "ui" /\ UiNext /\ UiOnly

ServicesSpec == ServicesInit /\ [][ServicesNext]_serviceVars

-----------------------------------------------------------------------------
(* Planning: a product that comes out just below an integer.                *)
MCShort == {<<10000, 57>>, <<100, 57>>}

(* Market states: a calm ticker, and every boundary of the rules around it. *)
Calm == [price |-> 1000, vwap |-> 1000, ma5 |-> 1000, ma20 |-> 1000, bid |-> 999,
         ask |-> 1001, gap |-> None, volume |-> None, atr |-> 1, rsi |-> 50,
         priceAge |-> 0, quoteAge |-> 0]
TrendFeeds ==
    {[Calm EXCEPT !.price = p, !.ma5 = m, !.atr = a] :
        p \in {None, 999, 1000, 1001}, m \in {None, 999, 1001}, a \in {None, 1, 2}}
VolumeFeeds ==
    {[Calm EXCEPT !.price = p, !.volume = v, !.gap = g] :
        p \in {999, 1001}, v \in {29, 200}, g \in {None, -2, 0, 2}}
QuoteFeeds ==
    {[Calm EXCEPT !.price = p, !.bid = b, !.ask = a, !.rsi = r] :
        p \in {None, 1000}, b \in {None, 1002}, a \in {None, 1001, 1005}, r \in {75}}
MCFeeds == [A |-> TrendFeeds \cup VolumeFeeds \cup QuoteFeeds, B |-> {Calm, [Calm EXCEPT !.price = None]}]
MCChanges == {None, -6, 6}

(* Trading halts: two administrators, then one and two settlements.         *)
MCCasts == {{"ui", "api"}, {"api", "poller", "close"}}

MCOperations == [a |-> "order", b |-> "price", d |-> "balance"]
=============================================================================
