--------------------------- MODULE AccountHistory ---------------------------
(***************************************************************************)
(* The history page of an account (src/frontend/src/components/accounts/   *)
(* account-history-view.tsx): the raw deals of the terminal for a period,  *)
(* paired into closed positions, and the sync that loads them again.       *)
(***************************************************************************)
EXTENDS Integers, FiniteSets, SequencesExt

CONSTANTS
  Periods,     \* days to look back
  Since,       \* the time from which a period has deals
  Deals,       \* deals: position, type, entry, time, net (profit, commission and swap)
  MaxDeals,    \* bound: deals of the terminal
  MaxHvLoads   \* bound: requests under way

ASSUME HistoryAssumption ==
  Deals \subseteq [pos : Nat, type : 0 .. 2, entry : 0 .. 2, time : Nat, net : Int]

VARIABLES
  hvDeals,  \* the deals of the terminal
  hv,       \* the page: period, deals shown, flags
  hvLoads,  \* the periods of the requests under way
  hvSync    \* the sync: its stage, and the period of the click
hvVars == <<hvDeals, hv, hvLoads, hvSync>>

NoHvSync == [stage |-> "none", days |-> 0]

HvInit ==
  /\ hvDeals \in BoundedSeq(Deals, MaxDeals)
  /\ hvSync = NoHvSync
  /\ \E d \in Periods :
    /\ hvLoads = {d}
    /\ hv = [days |-> d, deals |-> <<>>, of |-> 0, loading |-> TRUE, error |-> FALSE, overlap |-> FALSE]

-----------------------------------------------------------------------------
(* Loading *)

AskedDays(d) == {d}

\* Another period: the effect loads, and cancels nothing.
SelectDays(d) ==
  /\ d # hv.days /\ d \notin hvLoads /\ Cardinality(hvLoads) < MaxHvLoads
  /\ hv' = [hv EXCEPT !.days = d, !.loading = TRUE, !.error = FALSE,
                      !.overlap = hvLoads # {} \/ hvSync # NoHvSync]
  /\ hvLoads' = hvLoads \cup AskedDays(d)
  /\ UNCHANGED <<hvDeals, hvSync>>

HistoryOf(d) == SelectSeq(hvDeals, LAMBDA x : x.time >= Since[d])
Got(d, ok) ==
  [hv EXCEPT !.deals = IF ok THEN HistoryOf(d) ELSE @, !.of = IF ok THEN d ELSE @,
             !.error = IF ok THEN @ ELSE TRUE, !.loading = FALSE]

HistoryArrives(d, ok) ==
  /\ d \in hvLoads
  /\ hv' = Got(d, ok) /\ hvLoads' = hvLoads \ {d}
  /\ UNCHANGED <<hvDeals, hvSync>>

-----------------------------------------------------------------------------
(* Synchronising *)

SyncHistory ==
  /\ hvSync = NoHvSync /\ ~hv.loading
  /\ hvSync' = [stage |-> "sync", days |-> hv.days]
  /\ UNCHANGED <<hvDeals, hv, hvLoads>>

\* The deals are loaded again, for the period of the click.
Synced(ok) == IF ok THEN [hvSync EXCEPT !.stage = "load"] ELSE NoHvSync

HistorySynced(ok) ==
  /\ hvSync.stage = "sync"
  /\ hvSync' = Synced(ok)
  /\ hv' = IF hvSync'.stage = "load" THEN [hv EXCEPT !.loading = TRUE, !.error = FALSE] ELSE hv
  /\ UNCHANGED <<hvDeals, hvLoads>>

SyncedDealsArrive(ok) ==
  /\ hvSync.stage = "load"
  /\ hv' = Got(hvSync.days, ok) /\ hvSync' = NoHvSync
  /\ UNCHANGED <<hvDeals, hvLoads>>

-----------------------------------------------------------------------------
(* pairDeals: one row for every closed position *)

IsTrade(d) == d.type \in {0, 1}
IsOut(d) == d.entry \in {1, 2}
DealsOf(p) == SelectSeq(hv.deals, LAMBDA d : IsTrade(d) /\ d.pos = p)
NetOf(ds) == FoldSeq(LAMBDA d, n : n + d.net, 0, ds)

\* Profit, commission and swap of all deals of the position.
RowNet(ds) == NetOf(ds)

\* The first opening deal, or the first deal when none is in the period.
Anchor(ds) ==
  LET ins == SelectSeq(ds, LAMBDA d : d.entry = 0)
  IN IF ins = <<>> THEN Head(ds) ELSE Head(ins)
\* The latest closing deal, the first of those of the same time.
LastOut(ds) ==
  FoldLeft(LAMBDA best, d : IF d.time > best.time THEN d ELSE best,
           Head(SelectSeq(ds, IsOut)), SelectSeq(ds, IsOut))

PairOf(p) ==
  LET ds == DealsOf(p)
  IN [pos |-> p, direction |-> IF Anchor(ds).type = 0 THEN "BUY" ELSE "SELL",
      opened |-> IF Anchor(ds).entry = 0 THEN Anchor(ds).time
                 ELSE FoldLeft(LAMBDA t, d : IF d.time < t THEN d.time ELSE t, Head(ds).time, ds),
      closed |-> LastOut(ds).time, net |-> RowNet(ds)]

ClosedPositions == {p \in {d.pos : d \in Deals} : SelectSeq(DealsOf(p), IsOut) # <<>>}
FirstDeal(p) == SelectInSeq(hv.deals, LAMBDA d : IsTrade(d) /\ d.pos = p)

\* Latest first; positions closed at the same time in the order of their deals.
PairedTrades ==
  SetToSortSeq({PairOf(p) : p \in ClosedPositions},
               LAMBDA a, b : a.closed > b.closed \/ (a.closed = b.closed /\ FirstDeal(a.pos) < FirstDeal(b.pos)))

\* The table, and how many trades it counts.
HistoryShows ==
  [rows |-> PairedTrades, count |-> Len(PairedTrades),
   says |-> IF PairedTrades = <<>> /\ ~hv.loading THEN "No history found" ELSE "rows"]

-----------------------------------------------------------------------------
HvNext ==
  \/ \E d \in Periods : SelectDays(d)
  \/ SyncHistory
  \/ \E ok \in BOOLEAN :
       HistorySynced(ok) \/ SyncedDealsArrive(ok) \/ \E d \in hvLoads : HistoryArrives(d, ok)
HvSpec == HvInit /\ [][HvNext]_hvVars

-----------------------------------------------------------------------------
\* The deals shown are of the selected period once all requests are answered,
\* unless the period was changed while one was under way, or one failed.
HistoryIsOfPeriod ==
  hvLoads = {} /\ hvSync = NoHvSync /\ ~hv.overlap /\ ~hv.error => hv.of = hv.days

\* The table has every position once that has a closing deal, newest first,
\* and its rows add up to the results of all deals of those positions.
PairsAddUp ==
  /\ {PairedTrades[i].pos : i \in 1 .. Len(PairedTrades)} = ClosedPositions
  /\ Len(PairedTrades) = Cardinality(ClosedPositions)
  /\ \A i, j \in 1 .. Len(PairedTrades) : i < j => PairedTrades[i].closed >= PairedTrades[j].closed
  /\ FoldSeq(LAMBDA r, n : n + r.net, 0, PairedTrades)
       = NetOf(SelectSeq(hv.deals, LAMBDA d : IsTrade(d) /\ d.pos \in ClosedPositions))
=============================================================================
