----------------------------- MODULE MdArchive -----------------------------
(***************************************************************************)
(* The gateway's historical archive of one instrument                      *)
(* (crates/domain/market-data/src/bar.rs, historical.rs, journal.rs) and   *)
(* the requests that page through it (get_bars and get_trades of           *)
(* services/market-data-gateway/src/historical.rs).                        *)
(*                                                                         *)
(* The archive starts with the demo seed (AppState::from_config), whose    *)
(* times are 1, 2, ... ; then the feed's records arrive, numbered from 1   *)
(* by the feed, with the host's clock for a time.  That clock may be set   *)
(* back.  A client reads page after page while records go on arriving.     *)
(***************************************************************************)
EXTENDS Integers, Sequences, FiniteSets, FiniteSetsExt

CONSTANTS
  Durations,    \* intervals aggregated
  Prices, Quantities,
  Seeds,        \* number of trades of the demo seed
  Start,        \* the host's clock when the feed starts
  Asks,         \* what clients page through: bars, trades
  Limit,        \* page size of the clients
  MaxRecords,   \* bound: records of the feed
  MaxClock,     \* bound: the host's clock
  MaxBack       \* bound: times the clock is set back

ASSUME ArchiveAssumption ==
  /\ Durations \subseteq Nat \ {0} /\ Prices \subseteq Int /\ Quantities \subseteq Nat
  /\ {Seeds, Start, MaxRecords, MaxClock, MaxBack} \subseteq Nat
  /\ IsFiniteSet(Durations) /\ Durations # {} /\ IsFiniteSet(Prices) /\ Prices # {}
  /\ Limit \in Nat \ {0} /\ Asks \subseteq {"bars", "trades"}
  /\ \A d \in Durations : Seeds \div d < Start \div d

VARIABLES
  clock,     \* the host's clock
  seq,       \* the feed's last sequence
  archive,   \* [journal, working, store]
  pagers,    \* per kind of request: where its client is, what it has seen, whether
             \* any of it twice, and what there was when it began
  backs      \* times the clock was set back

archiveVars == <<clock, seq, archive, pagers, backs>>

-----------------------------------------------------------------------------
(* Bars.                                                                   *)

NoBar == [openTs |-> -1]

Bucket(d, ts) == (ts \div d) * d

NewBar(bucket, r) ==
  [openTs |-> bucket, open |-> r.price, high |-> r.price, low |-> r.price, close |-> r.price,
   volume |-> r.qty, count |-> 1]

\* Mutant of LateBar: a late print is the bar's last.
LateBarCloses(bar, r) ==
  [bar EXCEPT !.volume = @ + r.qty, !.count = @ + 1, !.close = r.price,
              !.high = Max({@, r.price}), !.low = Min({@, r.price})]

\* OhlcvBar::apply_late: open and close stay.
LateBar(bar, r) ==
  [bar EXCEPT !.volume = @ + r.qty, !.count = @ + 1,
              !.high = Max({@, r.price}), !.low = Min({@, r.price})]

\* OhlcvBar::apply_print
PrintBar(bar, r) == [LateBar(bar, r) EXCEPT !.close = r.price]

\* BarStore::insert
Stored(store, bar) ==
  [t \in DOMAIN store \cup {bar.openTs} |-> IF t = bar.openTs THEN bar ELSE store[t]]

\* BarStore::apply_late, and the bar a late print makes where none is.
LateStored(store, bucket, r) ==
  Stored(store, IF bucket \in DOMAIN store THEN LateBar(store[bucket], r) ELSE NewBar(bucket, r))

Bars(working, store) == [working |-> working, store |-> store]

\* BarAggregator::apply_interval
ApplyInterval(d, bars, r) ==
  LET bucket == Bucket(d, r.ts)
      working == bars.working
  IN  CASE working = NoBar /\ bucket \in DOMAIN bars.store ->
             Bars(NoBar, LateStored(bars.store, bucket, r))
        [] working = NoBar /\ bucket \notin DOMAIN bars.store -> Bars(NewBar(bucket, r), bars.store)
        [] working # NoBar /\ bucket = working.openTs -> Bars(PrintBar(working, r), bars.store)
        [] working # NoBar /\ bucket > working.openTs ->
             Bars(NewBar(bucket, r), Stored(bars.store, working))
        [] working # NoBar /\ bucket < working.openTs ->
             Bars(working, LateStored(bars.store, bucket, r))

\* BarAggregator::close_open, one interval of it.
CloseOpen(bars) ==
  IF bars.working = NoBar THEN bars ELSE Bars(NoBar, Stored(bars.store, bars.working))

-----------------------------------------------------------------------------
(* HistoricalArchive.                                                      *)

NewArchive == [journal |-> <<>>, bars |-> [d \in Durations |-> Bars(NoBar, <<>>)]]

\* ingest: a trade updates the bars of every interval, the rest is kept only.
ArchiveIngest(state, r) ==
  [journal |-> Append(state.journal, r),
   bars |-> IF r.kind # "Trade" THEN state.bars
            ELSE [d \in Durations |-> ApplyInterval(d, state.bars[d], r)]]

\* load_journal
LoadJournal(records) ==
  LET load[n \in 0 .. Len(records)] ==
        IF n = 0 THEN NewArchive ELSE ArchiveIngest(load[n - 1], records[n])
      loaded == load[Len(records)]
  IN  [loaded EXCEPT !.bars = [d \in Durations |-> CloseOpen(@[d])]]

-----------------------------------------------------------------------------
(* Pages.  Of an item a page shows, ts and id are what matters: items are  *)
(* sorted by both, and a cursor is an id.  A cursor of -1 is none.         *)

NoCursor == -1

Item(ts, id) == [ts |-> ts, id |-> id]

Before(x, y) == x.ts < y.ts \/ (x.ts = y.ts /\ x.id < y.id)

LastOf(items) == CHOOSE x \in items : \A y \in items : y = x \/ Before(y, x)

\* What page_bars and page_trades share: of the items past the cursor the first
\* Limit, and the id of the last of them where there are more.
Page(items, cursor) ==
  LET after == {x \in items : cursor = NoCursor \/ x.id > cursor}
      page == {x \in after : Cardinality({y \in after : Before(y, x)}) < Limit}
  IN  [items |-> page, next |-> IF page = after THEN NoCursor ELSE LastOf(page).id]

\* The bars of an interval by their times: those stored, and the working one
\* unless one is stored for its time.
AllBars(bars) ==
  IF bars.working = NoBar \/ bars.working.openTs \in DOMAIN bars.store THEN bars.store
  ELSE Stored(bars.store, bars.working)

BarItems(bars) == {Item(t, t) : t \in DOMAIN AllBars(bars)}

\* Mutant of PageBars: the working bar is left out.
PageBarsStored(bars, cursor) == Page(BarItems(Bars(NoBar, bars.store)), cursor)

\* page_bars
PageBars(bars, cursor) == Page(BarItems(bars), cursor)

\* page_trades: the cursor is a sequence.
TradeItems(journal) ==
  {Item(journal[i].ts, journal[i].seq) : i \in {j \in DOMAIN journal : journal[j].kind = "Trade"}}

PageTrades(journal, cursor) == Page(TradeItems(journal), cursor)

-----------------------------------------------------------------------------
(* Behaviours.                                                             *)

TheRecord(kind, n, ts, price, qty) ==
  [kind |-> kind, seq |-> n, ts |-> ts, price |-> price, qty |-> qty]

\* demo_seed_journal: sequences and times count together.
DemoSeed(price) == [n \in 1 .. Seeds |-> TheRecord("Trade", n, n, price, 1)]

Idle == [open |-> FALSE, cursor |-> NoCursor, seen |-> {}, again |-> FALSE, sought |-> {}]

ArchiveInit ==
  /\ clock = Start /\ seq = 0 /\ backs = 0
  /\ \E price \in Prices : archive = LoadJournal(DemoSeed(price))
  /\ pagers = [k \in Asks |-> Idle]

\* A record of the feed (dispatch_event, spawn_synth).
Feed(kind, price, qty) ==
  /\ seq < MaxRecords /\ seq' = seq + 1
  /\ archive' = ArchiveIngest(archive, TheRecord(kind, seq + 1, clock, price, qty))
  /\ UNCHANGED <<clock, pagers, backs>>

\* The interval a client of bars asks for.
Asked == Min(Durations)

Items(k) == IF k = "bars" THEN BarItems(archive.bars[Asked]) ELSE TradeItems(archive.journal)

\* A request for the next page; the first one has no cursor.
Request(k) ==
  /\ ~pagers[k].open => pagers[k].seen = {}
  /\ LET page == IF k = "bars" THEN PageBars(archive.bars[Asked], pagers[k].cursor)
                 ELSE PageTrades(archive.journal, pagers[k].cursor)
     IN  /\ page.items # {}
         /\ pagers' = [pagers EXCEPT ![k] =
              [open |-> page.next # NoCursor, cursor |-> page.next,
               seen |-> @.seen \cup page.items,
               again |-> @.again \/ @.seen \cap page.items # {},
               sought |-> IF @.open THEN @.sought ELSE Items(k)]]
  /\ UNCHANGED <<clock, seq, archive, backs>>

ClockTicks ==
  clock < MaxClock /\ clock' = clock + 1 /\ UNCHANGED <<seq, archive, pagers, backs>>

\* The host's clock is set back.
SetBack ==
  /\ backs < MaxBack /\ backs' = backs + 1
  /\ clock > Start /\ \E t \in Start .. clock - 1 : clock' = t
  /\ UNCHANGED <<seq, archive, pagers>>

ArchiveNext ==
  \/ \E price \in Prices, qty \in Quantities : Feed("Trade", price, qty)
  \/ Feed("Bbo", Max(Prices), 0)
  \/ \E k \in Asks : Request(k)
  \/ ClockTicks \/ SetBack

ArchiveSpec == ArchiveInit /\ [][ArchiveNext]_archiveVars

-----------------------------------------------------------------------------
(* Properties.                                                             *)

\* Every variable has its type.
ArchiveTypeOK ==
  /\ clock \in Start .. MaxClock /\ seq \in 0 .. MaxRecords /\ backs \in 0 .. MaxBack
  /\ Len(archive.journal) = Seeds + seq
  /\ \A d \in Durations : \A t \in DOMAIN archive.bars[d].store :
       archive.bars[d].store[t].openTs = t /\ t = Bucket(d, t)
  /\ \A k \in Asks : pagers[k].cursor \in Nat \cup {NoCursor}

\* The trades of a journal that fall into a bucket, by their place.
Prints(journal, d, bucket) ==
  {i \in DOMAIN journal : journal[i].kind = "Trade" /\ Bucket(d, journal[i].ts) = bucket}

Buckets(journal, d) ==
  {Bucket(d, journal[i].ts) : i \in {j \in DOMAIN journal : journal[j].kind = "Trade"}}

\* Those of them that came before a print of a later bucket.
Prompt(journal, d, bucket) ==
  {i \in Prints(journal, d, bucket) :
     \A j \in 1 .. i - 1 : journal[j].kind = "Trade" => Bucket(d, journal[j].ts) <= bucket}

\* Their lots, one by one.
LotsAt(journal, places) == UNION {{i} \X (1 .. journal[i].qty) : i \in places}

\* The bar that a bucket's prints make: late ones leave open and close as they are.
Expected(journal, d, bucket) ==
  LET here == Prints(journal, d, bucket)
      prices == {journal[i].price : i \in here}
  IN  [openTs |-> bucket, open |-> journal[Min(here)].price,
       close |-> journal[Max(Prompt(journal, d, bucket) \cup {Min(here)})].price,
       high |-> Max(prices), low |-> Min(prices),
       volume |-> Cardinality(LotsAt(journal, here)), count |-> Cardinality(here)]

\* At every moment, and for every interval, the bars are those of the journal:
\* one for each bucket with a print, open and close of the prints in order, high,
\* low and volume of all, whatever the clock did.
BarsMatchTrades ==
  \A d \in Durations :
    LET bars == archive.bars[d]
    IN  /\ DOMAIN AllBars(bars) = Buckets(archive.journal, d)
        /\ bars.working # NoBar => bars.working.openTs \notin DOMAIN bars.store
        /\ \A t \in DOMAIN AllBars(bars) : AllBars(bars)[t] = Expected(archive.journal, d, t)

\* A client that followed the cursors to the end saw each thing at most once,
\* and everything the archive held when it began.
Followed(k) ==
  /\ ~pagers[k].again
  /\ pagers[k].seen # {} /\ ~pagers[k].open => pagers[k].sought \subseteq pagers[k].seen

\* Bars come complete and once while prints go on arriving.
BarPagesCover == "bars" \in Asks => Followed("bars")

\* "Pass as the next request cursor" (TradeHistoryPage::next_cursor): so do trades.
TradePagesCover == "trades" \in Asks => Followed("trades")
=============================================================================
