---------------------------- MODULE VendorFrames ----------------------------
(***************************************************************************)
(* What the vendors' messages decode to                                    *)
(* (crates/protocols/market-data/src/coinbase.rs, databento.rs, alpaca.rs: *)
(* decode_stream, decode_snapshot and decode_book_snapshot), as far as the *)
(* feed relies on it: which messages make a record or a book, and which    *)
(* sequence each takes.  n is the venue's number of the event.  Prices and *)
(* JSON are left out; a message that does not decode is dropped.           *)
(***************************************************************************)
EXTENDS MarketData

\* The answer to a snapshot request: a record and the book events behind it.
Snapshots(seq, levels) ==
  [record |-> Record("Snapshot", seq), books |-> <<BookSnapshot(seq, levels)>>]

-----------------------------------------------------------------------------
(* Coinbase.                                                               *)

\* A match, or the last_match the matches channel opens with; l2update has no sequence
\* of its own.
CoinbaseTrade(n) == Record("Trade", n)
CoinbaseChange(level, qty) == BookDelta(NoSeq, level, qty)

\* The book the level2 channel opens with names no sequence: it takes 1.
CoinbaseOpening(levels) == BookSnapshot(1, levels)

CoinbaseAnswer(n, levels) == Snapshots(n, levels)

-----------------------------------------------------------------------------
(* Databento, the mbp-10 schema.                                           *)

DatabentoChange(n, level, qty) == BookDelta(n, level, qty)

DatabentoAnswer(n, levels) == Snapshots(n, levels)

-----------------------------------------------------------------------------
(* Alpaca.                                                                 *)

AlpacaTrade(n) == Record("Trade", n)

\* A quote has no number: it takes the receiver's clock.
AlpacaQuote(clock) == Record("Bbo", clock)

\* The stocks path has no book: an empty one.
AlpacaAnswer(n) == Snapshots(n, NoLevels)
=============================================================================
