---------------------------- MODULE MCQuoteStore ----------------------------
(***************************************************************************)
(* Small instances of QuoteStore: a cell that shows one symbol and a table *)
(* that shows it and another.  MaxFetch bounds the seed requests.          *)
(***************************************************************************)
EXTENDS QuoteStore

CONSTANTS c1, c2, a, b

CellAndTable == (c1 :> {{a}}) @@ (c2 :> {{a, b}})
=============================================================================
