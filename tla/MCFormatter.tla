----------------------------- MODULE MCFormatter -----------------------------
(***************************************************************************)
(* The formatter on two blocks of two pages.  The options name the last    *)
(* block, or go one beyond it; the first page, the last and one beyond it, *)
(* or none.                                                                *)
(***************************************************************************)
EXTENDS Formatter

\* Block 2 is addressed as block 0, and page 2 as page 0.
MCBlockRanges == {<<1, 2>>, <<1, 3>>}
MCPageRanges  == {<<0, 1>>, <<1, 3>>, <<2, 1>>}
=============================================================================
