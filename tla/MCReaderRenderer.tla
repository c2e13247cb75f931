-------------------------- MODULE MCReaderRenderer --------------------------
(* A document of a heading and two paragraphs, for TLC. *)
EXTENDS ReaderRenderer

CONSTANTS d1, h1, h2

MCDoc == {d1}
MCHandler == {h1, h2}
MCOutline ==
  [d \in MCDoc |-> <<[chapter |-> 1, heading |-> TRUE, chars |-> 5],
                     [chapter |-> 1, heading |-> FALSE, chars |-> 10],
                     [chapter |-> 1, heading |-> FALSE, chars |-> 10]>>]
=============================================================================
