------------------------------ MODULE MCSwdHosts ------------------------------
(* Constants for checking SwdHosts.  The transport: four words behind an    *)
(* increment that wraps after two, so that a block of two may have to be    *)
(* cut.  The research programmers: pages of two words, words of one bit,    *)
(* files that end inside a page.                                            *)
EXTENDS SwdHosts

CONSTANT b

MCFiles == {<<>>, <<{}, {b}, {}>>}
MCPattern == <<{b}, {}>>
=============================================================================
