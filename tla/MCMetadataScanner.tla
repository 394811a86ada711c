-------------------------- MODULE MCMetadataScanner --------------------------
(* Constants for checking MetadataScanner: two names of two characters in  *)
(* runs of four.                                                            *)
EXTENDS MetadataScanner

MCNames == <<<<"a", "a">>, <<"a", "b">>>>
=============================================================================
