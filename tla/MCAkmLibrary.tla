---------------------------- MODULE MCAkmLibrary ----------------------------
(***************************************************************************)
(* TLC instance of AkmLibrary: offsets of which two agree with each other, *)
(* an offset saved by an earlier session, another that other code may      *)
(* leave in the memory of nv, and buffers long enough to be half emptied   *)
(* and to overflow. The library is set up once: close is called by nobody  *)
(* who would open it again.                                                *)
(***************************************************************************)
EXTENDS AkmLibrary

MCOffsets == {2, 4, 10}
MCSaved == {7}

=============================================================================
