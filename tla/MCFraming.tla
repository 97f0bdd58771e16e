----------------------------- MODULE MCFraming -----------------------------
(***************************************************************************)
(* Framing with digits 0 .. 7 and words 0 .. 127, so bytes and block types *)
(* are 0 .. 15 and END is 15, two bytes of varint as in the code.          *)
(***************************************************************************)
EXTENDS Framing

MCMagic == <<2, 3, 5, 0>>

\* Bodies empty, that look like an END frame, and of two length bytes; types of one and
\* two bytes; flag bytes that continue a damaged type.
MCFrames ==
  {[type |-> 1, flags |-> 0, body |-> <<15, 1, 0, 0>>],
   [type |-> 14, flags |-> 2, body |-> <<>>],
   [type |-> 7, flags |-> 1, body |-> <<8, 8, 8, 9, 15, 0, 1, 0, 0>>]}
=============================================================================
