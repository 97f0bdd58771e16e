------------------------------- MODULE MCCodec -------------------------------
(***************************************************************************)
(* Codec on small instances.                                               *)
(*                                                                         *)
(* The letters are x and y, and the two TLV bodies are y and x y.  So the  *)
(* body of "no summary, x y" equals that of "summary x, y"; x y shrinks    *)
(* under zstd and y y (summary y, y) does not; both reach the compression  *)
(* threshold and y does not; and any summary on x y makes it too large.    *)
(***************************************************************************)
EXTENDS Codec, TLC

CONSTANTS x, y, blake3

MCLetter == {x, y}
MCStrings(n) == UNION {[1 .. k -> {x, y} \cup 0 .. MaxBlocks - 1] : k \in 0 .. n}
MCBytes == MCStrings(3)
MCTlvBytes == MCStrings(2)
MCHash(b) == <<blake3, b>>
MCHashValue == {blake3} \X MCBytes
MCTlv == {<<y>>, <<x, y>>}
MCZSize(b) == IF b # <<>> /\ b[1] = x THEN 1 ELSE Len(b)

\* Every method of the builder.
AllCalls == {"add_block", "add_annotation", "with_summary", "with_priority", "with_compression",
             "with_content_addressing", "compress_blocks", "compress_payload",
             "set_content_store", "auto_dedup"}

PayloadCalls == {"add_block", "compress_payload"}
PriorityCalls == {"add_block", "with_priority"}
-----------------------------------------------------------------------------
(* One encoder, all its methods, and calls that return.                    *)

\* Payloads of blocks without summaries, not compressed on their own.
IsBare(p) ==
  /\ ~p.by.compressAll /\ ~p.by.autoDedup
  /\ \A i \in DOMAIN p.message :
       /\ p.message[i].summary = NoSummary /\ p.message[i].type # ANNOTATION
       /\ ~p.items[i].compressed

\* Only these are damaged on their way, or read without the encoders' store.
Sheltered ==
  \A d \in Started :
    IsBare(dec[d].sent) \/ (dec[d].wire.intact /\ dec[d].store = "shared")

FeaturesSpec == Init /\ [][Next /\ Sheltered']_vars /\ Fairness
-----------------------------------------------------------------------------
(* Producers that deduplicate: several that race on the store, or one that *)
(* calls encode() again after it has failed on a block that is too large.  *)

SharingCalls == {"add_block", "with_summary", "with_content_addressing",
                 "set_content_store", "auto_dedup"}

\* Each encodes once; blocks of one type, without summaries.
Together ==
  /\ \A e \in Encoders :
       encodes'[e] <= 1 /\ (encodes[e] = 1 => UNCHANGED <<blocks[e], opts[e]>>)
  /\ \E type \in ContentType : \A e \in Encoders : \A i \in DOMAIN blocks'[e] :
       blocks'[e][i].block.type = type /\ ~HasSummary(blocks'[e][i].block)

Untouched(e) == blocks[e] = <<>> /\ ~opts[e].hasStore /\ ~opts[e].autoDedup

\* One does everything but address blocks by hand.
Alone ==
  \E e \in Encoders :
    /\ \A other \in Encoders \ {e} : Untouched(other)
    /\ \A i \in DOMAIN blocks[e] : ~blocks[e][i].address

SharingSpec == Init /\ [][Next /\ (Together \/ Alone')]_vars

EncoderSymmetry == Permutations(Encoders)
=============================================================================
