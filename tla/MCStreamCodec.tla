---------------------------- MODULE MCStreamCodec ----------------------------
(***************************************************************************)
(* StreamCodec on small instances, with the letters and sizes of MCCodec.  *)
(***************************************************************************)
EXTENDS MCCodec, StreamCodec

StreamCalls == {"add_block", "compress_payload", "with_content_addressing",
                "set_content_store"}

\* A decode call and a stream share nothing that either changes, so a stream opens
\* when the call is over, and on the same bytes with the same store, or alone.  Only
\* a stream that is alone, with the encoders' store, is interrupted: an interrupted
\* one is not compared, and what an interruption loses is no matter of the store.
Unwatched(s) ==
  \A d \in Decoders : dec[d] = Unstarted \/ (dec[d].status # "reading" /\ SameInput(d, s)')

MCNext ==
  \/ Next /\ OpenStreams = {} /\ UNCHANGED str
  \/ \E s \in Streams :
       \/ Listen(s) /\ UNCHANGED vars /\ Unwatched(s)
       \/ Stream(s) /\ UNCHANGED vars
            /\ (Started # {} \/ str[s].store # "shared" => str'[s].interrupts = 0)

MCStreamSpec == SInit /\ [][MCNext]_streamVars

MCFairSpec == MCStreamSpec /\ StreamFairness
=============================================================================
