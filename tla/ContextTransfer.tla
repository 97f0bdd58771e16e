--------------------------- MODULE ContextTransfer ---------------------------
(***************************************************************************)
(* What the protocol promises its users, with nothing of its format: a     *)
(* message that was sent is received whole, unchanged and at most once by  *)
(* each receiver, and nothing else is ever received.                       *)
(***************************************************************************)
CONSTANT Receivers

VARIABLES
  sent,   \* the messages that have been sent
  got     \* what each receiver that has received something got

transferVars == <<sent, got>>

Init == sent = {} /\ got = [r \in {} |-> {}]

Send ==
  /\ \E m \in sent' : sent' = sent \cup {m}
  /\ UNCHANGED got

Receive(r) ==
  /\ r \notin DOMAIN got
  /\ \E m \in sent :
       got' = [s \in DOMAIN got \cup {r} |-> IF s = r THEN m ELSE got[s]]
  /\ UNCHANGED sent

Next == Send \/ \E r \in Receivers : Receive(r)

Spec == Init /\ [][Next]_transferVars
=============================================================================
