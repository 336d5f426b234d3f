-------------------------- MODULE ReliableDelivery --------------------------
(***************************************************************************)
(* What the reliable layer of the UDP module promises about one message,   *)
(* with no packet, record or timeout in sight.  A message that is sent is  *)
(* either tracked (its sender holds a connection record for it) or         *)
(* untracked (it left as a plain datagram).  It may be delivered to its    *)
(* destination any number of times.  A tracked message is resolved once:   *)
(* acknowledged, which happens only after a delivery, or abandoned.        *)
(***************************************************************************)
CONSTANT Message

VARIABLES outcome, delivered
vars == <<outcome, delivered>>

Outcome == {"unsent", "pending", "untracked", "acknowledged", "abandoned"}

TypeOK == /\ outcome \in [Message -> Outcome]
          /\ delivered \subseteq Message

Init == /\ outcome = [m \in Message |-> "unsent"]
        /\ delivered = {}

Send(m, fate) == /\ outcome[m] = "unsent"
                 /\ outcome' = [outcome EXCEPT ![m] = fate]
                 /\ UNCHANGED delivered

Deliver(m) == /\ outcome[m] # "unsent"
              /\ delivered' = delivered \cup {m}
              /\ UNCHANGED outcome

Acknowledge(m) == /\ outcome[m] = "pending"
                  /\ m \in delivered
                  /\ outcome' = [outcome EXCEPT ![m] = "acknowledged"]
                  /\ UNCHANGED delivered

Abandon(m) == /\ outcome[m] = "pending"
              /\ outcome' = [outcome EXCEPT ![m] = "abandoned"]
              /\ UNCHANGED delivered

Next == \E m \in Message :
          \/ \E fate \in {"pending", "untracked"} : Send(m, fate)
          \/ Deliver(m)
          \/ Acknowledge(m)
          \/ Abandon(m)

Spec == Init /\ [][Next]_vars

\* Nobody is told that a message is resolved, but it always comes to that: the
\* sender's record does not stay for ever.
Fairness == \A m \in Message : WF_vars(Acknowledge(m) \/ Abandon(m))

FairSpec == Spec /\ Fairness
=============================================================================
