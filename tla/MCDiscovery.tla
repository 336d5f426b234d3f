---------------------------- MODULE MCDiscovery -----------------------------
(* Two instances of the component in turn, or a client of the application's. *)
EXTENDS Discovery

CONSTANTS t1, t2

MCInstance == 1..2
MCClient == MCInstance \cup {Application}
MCCarrier == {t1, t2}
MCSymmetry == Permutations(MCCarrier)

\* No property speaks of what follows an access without a defined outcome.  With the
\* system manager, or one that has been, an instance is alone and gets one answer at a time,
\* while the system thread is in the instance's callback; or two are made whose clients do
\* not listen yet.  The application's client is alone.
Answers == {t \in MCCarrier : carrier[t] # Rest}
Unmanaged == manager = "null" /\ \A g \in Instance : component[g].ix = 0
MCFollowed ==
  /\ undefinedBy = {} /\ den # "undefined"
  /\ \/ Unmanaged
     \/ made <= 1 /\ Answers = {}
     \/ made <= 1 /\ Cardinality(Answers) = 1 /\ den \in {"inside", "data"} /\ ~shaken
     \/ \A c \in Client : client[c].thread # "listening"
  /\ client[Application].memory = "none" \/ (made = 0 /\ manager = "null")
=============================================================================
