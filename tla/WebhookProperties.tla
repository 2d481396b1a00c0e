-------------------------- MODULE WebhookProperties --------------------------
(***************************************************************************)
(* What the reconciliation promises the operator of the board.             *)
(***************************************************************************)
EXTENDS Webhook

\* Processes that run one after the other add no webhook beside the ones they
\* find, however they die: a webhook whose creation was never answered is found
\* by the next process.
NoSecondHook ==
  ~met => Cardinality(DOMAIN callback) <= IF Provisioned = {} THEN 1 ELSE Cardinality(Provisioned)

\* While such a process serves, its webhook leads to it (unless somebody removed
\* it by hand): no earlier process comes back to turn or delete it.  The tunnel was
\* up; that its process may have ended since, nobody looks at.
ServedByItsTunnel ==
  ~met => \A g \in Gateways : pc[g] = "serve" /\ hook[g] \notin byHand =>
            hook[g] \in DOMAIN callback /\ callback[hook[g]] = g /\ tunnel[g] \in {"up", "exited"}

\* A webhook with a dead URL is explained: its process was killed or gave up,
\* could not delete it, or did not make it; or the tunnel ended by itself under a
\* process that serves.  In particular the shutdown deletes the webhook before it
\* closes the tunnel.
DeadUrlExplained ==
  \A h \in DOMAIN callback : \A g \in Gateways :
    callback[h] = g /\ ~Leads(g) =>
      \/ pc[g] \in {"crashed", "giveup", "aborted", "leave", "leftover"}
      \/ pc[g] \in {"close", "stopped"} /\ hook[g] = h /\ ~created[g]
      \/ Running(g) /\ stop[g] = "no"

\* Whatever step takes a webhook off the board, somebody removed it by hand, or a
\* process that made it was in its shutdown and is done with its DeleteWebhook,
\* answered or not.  No process deletes a webhook of the operator, or of another
\* process that it only gave its URL.
DeletesOnlyItsOwn ==
  [][\A h \in DOMAIN callback \ DOMAIN callback' :
       \/ h \in byHand'
       \/ \E g \in Gateways : pc[g] = "delete" /\ pc'[g] # "delete" /\ maker[h] = g]_vars

\* No cloudflared is left behind by a process that came to its end by itself.
NoOrphanTunnel ==
  \A g \in Gateways : pc[g] \in {"aborted", "stopped", "leftover"} => tunnel[g] \in {"none", "exited"}

\* A process that is told to stop ends, though the validator may refuse its
\* URL for ever.
SignalEnds == \A g \in Gateways : cancelled[g] ~> pc[g] \in Ended
=============================================================================
