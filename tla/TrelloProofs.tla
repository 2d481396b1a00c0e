---------------------------- MODULE TrelloProofs ----------------------------
(***************************************************************************)
(* The gateway and its board at Trello: the life of the webhook, for any   *)
(* number of processes and of webhooks, however they crash and whatever    *)
(* answers are lost; and the routing by lists, for any board and any       *)
(* kanban block.                                                           *)
(***************************************************************************)
EXTENDS WebhookProperties, RoutingProperties, FiniteSetTheorems, TLAPS

-----------------------------------------------------------------------------
(* The inductive invariant of the webhook.                                 *)

\* Of processes that never met at most one runs.
OneRuns == ~met => \A f, g \in Gateways : Running(f) /\ Running(g) => f = g

\* The tunnel is up before the reconciliation begins, and provider.Stop is called
\* on the way out only.
TunnelScope ==
  \A g \in Gateways :
    /\ stop[g] # "no" => pc[g] \in {"cancelled", "giveup", "close", "leave"} \cup Ended
    /\ pc[g] \in {"list", "apply", "wait"} \cup Serving => tunnel[g] \in {"up", "exited"}

\* createdNow says the truth, and only who made the webhook deletes it.
Ownership ==
  \A g \in Gateways :
    /\ created[g] => hook[g] \in DOMAIN maker /\ maker[hook[g]] = g
    /\ pc[g] \in {"delete", "leave"} => created[g]

\* How far a process has come to whose URL a webhook leads.
LedTo ==
  \A h \in DOMAIN callback : \A g \in Gateways :
    callback[h] = g =>
      \/ pc[g] \in {"crashed", "giveup", "aborted", "leave", "leftover"}
      \/ pc[g] \in {"serve", "delete"} /\ hook[g] = h
      \/ pc[g] \in {"close", "stopped"} /\ hook[g] = h /\ ~created[g]

\* Between the list and the request nobody makes a webhook.
ListIsTrue ==
  ~met => \A g \in Gateways : pc[g] = "apply" /\ listed[g] = {} => DOMAIN callback = {}

HooksFinite == IsFiniteSet(DOMAIN callback)

WebhookInv ==
  /\ TypeOK /\ NoOrphanTunnel /\ TunnelScope /\ Ownership /\ LedTo
  /\ OneRuns /\ ListIsTrue /\ ServedByItsTunnel
  /\ HooksFinite /\ NoSecondHook

-----------------------------------------------------------------------------
(* The steps.                                                              *)

\* A step of one process that leaves Trello, its hook and its list alone.
Quiet(g) ==
  \/ Start(g) \/ SpawnTunnel(g) \/ TunnelPrintsUrl(g) \/ TunnelExits(g) \/ TunnelUp(g)
  \/ TunnelFails(g) \/ ValidatorRefuses(g) \/ RequestFails(g) \/ Backoff(g)
  \/ Signal(g) \/ Shutdown(g) \/ StopTunnel(g) \/ Crash(g)

\* A request to Trello.
Request(g) ==
  \/ List(g) \/ (\E h \in Hooks : Update(g, h)) \/ Create(g)
  \/ DeleteGatewayCreatedWebhook(g) \/ DeleteFails(g)

LEMMA Steps ==
  ASSUME Next
  PROVE  \/ \E g \in Gateways : Quiet(g) \/ Request(g)
         \/ \E h \in Hooks : OperatorDeletes(h)
BY DEF Next, Reconcile, Close, Quiet, Request

LEMMA AfterStopIs ==
  /\ DOMAIN AfterStop = {"cancelled", "giveup", "close", "leave"}
  /\ AfterStop["cancelled"] = "aborted" /\ AfterStop["giveup"] = "aborted"
  /\ AfterStop["close"] = "stopped" /\ AfterStop["leave"] = "leftover"
BY DEF AfterStop

\* What a quiet step may do: the process moves on, its tunnel or its flags change.
LEMMA QuietFacts ==
  ASSUME TypeOK, NEW g \in Gateways, Quiet(g)
  PROVE  /\ UNCHANGED <<trelloVars, hook, created, listed>>
         /\ \A f \in Gateways : f # g =>
              pc'[f] = pc[f] /\ tunnel'[f] = tunnel[f] /\ stop'[f] = stop[f] /\ cancelled'[f] = cancelled[f]
         /\ pc' \in [Gateways -> {"down"} \cup Starting \cup Serving \cup Ended]
         /\ tunnel' \in [Gateways -> {"none", "starting", "up", "exited"}]
         /\ stop' \in [Gateways -> {"no", "asked", "killed"}]
         /\ cancelled' \in [Gateways -> BOOLEAN]
         /\ met' \in BOOLEAN
<1>1. CASE Start(g)
  BY <1>1 DEF TypeOK, Start, Goto, trelloVars, Starting
<1>2. CASE SpawnTunnel(g)
  BY <1>2 DEF TypeOK, SpawnTunnel, trelloVars
<1>3. CASE TunnelPrintsUrl(g)
  BY <1>3 DEF TypeOK, TunnelPrintsUrl, trelloVars
<1>4. CASE TunnelExits(g)
  BY <1>4 DEF TypeOK, TunnelExits, trelloVars
<1>5. CASE TunnelUp(g)
  BY <1>5 DEF TypeOK, TunnelUp, Goto, trelloVars, Starting
<1>6. CASE TunnelFails(g)
  BY <1>6 DEF TypeOK, TunnelFails, Goto, trelloVars, Starting, Ended
<1>7. CASE ValidatorRefuses(g)
  BY <1>7 DEF TypeOK, ValidatorRefuses, Goto, trelloVars, Starting
<1>8. CASE RequestFails(g)
  BY <1>8 DEF TypeOK, RequestFails, Goto, trelloVars, Starting
<1>9. CASE Backoff(g)
  BY <1>9 DEF TypeOK, Backoff, Goto, trelloVars, Starting
<1>10. CASE Signal(g)
  BY <1>10 DEF TypeOK, Signal, trelloVars
<1>11. CASE Shutdown(g)
  BY <1>11 DEF TypeOK, Shutdown, Goto, trelloVars, Serving
<1>12. CASE StopTunnel(g)
  <2>1. CASE AskTunnel(g)
    BY <2>1, AfterStopIs DEF TypeOK, AskTunnel, Stopping, trelloVars, Ended
  <2>2. CASE KillTunnel(g)
    BY <2>2 DEF TypeOK, KillTunnel, trelloVars
  <2>3. CASE TunnelStopped(g)
    BY <2>3, AfterStopIs DEF TypeOK, TunnelStopped, Stopping, trelloVars, Ended
  <2> QED
    BY <1>12, <2>1, <2>2, <2>3 DEF StopTunnel
<1>13. CASE Crash(g)
  BY <1>13 DEF TypeOK, Crash, trelloVars, Ended
<1> QED
  BY <1>1, <1>2, <1>3, <1>4, <1>5, <1>6, <1>7, <1>8, <1>9, <1>10, <1>11, <1>12, <1>13 DEF Quiet

\* Where a quiet step leads.
LEMMA QuietMoves ==
  ASSUME TypeOK, NEW g \in Gateways, Quiet(g)
  PROVE  \/ pc'[g] = pc[g]
         \/ pc'[g] \in {"tunnel", "list", "cancelled", "wait"} /\ pc[g] \in {"down", "tunnel", "wait", "apply"}
         \/ pc'[g] \in {"giveup", "aborted"} /\ pc[g] \notin Serving \cup {"down"}
         \/ pc'[g] = "crashed" /\ Running(g)
         \/ pc[g] = "serve" /\ pc'[g] = IF created[g] THEN "delete" ELSE "close"
         \/ pc[g] = "close" /\ pc'[g] = "stopped"
         \/ pc[g] = "leave" /\ pc'[g] = "leftover"
<1>1. CASE StopTunnel(g)
  <2>1. CASE AskTunnel(g)
    BY <2>1, AfterStopIs DEF TypeOK, AskTunnel, Stopping, Serving
  <2>2. CASE KillTunnel(g)
    BY <2>2 DEF TypeOK, KillTunnel
  <2>3. CASE TunnelStopped(g)
    BY <2>3, AfterStopIs DEF TypeOK, TunnelStopped, Stopping, Serving
  <2> QED
    BY <1>1, <2>1, <2>2, <2>3 DEF StopTunnel
<1>2. CASE SpawnTunnel(g) \/ TunnelPrintsUrl(g) \/ TunnelExits(g) \/ Signal(g)
  BY <1>2 DEF SpawnTunnel, TunnelPrintsUrl, TunnelExits, Signal
<1>3. CASE Start(g) \/ TunnelUp(g) \/ TunnelFails(g)
  BY <1>3 DEF TypeOK, Start, TunnelUp, TunnelFails, Goto, Serving
<1>4. CASE ValidatorRefuses(g) \/ RequestFails(g) \/ Backoff(g)
  BY <1>4 DEF TypeOK, ValidatorRefuses, RequestFails, Backoff, Goto, Serving
<1>5. CASE Shutdown(g)
  BY <1>5 DEF TypeOK, Shutdown, Goto
<1>6. CASE Crash(g)
  BY <1>6 DEF TypeOK, Crash
<1> QED
  BY <1>1, <1>2, <1>3, <1>4, <1>5, <1>6 DEF Quiet

\* What a request leaves alone, and where it leads.
LEMMA RequestFacts ==
  ASSUME TypeOK, NEW g \in Gateways, Request(g)
  PROVE  /\ UNCHANGED <<tunnel, stop, cancelled, byHand, met>>
         /\ \A f \in Gateways : f # g =>
              pc'[f] = pc[f] /\ listed'[f] = listed[f] /\ hook'[f] = hook[f] /\ created'[f] = created[f]
         /\ \/ pc[g] = "list" /\ pc'[g] = "apply"
            \/ pc[g] = "apply" /\ pc'[g] \in {"serve", "giveup"}
            \/ pc[g] = "delete" /\ pc'[g] \in {"close", "leave"}
         /\ pc' \in [Gateways -> {"down"} \cup Starting \cup Serving \cup Ended]
         /\ listed' \in [Gateways -> SUBSET Hooks]
         /\ hook' \in [Gateways -> Hooks \cup {NoHook}]
         /\ created' \in [Gateways -> BOOLEAN]
<1>0. /\ pc \in [Gateways -> {"down"} \cup Starting \cup Serving \cup Ended]
      /\ listed \in [Gateways -> SUBSET Hooks]
      /\ hook \in [Gateways -> Hooks \cup {NoHook}]
      /\ created \in [Gateways -> BOOLEAN]
      /\ {"giveup", "serve"} \subseteq Starting \cup Serving
  BY DEF TypeOK, Starting, Serving
<1>1. CASE List(g)
  BY <1>1 DEF TypeOK, List, Goto, trelloVars, Starting
<1>2. CASE \E h \in Hooks : Update(g, h)
  <2>1. PICK h \in Hooks : Update(g, h)
    BY <1>2
  <2>2. /\ UNCHANGED <<tunnel, stop, cancelled, listed, byHand, met>>
        /\ created' = [created EXCEPT ![g] = FALSE]
        /\ hook' = hook \/ hook' = [hook EXCEPT ![g] = h]
        /\ pc[g] = "apply"
        /\ pc' = [pc EXCEPT ![g] = "serve"] \/ pc' = [pc EXCEPT ![g] = "giveup"]
    BY <2>1 DEF Update, Goto
  <2> QED
    BY <1>0, <2>2
<1>3. CASE Create(g)
  <2>1. PICK h \in Hooks :
          /\ UNCHANGED <<tunnel, stop, cancelled, listed, byHand, met>>
          /\ created' = created \/ created' = [created EXCEPT ![g] = TRUE]
          /\ hook' = hook \/ hook' = [hook EXCEPT ![g] = h]
          /\ pc[g] = "apply"
          /\ pc' = [pc EXCEPT ![g] = "serve"] \/ pc' = [pc EXCEPT ![g] = "giveup"]
    BY <1>3 DEF Create, Goto
  <2> QED
    BY <1>0, <2>1
<1>4. CASE DeleteGatewayCreatedWebhook(g) \/ DeleteFails(g)
  BY <1>4 DEF TypeOK, DeleteGatewayCreatedWebhook, DeleteFails, Goto, Serving
<1> QED
  BY <1>1, <1>2, <1>3, <1>4 DEF Request

\* What each request does to the board's webhooks.
LEMMA ListFacts ==
  ASSUME TypeOK, NEW g \in Gateways, List(g)
  PROVE  /\ pc[g] = "list" /\ listed'[g] = DOMAIN callback
         /\ UNCHANGED <<callback, maker, hook, created>>
BY DEF TypeOK, List, Goto, trelloVars

LEMMA UpdateMoves ==
  ASSUME TypeOK, NEW g \in Gateways, NEW h \in Hooks, Update(g, h)
  PROVE  /\ pc[g] = "apply" /\ maker' = maker /\ created'[g] = FALSE
         /\ (pc'[g] = "serve" /\ hook'[g] = h) \/ pc'[g] = "giveup"
BY DEF TypeOK, Update, Goto

Retargeted(g, h) ==
  /\ pc[g] = "apply" /\ maker' = maker /\ created'[g] = FALSE
  /\ DOMAIN callback' = DOMAIN callback
  /\ \A k \in DOMAIN callback : k # h => callback'[k] = callback[k]
  /\ h \in DOMAIN callback => callback'[h] = g
  /\ \/ pc'[g] = "serve" /\ hook'[g] = h /\ h \in DOMAIN callback
     \/ pc'[g] = "giveup"

LEMMA UpdateFacts ==
  ASSUME TypeOK, NEW g \in Gateways, NEW h \in Hooks, Update(g, h)
  PROVE  Retargeted(g, h)
<1>1. CASE h \in DOMAIN callback
  <2>1. callback' = Set(h, g)
    BY <1>1 DEF Update
  <2> QED
    BY <1>1, <2>1, UpdateMoves DEF Set, Retargeted
<1>2. CASE h \notin DOMAIN callback
  <2>1. callback' = callback /\ pc' = [pc EXCEPT ![g] = "giveup"]
    BY <1>2 DEF Update, Goto
  <2> QED
    BY <1>2, <2>1, UpdateMoves DEF TypeOK, Retargeted
<1> QED
  BY <1>1, <1>2

Made(g, h) ==
  /\ pc[g] = "apply" /\ listed[g] = {}
  /\ DOMAIN callback' = DOMAIN callback \cup {h}
  /\ callback'[h] = g
  /\ \A k \in DOMAIN callback : callback'[k] = callback[k]
  /\ DOMAIN maker' = DOMAIN maker \cup {h}
  /\ maker'[h] = g
  /\ \A k \in DOMAIN maker : maker'[k] = maker[k]
  /\ \/ pc'[g] = "serve" /\ hook'[g] = h /\ created'[g] = TRUE
     \/ pc'[g] = "giveup" /\ hook'[g] = hook[g] /\ created'[g] = created[g]

LEMMA CreateFacts ==
  ASSUME TypeOK, NEW g \in Gateways, Create(g)
  PROVE  \E h \in Hooks \ DOMAIN maker : Made(g, h)
<1>1. PICK h \in Hooks \ DOMAIN maker :
        /\ callback' = Set(h, g)
        /\ maker' = [k \in DOMAIN maker \cup {h} |-> IF k = h THEN g ELSE maker[k]]
        /\ \/ /\ Goto(g, "apply", "serve")
              /\ hook' = [hook EXCEPT ![g] = h]
              /\ created' = [created EXCEPT ![g] = TRUE]
           \/ /\ Goto(g, "apply", "giveup")
              /\ UNCHANGED <<hook, created>>
  BY DEF Create
<1>2. listed[g] = {} /\ h \notin DOMAIN callback
  BY DEF Create, TypeOK
<1>3. /\ DOMAIN callback' = DOMAIN callback \cup {h}
      /\ callback'[h] = g
      /\ \A k \in DOMAIN callback : callback'[k] = callback[k]
  BY <1>1, <1>2 DEF Set
<1>4. /\ DOMAIN maker' = DOMAIN maker \cup {h}
      /\ maker'[h] = g
      /\ \A k \in DOMAIN maker : maker'[k] = maker[k]
  BY <1>1
<1>5. /\ pc[g] = "apply"
      /\ \/ pc'[g] = "serve" /\ hook'[g] = h /\ created'[g] = TRUE
         \/ pc'[g] = "giveup" /\ hook'[g] = hook[g] /\ created'[g] = created[g]
  BY <1>1 DEF TypeOK, Goto
<1> QED
  BY <1>2, <1>3, <1>4, <1>5 DEF Made

LEMMA DeleteFacts ==
  ASSUME TypeOK, NEW g \in Gateways, DeleteGatewayCreatedWebhook(g) \/ DeleteFails(g)
  PROVE  /\ pc[g] = "delete" /\ UNCHANGED <<maker, hook, created>>
         /\ DOMAIN callback' \subseteq DOMAIN callback
         /\ \A k \in DOMAIN callback : k # hook[g] => k \in DOMAIN callback'
         /\ \A k \in DOMAIN callback' : callback'[k] = callback[k]
         /\ pc'[g] = "leave" \/ (pc'[g] = "close" /\ hook[g] \notin DOMAIN callback')
BY DEF TypeOK, DeleteGatewayCreatedWebhook, DeleteFails, Goto, Remove

LEMMA OperatorFacts ==
  ASSUME TypeOK, NEW h \in Hooks, OperatorDeletes(h)
  PROVE  /\ UNCHANGED <<localVars, maker, met>> /\ h \in DOMAIN callback
         /\ byHand' = byHand \cup {h}
         /\ DOMAIN callback' = DOMAIN callback \ {h}
         /\ \A k \in DOMAIN callback' : callback'[k] = callback[k]
BY DEF OperatorDeletes, Remove

-----------------------------------------------------------------------------
(* Each part of the invariant is kept.                                     *)

TrelloType ==
  /\ DOMAIN maker \subseteq Hooks
  /\ DOMAIN callback \subseteq DOMAIN maker
  /\ byHand \subseteq DOMAIN maker
  /\ \A h \in DOMAIN callback : callback[h] \in Gateways \cup {Operator}
  /\ \A h \in DOMAIN maker : maker[h] \in Gateways \cup {Operator}

LEMMA WebhookTypeStep == ASSUME TypeOK, [Next]_vars PROVE TypeOK'
<1>1. CASE UNCHANGED vars
  BY <1>1 DEF TypeOK, vars, localVars, trelloVars
<1>2. ASSUME NEW g \in Gateways, Quiet(g) PROVE TypeOK'
  <2>1. UNCHANGED <<callback, maker, byHand, hook, created, listed>>
    BY <1>2, QuietFacts DEF trelloVars
  <2> QED
    BY <1>2, <2>1, QuietFacts DEF TypeOK
<1>3. ASSUME NEW g \in Gateways, Request(g) PROVE TypeOK'
  <2>1. TrelloType'
    <3>0. TrelloType
      BY DEF TypeOK, TrelloType
    <3>1. byHand' = byHand
      BY <1>3, RequestFacts
    <3>2. CASE List(g)
      BY <3>0, <3>1, <3>2, ListFacts DEF TrelloType
    <3>3. ASSUME NEW h \in Hooks, Update(g, h)
          PROVE  TrelloType'
      <4>1. Retargeted(g, h)
        BY <3>3, UpdateFacts
      <4> QED
        BY <3>0, <3>1, <4>1 DEF TrelloType, Retargeted
    <3>4. CASE Create(g)
      <4>1. PICK h \in Hooks \ DOMAIN maker : Made(g, h)
        BY <3>4, CreateFacts
      <4> QED
        BY <3>0, <3>1, <4>1 DEF TrelloType, Made
    <3>5. CASE DeleteGatewayCreatedWebhook(g) \/ DeleteFails(g)
      <4>1. /\ maker' = maker /\ DOMAIN callback' \subseteq DOMAIN callback
            /\ \A k \in DOMAIN callback' : callback'[k] = callback[k]
        BY <3>5, DeleteFacts
      <4> QED
        BY <3>0, <3>1, <4>1 DEF TrelloType
    <3>6. CASE \E h \in Hooks : Update(g, h)
      BY <3>3, <3>6
    <3> QED
      BY <1>3, <3>2, <3>4, <3>5, <3>6 DEF Request
  <2> QED
    BY <1>3, <2>1, RequestFacts DEF TypeOK, TrelloType
<1>4. ASSUME NEW h \in Hooks, OperatorDeletes(h) PROVE TypeOK'
  BY <1>4, OperatorFacts DEF TypeOK, localVars
<1> QED
  BY <1>1, <1>2, <1>3, <1>4, Steps


\* No process comes to its end with its tunnel up, and the tunnel is there for as
\* long as its webhook needs it.
LEMMA TunnelStep ==
  ASSUME TypeOK, NoOrphanTunnel, TunnelScope, [Next]_vars
  PROVE  NoOrphanTunnel' /\ TunnelScope'
<1> DEFINE P(g) ==
      /\ pc[g] \in {"aborted", "stopped", "leftover"} => tunnel[g] \in {"none", "exited"}
      /\ stop[g] # "no" => pc[g] \in {"cancelled", "giveup", "close", "leave"} \cup Ended
      /\ pc[g] \in {"list", "apply", "wait"} \cup Serving => tunnel[g] \in {"up", "exited"}
<1>1. \A g \in Gateways : P(g)
  BY DEF NoOrphanTunnel, TunnelScope
<1>2. SUFFICES \A g \in Gateways : P(g)'
  BY DEF NoOrphanTunnel, TunnelScope
<1>3. CASE UNCHANGED vars
  BY <1>1, <1>3 DEF vars, localVars
<1>4. ASSUME NEW h \in Hooks, OperatorDeletes(h) PROVE \A g \in Gateways : P(g)'
  BY <1>1, <1>4 DEF OperatorDeletes, localVars
<1>5. ASSUME NEW g \in Gateways, Request(g) PROVE P(g)' /\ \A f \in Gateways : f # g => P(f)'
  <2>1. /\ UNCHANGED <<tunnel, stop>>
        /\ \A f \in Gateways : f # g => pc'[f] = pc[f]
        /\ \/ pc[g] = "list" /\ pc'[g] = "apply"
           \/ pc[g] = "apply" /\ pc'[g] \in {"serve", "giveup"}
           \/ pc[g] = "delete" /\ pc'[g] \in {"close", "leave"}
    BY <1>5, RequestFacts
  <2> QED
    BY <1>1, <2>1 DEF Serving, Ended
<1>6. ASSUME NEW g \in Gateways, Quiet(g) PROVE P(g)'
  <2>1. P(g)
    BY <1>1
  <2>2. CASE Start(g) \/ Crash(g)
    BY <2>1, <2>2 DEF TypeOK, Start, Crash, Running, Goto, Starting, Serving, Ended
  <2>3. CASE SpawnTunnel(g) \/ TunnelPrintsUrl(g) \/ TunnelExits(g) \/ Signal(g)
    BY <2>1, <2>3 DEF TypeOK, SpawnTunnel, TunnelPrintsUrl, TunnelExits, Signal, Serving
  <2>4. CASE TunnelUp(g) \/ TunnelFails(g)
    BY <2>1, <2>4 DEF TypeOK, TunnelUp, TunnelFails, Goto, Serving, Ended
  <2>5. CASE ValidatorRefuses(g) \/ RequestFails(g) \/ Backoff(g)
    BY <2>1, <2>5 DEF TypeOK, ValidatorRefuses, RequestFails, Backoff, Goto, Serving, Ended
  <2>6. CASE Shutdown(g)
    BY <2>1, <2>6 DEF TypeOK, Shutdown, Goto, Serving, Ended
  <2>7. CASE AskTunnel(g)
    BY <2>1, <2>7, AfterStopIs DEF TypeOK, AskTunnel, Stopping, Serving, Ended
  <2>8. CASE KillTunnel(g)
    BY <2>1, <2>8, AfterStopIs DEF TypeOK, KillTunnel, Stopping, Serving, Ended
  <2>9. CASE TunnelStopped(g)
    BY <2>1, <2>9, AfterStopIs DEF TypeOK, TunnelStopped, Stopping, Serving, Ended
  <2> QED
    BY <1>6, <2>2, <2>3, <2>4, <2>5, <2>6, <2>7, <2>8, <2>9 DEF Quiet, StopTunnel
<1>7. ASSUME NEW g \in Gateways, Quiet(g), NEW f \in Gateways, f # g PROVE P(f)'
  <2>1. pc'[f] = pc[f] /\ tunnel'[f] = tunnel[f] /\ stop'[f] = stop[f]
    BY <1>7, QuietFacts
  <2> QED
    BY <1>1, <2>1
<1> HIDE DEF P
<1> QED
  BY <1>3, <1>4, <1>5, <1>6, <1>7, Steps

LEMMA OwnershipStep ==
  ASSUME TypeOK, Ownership, [Next]_vars
  PROVE  Ownership'
<1> DEFINE P(g) ==
      /\ created[g] => hook[g] \in DOMAIN maker /\ maker[hook[g]] = g
      /\ pc[g] \in {"delete", "leave"} => created[g]
<1>1. \A g \in Gateways : P(g)
  BY DEF Ownership
<1>2. SUFFICES \A g \in Gateways : P(g)'
  BY DEF Ownership
<1>3. CASE UNCHANGED vars
  BY <1>1, <1>3 DEF vars, localVars, trelloVars
<1>4. ASSUME NEW h \in Hooks, OperatorDeletes(h) PROVE \A g \in Gateways : P(g)'
  BY <1>1, <1>4 DEF OperatorDeletes, localVars
<1>5. ASSUME NEW g \in Gateways, Quiet(g), NEW f \in Gateways PROVE P(f)'
  <2>1. UNCHANGED <<maker, hook, created>> /\ (f # g => pc'[f] = pc[f])
    BY <1>5, QuietFacts DEF trelloVars
  <2>2. CASE f = g
    <3>1. pc'[g] \in {"delete", "leave"} => created[g]
      BY <1>1, <1>5, QuietMoves DEF Serving
    <3> QED
      BY <1>1, <2>1, <2>2, <3>1
  <2> QED
    BY <1>1, <2>1, <2>2
\* What is known of a webhook's maker stays known.
<1>6. ASSUME NEW g \in Gateways, Request(g)
      PROVE  \A h \in DOMAIN maker : h \in DOMAIN maker' /\ maker'[h] = maker[h]
  <2>1. CASE Create(g)
    <3>1. PICK h \in Hooks \ DOMAIN maker : Made(g, h)
      BY <2>1, CreateFacts
    <3> QED
      BY <3>1 DEF Made
  <2>2. CASE \E h \in Hooks : Update(g, h)
    BY <2>2, UpdateMoves
  <2> QED
    BY <1>6, <2>1, <2>2, ListFacts, DeleteFacts DEF Request
<1>7. ASSUME NEW g \in Gateways, Request(g), NEW f \in Gateways, f # g PROVE P(f)'
  <2>1. pc'[f] = pc[f] /\ hook'[f] = hook[f] /\ created'[f] = created[f]
    BY <1>7, RequestFacts
  <2> QED
    BY <1>1, <1>6, <1>7, <2>1
<1>8. ASSUME NEW g \in Gateways, Request(g) PROVE P(g)'
  <2>1. CASE List(g)
    <3>1. UNCHANGED <<maker, hook, created>> /\ pc'[g] = "apply"
      BY <2>1 DEF TypeOK, List, Goto, trelloVars
    <3> QED
      BY <1>1, <3>1
  <2>2. ASSUME NEW h \in Hooks, Update(g, h) PROVE P(g)'
    BY <2>2, UpdateMoves
  <2>3. CASE Create(g)
    <3>1. PICK h \in Hooks \ DOMAIN maker : Made(g, h)
      BY <2>3, CreateFacts
    <3>2. h \in DOMAIN maker' /\ maker'[h] = g
      BY <3>1 DEF Made
    <3>3. \/ pc'[g] = "serve" /\ hook'[g] = h /\ created'[g] = TRUE
          \/ pc'[g] = "giveup" /\ hook'[g] = hook[g] /\ created'[g] = created[g]
      BY <3>1 DEF Made
    <3> QED
      BY <1>1, <1>6, <1>8, <3>2, <3>3
  <2>4. CASE DeleteGatewayCreatedWebhook(g) \/ DeleteFails(g)
    <3>1. UNCHANGED <<maker, hook, created>> /\ pc[g] = "delete"
      BY <2>4, DeleteFacts
    <3> QED
      BY <1>1, <3>1
  <2> QED
    BY <1>8, <2>1, <2>2, <2>3, <2>4 DEF Request
<1> HIDE DEF P
<1> QED
  BY <1>3, <1>4, <1>5, <1>7, <1>8, Steps

LEMMA LedToStep ==
  ASSUME TypeOK, Ownership, LedTo, [Next]_vars
  PROVE  LedTo'
<1> DEFINE Past(g) == pc[g] \in {"crashed", "giveup", "aborted", "leave", "leftover"}
           Q(h, g) == \/ Past(g)
                      \/ pc[g] \in {"serve", "delete"} /\ hook[g] = h
                      \/ pc[g] \in {"close", "stopped"} /\ hook[g] = h /\ ~created[g]
           P(g) == \A h \in DOMAIN callback : callback[h] = g => Q(h, g)
<1>1. \A g \in Gateways : P(g)
  BY DEF LedTo
<1>2. SUFFICES \A g \in Gateways : P(g)'
  BY DEF LedTo
<1>3. CASE UNCHANGED vars
  BY <1>1, <1>3 DEF vars, localVars, trelloVars
<1>4. ASSUME NEW h \in Hooks, OperatorDeletes(h), NEW g \in Gateways PROVE P(g)'
  <2>1. UNCHANGED <<pc, hook, created>> /\ \A k \in DOMAIN callback' : k \in DOMAIN callback /\ callback'[k] = callback[k]
    BY <1>4, OperatorFacts DEF localVars
  <2> QED
    BY <1>1, <2>1
<1>5. ASSUME NEW g \in Gateways, Quiet(g), NEW f \in Gateways PROVE P(f)'
  <2>1. UNCHANGED <<callback, hook, created>> /\ (f # g => pc'[f] = pc[f])
    BY <1>5, QuietFacts DEF trelloVars
  <2>2. ASSUME NEW h, Q(h, g) PROVE Q(h, g)'
    <3>1. hook' = hook /\ created' = created
      BY <2>1
    <3> QED
      BY <1>5, <2>2, <3>1, QuietMoves DEF Serving, Running, Starting
  <2> QED
    BY <1>1, <2>1, <2>2
<1>6. ASSUME NEW g \in Gateways, Request(g), NEW f \in Gateways, f # g PROVE P(f)'
  <2>1. pc'[f] = pc[f] /\ hook'[f] = hook[f] /\ created'[f] = created[f]
    BY <1>6, RequestFacts
  <2>2. \A h \in DOMAIN callback' : callback'[h] = f => h \in DOMAIN callback /\ callback[h] = f
    <3>1. CASE List(g)
      BY <3>1, ListFacts
    <3>2. ASSUME NEW h \in Hooks, Update(g, h), NEW k \in DOMAIN callback', callback'[k] = f
          PROVE  k \in DOMAIN callback /\ callback[k] = f
      <4>1. Retargeted(g, h)
        BY <3>2, UpdateFacts
      <4> QED
        BY <1>6, <3>2, <4>1 DEF Retargeted
    <3>3. CASE Create(g)
      <4>1. PICK h \in Hooks \ DOMAIN maker : Made(g, h)
        BY <3>3, CreateFacts
      <4> QED
        BY <1>6, <4>1 DEF Made
    <3>4. CASE DeleteGatewayCreatedWebhook(g) \/ DeleteFails(g)
      BY <3>4, DeleteFacts
    <3> QED
      BY <1>6, <3>1, <3>2, <3>3, <3>4 DEF Request
  <2> QED
    BY <1>1, <2>1, <2>2
<1>7. ASSUME NEW g \in Gateways, Request(g) PROVE P(g)'
  <2>1. CASE List(g)
    <3>1. pc[g] = "list" /\ callback' = callback
      BY <2>1, ListFacts
    <3> QED
      BY <1>1, <3>1
  <2>2. ASSUME NEW h \in Hooks, Update(g, h) PROVE P(g)'
    <3>1. \A k \in DOMAIN callback : callback[k] # g
      BY <1>1, <2>2, UpdateMoves
    <3>2. Retargeted(g, h)
      BY <2>2, UpdateFacts
    <3>3. (pc'[g] = "serve" /\ hook'[g] = h) \/ pc'[g] = "giveup"
      BY <3>2 DEF Retargeted
    <3>4. \A k \in DOMAIN callback' : callback'[k] = g => k = h
      BY <3>1, <3>2 DEF Retargeted
    <3> QED
      BY <3>3, <3>4
  <2>3. CASE Create(g)
    <3>1. PICK h \in Hooks \ DOMAIN maker : Made(g, h)
      BY <2>3, CreateFacts
    <3>2. \A k \in DOMAIN callback : callback[k] # g
      BY <1>1, <3>1 DEF Made
    <3>3. \A k \in DOMAIN callback' : callback'[k] = g => k = h
      BY <3>1, <3>2 DEF Made
    <3>4. (pc'[g] = "serve" /\ hook'[g] = h) \/ pc'[g] = "giveup"
      BY <3>1 DEF Made
    <3> QED
      BY <3>3, <3>4
  <2>4. CASE DeleteGatewayCreatedWebhook(g) \/ DeleteFails(g)
    <3>1. /\ pc[g] = "delete"
          /\ \A k \in DOMAIN callback' : k \in DOMAIN callback /\ callback'[k] = callback[k]
          /\ pc'[g] = "leave" \/ hook[g] \notin DOMAIN callback'
      BY <2>4, DeleteFacts
    <3> QED
      BY <1>1, <3>1
  <2> QED
    BY <1>7, <2>1, <2>2, <2>3, <2>4 DEF Request
<1> HIDE DEF P
<1> QED
  BY <1>3, <1>4, <1>5, <1>6, <1>7, Steps

\* A process that runs after a step of its own ran before it, unless it starts.
LEMMA RunsOn ==
  ASSUME TypeOK, NEW g \in Gateways, Quiet(g) \/ Request(g), ~Start(g)
  PROVE  met' = met /\ (Running(g)' => Running(g))
<1>1. CASE Quiet(g)
  <2>1. met' = met
    BY <1>1 DEF Quiet, SpawnTunnel, TunnelPrintsUrl, TunnelExits, TunnelUp, TunnelFails,
                ValidatorRefuses, RequestFails, Backoff, Signal, Shutdown, StopTunnel,
                AskTunnel, KillTunnel, TunnelStopped, Crash
  <2>2. CASE SpawnTunnel(g) \/ TunnelPrintsUrl(g) \/ TunnelExits(g) \/ Signal(g) \/ KillTunnel(g)
    BY <2>1, <2>2 DEF SpawnTunnel, TunnelPrintsUrl, TunnelExits, Signal, KillTunnel, Running
  <2>3. CASE AskTunnel(g) \/ TunnelStopped(g)
    <3>1. pc[g] \in DOMAIN AfterStop
      BY <2>3 DEF AskTunnel, TunnelStopped, Stopping
    <3> QED
      BY <2>1, <3>1, AfterStopIs DEF Running, Starting, Serving
  <2>4. CASE TunnelUp(g) \/ TunnelFails(g) \/ ValidatorRefuses(g) \/ RequestFails(g) \/ Backoff(g)
    <3>1. pc[g] \in {"tunnel", "list", "apply", "wait"}
      BY <2>4 DEF TunnelUp, TunnelFails, ValidatorRefuses, RequestFails, Backoff, Goto
    <3> QED
      BY <2>1, <3>1 DEF Running, Starting
  <2>5. CASE Shutdown(g) \/ Crash(g)
    <3>1. Running(g)
      BY <2>5 DEF Shutdown, Crash, Goto, Running, Serving
    <3> QED
      BY <2>1, <3>1
  <2> QED
    BY <1>1, <2>2, <2>3, <2>4, <2>5 DEF Quiet, StopTunnel
<1>2. CASE Request(g)
  BY <1>2, RequestFacts DEF Running, Starting, Serving
<1> QED
  BY <1>1, <1>2

LEMMA OneRunsStep ==
  ASSUME TypeOK, OneRuns, [Next]_vars
  PROVE  OneRuns'
<1>1. CASE UNCHANGED vars
  BY <1>1 DEF OneRuns, Running, vars, localVars
<1>2. ASSUME NEW h \in Hooks, OperatorDeletes(h) PROVE OneRuns'
  BY <1>2 DEF OperatorDeletes, OneRuns, Running, localVars
<1>3. ASSUME NEW g \in Gateways, Quiet(g) \/ Request(g) PROVE OneRuns'
  <2>1. \A f \in Gateways : f # g => (Running(f)' <=> Running(f))
    BY <1>3, QuietFacts, RequestFacts DEF Running
  <2>2. CASE Start(g)
    <3>1. met' = (met \/ \E f \in Gateways : Running(f))
      BY <2>2 DEF Start
    <3> QED
      BY <2>1, <3>1 DEF OneRuns
  <2>3. CASE ~Start(g)
    <3>1. met' = met /\ (Running(g)' => Running(g))
      BY <1>3, <2>3, RunsOn
    <3> QED
      BY <2>1, <3>1 DEF OneRuns
  <2> QED
    BY <2>2, <2>3
<1> QED
  BY <1>1, <1>2, <1>3, Steps

\* Once two processes met they have met.
LEMMA MetStays ==
  ASSUME TypeOK, [Next]_vars
  PROVE  met => met'
<1>1. CASE UNCHANGED vars
  BY <1>1 DEF vars
<1>2. ASSUME NEW h \in Hooks, OperatorDeletes(h) PROVE met' = met
  BY <1>2 DEF OperatorDeletes
<1>3. ASSUME NEW g \in Gateways, Quiet(g) \/ Request(g) PROVE met => met'
  BY <1>3, RunsOn DEF Start
<1> QED
  BY <1>1, <1>2, <1>3, Steps

\* A request is made by the only process that runs.
LEMMA OnlyRequester ==
  ASSUME TypeOK, OneRuns, ~met, NEW g \in Gateways, Request(g),
         NEW f \in Gateways, pc[f] \in {"apply", "serve"}
  PROVE  f = g
<1>1. pc[g] \in {"list", "apply", "delete"}
  BY RequestFacts
<1> QED
  BY <1>1 DEF OneRuns, Running, Starting, Serving

LEMMA ListIsTrueStep ==
  ASSUME TypeOK, OneRuns, ListIsTrue, [Next]_vars
  PROVE  ListIsTrue'
<1> SUFFICES ASSUME ~met', NEW f \in Gateways, pc'[f] = "apply", listed'[f] = {}
             PROVE  DOMAIN callback' = {}
  BY DEF ListIsTrue
<1>1. ~met
  BY MetStays
<1>2. CASE UNCHANGED vars
  BY <1>1, <1>2 DEF ListIsTrue, vars, localVars, trelloVars
<1>3. ASSUME NEW h \in Hooks, OperatorDeletes(h) PROVE DOMAIN callback' = {}
  BY <1>1, <1>3, OperatorFacts DEF ListIsTrue, localVars
<1>4. ASSUME NEW g \in Gateways, Quiet(g) PROVE DOMAIN callback' = {}
  <2>1. UNCHANGED <<callback, listed>> /\ (f # g => pc'[f] = pc[f])
    BY <1>4, QuietFacts DEF trelloVars
  <2>2. pc[f] = "apply"
    BY <1>4, <2>1, QuietMoves
  <2> QED
    BY <1>1, <2>1, <2>2 DEF ListIsTrue
<1>5. ASSUME NEW g \in Gateways, Request(g) PROVE DOMAIN callback' = {}
  <2>1. f = g
    BY <1>1, <1>5, OnlyRequester, RequestFacts
  <2>2. List(g)
    BY <1>5, <2>1, UpdateFacts, CreateFacts, DeleteFacts DEF Request, Retargeted, Made
  <2> QED
    BY <2>1, <2>2, ListFacts
<1> QED
  BY <1>2, <1>3, <1>4, <1>5, Steps

LEMMA ServedStep ==
  ASSUME TypeOK, OneRuns, ServedByItsTunnel, TunnelScope', [Next]_vars
  PROVE  ServedByItsTunnel'
<1> DEFINE P(f) == hook[f] \notin byHand => hook[f] \in DOMAIN callback /\ callback[hook[f]] = f
<1> SUFFICES ASSUME ~met', NEW f \in Gateways, pc'[f] = "serve"
             PROVE  P(f)'
  BY DEF ServedByItsTunnel, TunnelScope, Serving
<1>1. ~met
  BY MetStays
<1>2. pc[f] = "serve" => P(f)
  BY <1>1 DEF ServedByItsTunnel
<1>3. CASE UNCHANGED vars
  BY <1>2, <1>3 DEF vars, localVars, trelloVars
<1>4. ASSUME NEW h \in Hooks, OperatorDeletes(h) PROVE P(f)'
  <2>1. UNCHANGED <<pc, hook>>
    BY <1>4 DEF OperatorDeletes, localVars
  <2> QED
    BY <1>2, <1>4, <2>1, OperatorFacts
<1>5. ASSUME NEW g \in Gateways, Quiet(g) PROVE P(f)'
  <2>1. UNCHANGED <<callback, byHand, hook>> /\ (f # g => pc'[f] = pc[f])
    BY <1>5, QuietFacts DEF trelloVars
  <2>2. pc[f] = "serve"
    BY <1>5, <2>1, QuietMoves
  <2> QED
    BY <1>2, <2>1, <2>2
<1>6. ASSUME NEW g \in Gateways, Request(g) PROVE P(f)'
  <2>1. f = g
    BY <1>1, <1>6, OnlyRequester, RequestFacts
  <2>2. ASSUME NEW h \in Hooks, Update(g, h) PROVE P(f)'
    <3>1. Retargeted(g, h)
      BY <2>2, UpdateFacts
    <3> QED
      BY <2>1, <3>1 DEF Retargeted
  <2>3. CASE Create(g)
    <3>1. PICK h \in Hooks \ DOMAIN maker : Made(g, h)
      BY <2>3, CreateFacts
    <3> QED
      BY <2>1, <3>1 DEF Made
  <2>4. ~List(g) /\ ~DeleteGatewayCreatedWebhook(g) /\ ~DeleteFails(g)
    BY <2>1, DeleteFacts DEF TypeOK, List, Goto
  <2> QED
    BY <1>6, <2>2, <2>3, <2>4 DEF Request
<1> QED
  BY <1>3, <1>4, <1>5, <1>6, Steps

\* A step makes at most one webhook, and a process that runs alone makes none
\* beside another.
LEMMA HooksStep ==
  ASSUME TypeOK, ListIsTrue, [Next]_vars
  PROVE  \/ DOMAIN callback' \subseteq DOMAIN callback
         \/ \E h \in Hooks : /\ DOMAIN callback' = DOMAIN callback \cup {h}
                             /\ ~met' => DOMAIN callback = {}
<1>1. CASE UNCHANGED vars
  BY <1>1 DEF vars, trelloVars
<1>2. ASSUME NEW h \in Hooks, OperatorDeletes(h) PROVE DOMAIN callback' \subseteq DOMAIN callback
  BY <1>2, OperatorFacts
<1>3. ASSUME NEW g \in Gateways, Quiet(g) PROVE callback' = callback
  BY <1>3, QuietFacts DEF trelloVars
<1>4. ASSUME NEW g \in Gateways, List(g) \/ DeleteGatewayCreatedWebhook(g) \/ DeleteFails(g)
      PROVE  DOMAIN callback' \subseteq DOMAIN callback
  BY <1>4, ListFacts, DeleteFacts
<1>5. ASSUME NEW g \in Gateways, NEW h \in Hooks, Update(g, h)
      PROVE  DOMAIN callback' = DOMAIN callback
  BY <1>5, UpdateFacts DEF Retargeted
<1>6. ASSUME NEW g \in Gateways, Create(g)
      PROVE  \E h \in Hooks : DOMAIN callback' = DOMAIN callback \cup {h} /\ (~met' => DOMAIN callback = {})
  <2>1. PICK h \in Hooks \ DOMAIN maker : Made(g, h)
    BY <1>6, CreateFacts
  <2>2. pc[g] = "apply" /\ listed[g] = {} /\ DOMAIN callback' = DOMAIN callback \cup {h}
    BY <2>1 DEF Made
  <2>3. ~met' => ~met
    BY MetStays
  <2> QED
    BY <2>2, <2>3 DEF ListIsTrue
<1> QED
  BY <1>1, <1>2, <1>3, <1>4, <1>5, <1>6, Steps DEF Request

LEMMA BoundIsPositive ==
  LET bound == IF Provisioned = {} THEN 1 ELSE Cardinality(Provisioned)
  IN  bound \in Nat /\ bound >= 1
<1>1. IsFiniteSet(Provisioned)
  BY WebhookAssumption DEF WebhookAssumption
<1>2. Cardinality(Provisioned) \in Nat /\ (Cardinality(Provisioned) = 0 <=> Provisioned = {})
  BY <1>1, FS_CardinalityType, FS_EmptySet
<1> QED
  BY <1>2

LEMMA CountStep ==
  ASSUME TypeOK, ListIsTrue, HooksFinite, NoSecondHook, [Next]_vars
  PROVE  HooksFinite' /\ NoSecondHook'
<1> DEFINE bound == IF Provisioned = {} THEN 1 ELSE Cardinality(Provisioned)
<1>1. bound \in Nat /\ bound >= 1
  BY BoundIsPositive
<1>2. ~met => Cardinality(DOMAIN callback) <= bound
  BY DEF NoSecondHook
<1>3. IsFiniteSet(DOMAIN callback) /\ Cardinality(DOMAIN callback) \in Nat
  BY FS_CardinalityType DEF HooksFinite
<1> SUFFICES IsFiniteSet(DOMAIN callback') /\ (~met' => Cardinality(DOMAIN callback') <= bound)
  BY DEF HooksFinite, NoSecondHook
<1> HIDE DEF bound
<1>4. ~met' => ~met
  BY MetStays
<1>5. CASE DOMAIN callback' \subseteq DOMAIN callback
  <2>1. /\ IsFiniteSet(DOMAIN callback') /\ Cardinality(DOMAIN callback') \in Nat
        /\ Cardinality(DOMAIN callback') <= Cardinality(DOMAIN callback)
    BY <1>3, <1>5, FS_Subset, FS_CardinalityType
  <2> QED
    BY <1>1, <1>2, <1>3, <1>4, <2>1
<1>6. ASSUME NEW h \in Hooks, DOMAIN callback' = DOMAIN callback \cup {h}, ~met' => DOMAIN callback = {}
      PROVE  IsFiniteSet(DOMAIN callback') /\ (~met' => Cardinality(DOMAIN callback') <= bound)
  <2>1. IsFiniteSet(DOMAIN callback')
    BY <1>3, <1>6, FS_AddElement
  <2>2. Cardinality({h}) = 1
    BY FS_Singleton
  <2>3. ~met' => DOMAIN callback' = {h}
    BY <1>6
  <2> QED
    BY <1>1, <2>1, <2>2, <2>3
<1> QED
  BY <1>5, <1>6, HooksStep

-----------------------------------------------------------------------------
(* The theorems about the webhook.                                         *)

LEMMA WebhookInvInit == Init => WebhookInv
<1> SUFFICES ASSUME Init PROVE WebhookInv
  OBVIOUS
<1>1. TypeOK
  BY WebhookAssumption DEF WebhookAssumption, Init, TypeOK
<1>2. NoOrphanTunnel /\ TunnelScope /\ Ownership /\ OneRuns /\ ListIsTrue /\ ServedByItsTunnel
  BY DEF Init, NoOrphanTunnel, TunnelScope, Ownership, OneRuns, ListIsTrue, ServedByItsTunnel,
         Running, Starting, Serving
<1>3. LedTo
  BY WebhookAssumption DEF WebhookAssumption, Init, LedTo
<1>4. HooksFinite /\ NoSecondHook
  <2>1. DOMAIN callback = Provisioned /\ IsFiniteSet(Provisioned)
    BY WebhookAssumption DEF WebhookAssumption, Init
  <2>2. Cardinality(Provisioned) \in Nat /\ (Provisioned = {} => Cardinality(Provisioned) = 0)
    BY <2>1, FS_CardinalityType, FS_EmptySet
  <2> QED
    BY <2>1, <2>2 DEF HooksFinite, NoSecondHook
<1> QED
  BY <1>1, <1>2, <1>3, <1>4 DEF WebhookInv

LEMMA WebhookInvStep == WebhookInv /\ [Next]_vars => WebhookInv'
<1> SUFFICES ASSUME WebhookInv, [Next]_vars PROVE WebhookInv'
  OBVIOUS
<1>1. TypeOK'
  BY WebhookTypeStep DEF WebhookInv
<1>2. NoOrphanTunnel' /\ TunnelScope'
  BY TunnelStep DEF WebhookInv
<1>3. Ownership' /\ LedTo'
  BY OwnershipStep, LedToStep DEF WebhookInv
<1>4. OneRuns' /\ ListIsTrue'
  BY OneRunsStep, ListIsTrueStep DEF WebhookInv
<1>5. ServedByItsTunnel'
  BY <1>2, ServedStep DEF WebhookInv
<1>6. HooksFinite' /\ NoSecondHook'
  BY CountStep DEF WebhookInv
<1> QED
  BY <1>1, <1>2, <1>3, <1>4, <1>5, <1>6 DEF WebhookInv

\* The life of the webhook is well-formed: the inductive invariant holds for any
\* number of processes, started in any order and killed at any point.
THEOREM WebhookInvariant == Spec => []WebhookInv
BY WebhookInvInit, WebhookInvStep, PTL DEF Spec

\* Processes that never meet add no webhook beside those they find.
THEOREM WebhookNoSecondHook == Spec => []NoSecondHook
<1>1. WebhookInv => NoSecondHook
  BY DEF WebhookInv
<1> QED
  BY <1>1, WebhookInvariant, PTL

\* The webhook of a process that serves and never met another leads to its tunnel.
THEOREM WebhookServed == Spec => []ServedByItsTunnel
<1>1. WebhookInv => ServedByItsTunnel
  BY DEF WebhookInv
<1> QED
  BY <1>1, WebhookInvariant, PTL

\* A process that ended by itself has ended its cloudflared.
THEOREM WebhookNoOrphan == Spec => []NoOrphanTunnel
<1>1. WebhookInv => NoOrphanTunnel
  BY DEF WebhookInv
<1> QED
  BY <1>1, WebhookInvariant, PTL

\* Every dead URL is explained: what the shutdown leaves it had not made.
THEOREM WebhookDeadUrls == Spec => []DeadUrlExplained
<1>1. WebhookInv => DeadUrlExplained
  <2> SUFFICES ASSUME WebhookInv, NEW h \in DOMAIN callback, NEW g \in Gateways, callback[h] = g
               PROVE  \/ pc[g] \in {"crashed", "giveup", "aborted", "leave", "leftover"}
                      \/ pc[g] \in {"close", "stopped"} /\ hook[g] = h /\ ~created[g]
                      \/ Running(g) /\ stop[g] = "no"
    BY DEF DeadUrlExplained
  <2>1. CASE pc[g] \in {"serve", "delete"}
    <3>1. Running(g)
      BY <2>1 DEF Running, Serving
    <3>2. stop[g] = "no"
      BY <2>1 DEF WebhookInv, TunnelScope, Ended
    <3> QED
      BY <3>1, <3>2
  <2> QED
    BY <2>1 DEF WebhookInv, LedTo
<1> QED
  BY <1>1, WebhookInvariant, PTL

\* A webhook leaves the board only by hand, or by the deferred DeleteWebhook of the
\* process that made it, whoever turned it to another URL meanwhile.
THEOREM WebhookDeletesItsOwn == Spec => DeletesOnlyItsOwn
<1>1. WebhookInv /\ [Next]_vars =>
        [\A h \in DOMAIN callback \ DOMAIN callback' :
           \/ h \in byHand'
           \/ \E g \in Gateways : pc[g] = "delete" /\ pc'[g] # "delete" /\ maker[h] = g]_vars
  <2> SUFFICES ASSUME WebhookInv, Next, NEW h \in DOMAIN callback \ DOMAIN callback'
               PROVE  \/ h \in byHand'
                      \/ \E g \in Gateways : pc[g] = "delete" /\ pc'[g] # "delete" /\ maker[h] = g
    OBVIOUS
  <2>1. TypeOK
    BY DEF WebhookInv
  <2>2. ASSUME NEW g \in Gateways, Quiet(g) PROVE FALSE
    BY <2>1, <2>2, QuietFacts DEF trelloVars
  <2>3. ASSUME NEW g \in Gateways, Request(g)
        PROVE  pc[g] = "delete" /\ pc'[g] # "delete" /\ maker[h] = g
    <3>1. ~List(g)
      BY <2>1, ListFacts
    <3>2. ~\E k \in Hooks : Update(g, k)
      BY <2>1, UpdateFacts DEF Retargeted
    <3>3. ~Create(g)
      <4> SUFFICES ASSUME Create(g) PROVE FALSE
        OBVIOUS
      <4>1. PICK k \in Hooks : Made(g, k)
        BY <2>1, CreateFacts
      <4>2. DOMAIN callback' = DOMAIN callback \cup {k}
        BY <4>1 DEF Made
      <4> QED
        BY <4>2
    <3>4. DeleteGatewayCreatedWebhook(g) \/ DeleteFails(g)
      BY <2>3, <3>1, <3>2, <3>3 DEF Request
    <3>5. pc[g] = "delete" /\ h = hook[g] /\ pc'[g] # "delete"
      BY <2>1, <3>4, DeleteFacts
    <3> QED
      BY <3>5 DEF WebhookInv, Ownership
  <2>4. ASSUME NEW k \in Hooks, OperatorDeletes(k) PROVE h \in byHand'
    BY <2>1, <2>4, OperatorFacts
  <2> QED
    BY <2>2, <2>3, <2>4, Steps
<1> QED
  BY <1>1, WebhookInvariant, PTL DEF Spec, DeletesOnlyItsOwn

-----------------------------------------------------------------------------
(* Names.                                                                  *)

AnyName == [letters : Letters \cup {NoName}, capital : BOOLEAN, spaced : BOOLEAN]

LEMMA NamesAre == Names \subseteq AnyName /\ Empty \in AnyName
<1>1. Names \subseteq AnyName
  BY DEF Names, AnyName
<1>2. Empty \in AnyName
  BY DEF Empty, AnyName
<1> QED
  BY <1>1, <1>2

LEMMA SameName ==
  ASSUME NEW m \in AnyName, NEW n \in AnyName,
         m.letters = n.letters, m.capital = n.capital, m.spaced = n.spaced
  PROVE  m = n
BY DEF AnyName

\* Lower and TrimSpace change what they are to change.
LEMMA LowerIs ==
  ASSUME NEW n \in AnyName
  PROVE  /\ Lower(n) \in AnyName
         /\ Lower(n).letters = n.letters /\ ~Lower(n).capital /\ Lower(n).spaced = n.spaced
BY DEF AnyName, Lower

LEMMA TrimSpaceIs ==
  ASSUME NEW n \in AnyName
  PROVE  /\ TrimSpace(n) \in AnyName
         /\ TrimSpace(n).letters = n.letters /\ ~TrimSpace(n).spaced
BY DEF AnyName, TrimSpace

LEMMA NormaliseNameIs ==
  ASSUME NEW n \in AnyName
  PROVE  /\ NormaliseName(n) \in AnyName
         /\ NormaliseName(n).letters = n.letters
         /\ ~NormaliseName(n).capital /\ ~NormaliseName(n).spaced
         /\ ~n.spaced => NormaliseName(n) = Lower(n)
<1>1. /\ NormaliseName(n) \in AnyName
      /\ NormaliseName(n).letters = n.letters
      /\ ~NormaliseName(n).capital /\ NormaliseName(n).spaced = TrimSpace(n).spaced
  BY TrimSpaceIs, LowerIs DEF NormaliseName
<1>2. ~NormaliseName(n).spaced
  BY <1>1, TrimSpaceIs
<1>3. ASSUME ~n.spaced PROVE NormaliseName(n) = Lower(n)
  <2>1. Lower(n) \in AnyName /\ Lower(n).letters = n.letters /\ ~Lower(n).capital /\ ~Lower(n).spaced
    BY <1>3, LowerIs
  <2>2. NormaliseName(n).capital = Lower(n).capital /\ NormaliseName(n).spaced = Lower(n).spaced
    BY <1>1, <1>2, <2>1 DEF AnyName
  <2> QED
    BY <1>1, <2>1, <2>2, SameName
<1> QED
  BY <1>1, <1>2, <1>3

\* What a list called n is for, by the kanban block cfg.
CategoryIn(cfg, n) ==
  IF \E r \in Roles : NormaliseName(cfg[r]) = NormaliseName(n)
  THEN Category[CHOOSE r \in Roles : NormaliseName(cfg[r]) = NormaliseName(n)]
  ELSE "wait"

LEMMA CategoryOfIs == \A n : CategoryOf(n) = CategoryIn(config, n)
BY DEF CategoryOf, CategoryIn

\* In a valid kanban block a name is that of one role at most.
LEMMA CategoryInIs ==
  ASSUME NEW cfg, Validate(cfg), NEW n
  PROVE  /\ \A r \in Roles : NormaliseName(cfg[r]) = NormaliseName(n) => CategoryIn(cfg, n) = Category[r]
         /\ (\A r \in Roles : NormaliseName(cfg[r]) # NormaliseName(n)) => CategoryIn(cfg, n) = "wait"
         /\ CategoryIn(cfg, n) \in Categories
<1>1. ASSUME NEW r \in Roles, NormaliseName(cfg[r]) = NormaliseName(n)
      PROVE  CategoryIn(cfg, n) = Category[r]
  <2> DEFINE s == CHOOSE s \in Roles : NormaliseName(cfg[s]) = NormaliseName(n)
  <2>1. s \in Roles /\ NormaliseName(cfg[s]) = NormaliseName(n)
    BY <1>1
  <2>2. s = r
    BY <1>1, <2>1 DEF Validate
  <2> QED
    BY <1>1, <2>2 DEF CategoryIn
<1>2. (\A r \in Roles : NormaliseName(cfg[r]) # NormaliseName(n)) => CategoryIn(cfg, n) = "wait"
  BY DEF CategoryIn
<1>3. CategoryIn(cfg, n) \in Categories
  BY <1>1, <1>2, RoutingAssumption DEF RoutingAssumption, Categories
<1> QED
  BY <1>1, <1>2, <1>3

-----------------------------------------------------------------------------
(* Resolve.                                                                *)

\* The kanban block and the board that a gateway starts with.
Startup(cfg, b) ==
  /\ cfg \in [Roles -> Names]
  /\ DOMAIN b \subseteq Lists
  /\ \A l \in DOMAIN b : b[l] \in Names
  /\ Resolvable(cfg, b)

ListOf(cfg, b, r) == CHOOSE l \in Matches(cfg, b, r) : TRUE

\* Each role has the one list of its name.
LEMMA RoleHasItsList ==
  ASSUME NEW cfg, NEW b, Startup(cfg, b), NEW r \in Roles
  PROVE  /\ ListOf(cfg, b, r) \in DOMAIN b
         /\ \A l \in DOMAIN b : NormaliseName(b[l]) = NormaliseName(cfg[r]) <=> l = ListOf(cfg, b, r)
<1>1. Matches(cfg, b, r) \in SUBSET Lists /\ IsFiniteSet(Lists)
  BY RoutingAssumption DEF RoutingAssumption, Startup, Matches
<1>2. IsFiniteSet(Matches(cfg, b, r))
  BY <1>1, FS_Subset
<1>3. Cardinality(Matches(cfg, b, r)) = 1
  BY DEF Startup, Resolvable
<1>4. PICK x : Matches(cfg, b, r) = {x}
  BY <1>2, <1>3, FS_Singleton
<1>5. ListOf(cfg, b, r) = x
  BY <1>4 DEF ListOf
<1>6. \A l : l \in Matches(cfg, b, r) <=> l = ListOf(cfg, b, r)
  BY <1>4, <1>5
<1> QED
  BY <1>6 DEF Matches

\* A list belongs to the category of its name, and to no other.
LEMMA IdsResolved ==
  ASSUME NEW cfg, NEW b, Startup(cfg, b), NEW c \in Categories, NEW l
  PROVE  l \in Resolve(cfg, b).ids[c] <=> l \in DOMAIN b /\ CategoryIn(cfg, b[l]) = c
<1> DEFINE v == Resolve(cfg, b)
           claimed == {ListOf(cfg, b, r) : r \in Roles}
<1>1. v.ids[c] = {ListOf(cfg, b, r) : r \in {r \in Roles : Category[r] = c}}
                   \cup IF c = "wait" THEN DOMAIN b \ claimed ELSE {}
  BY DEF Resolve, ListOf
<1> HIDE DEF v
<1>2. l \in v.ids[c] <=> \/ \E r \in Roles : Category[r] = c /\ l = ListOf(cfg, b, r)
                         \/ c = "wait" /\ l \in DOMAIN b /\ \A r \in Roles : l # ListOf(cfg, b, r)
  BY <1>1
<1>3. Validate(cfg)
  BY DEF Startup, Resolvable
<1>4. CASE \E r \in Roles : l = ListOf(cfg, b, r)
  <2>1. PICK r \in Roles : l = ListOf(cfg, b, r)
    BY <1>4
  <2>2. l \in DOMAIN b /\ NormaliseName(b[l]) = NormaliseName(cfg[r])
    BY <2>1, RoleHasItsList
  <2>3. CategoryIn(cfg, b[l]) = Category[r]
    BY <1>3, <2>2, CategoryInIs
  <2>4. ASSUME NEW s \in Roles, l = ListOf(cfg, b, s) PROVE s = r
    <3>1. NormaliseName(b[l]) = NormaliseName(cfg[s])
      BY <2>2, <2>4, RoleHasItsList
    <3> QED
      BY <1>3, <2>2, <3>1 DEF Validate
  <2> QED
    BY <1>2, <2>1, <2>2, <2>3, <2>4 DEF v
<1>5. CASE \A r \in Roles : l # ListOf(cfg, b, r)
  <2>1. l \in DOMAIN b => CategoryIn(cfg, b[l]) = "wait"
    BY <1>3, <1>5, RoleHasItsList, CategoryInIs
  <2> QED
    BY <1>2, <1>5, <2>1 DEF v
<1> QED
  BY <1>4, <1>5

\* A name stands for the category of the lists that are called so, and for no other.
LEMMA NamesResolved ==
  ASSUME NEW cfg, NEW b, Startup(cfg, b), NEW c \in Categories, NEW n, n \in Resolve(cfg, b).names[c]
  PROVE  /\ n \in Names /\ ~n.spaced /\ ~n.capital
         /\ \A m : NormaliseName(m) = n => CategoryIn(cfg, m) = c
<1> DEFINE v == Resolve(cfg, b)
           claimed == {ListOf(cfg, b, r) : r \in Roles}
<1>1. v.names[c] = {NormaliseName(cfg[r]) : r \in {r \in Roles : Category[r] = c}}
                   \cup IF c = "wait" THEN {NormaliseName(b[l]) : l \in DOMAIN b \ claimed} ELSE {}
  BY DEF Resolve, ListOf
<1>2. n \in v.names[c]
  OBVIOUS
<1> HIDE DEF v
<1>3. Validate(cfg)
  BY DEF Startup, Resolvable
<1>4. ASSUME NEW m \in Names, n = NormaliseName(m) PROVE n \in Names /\ ~n.spaced /\ ~n.capital
  <2>1. m \in AnyName /\ m.letters \in Letters
    BY <1>4 DEF Names, AnyName
  <2>2. n \in AnyName /\ n.letters \in Letters /\ ~n.spaced /\ ~n.capital
    BY <1>4, <2>1, NormaliseNameIs
  <2> QED
    BY <2>2 DEF Names, AnyName
<1>5. CASE \E r \in Roles : Category[r] = c /\ n = NormaliseName(cfg[r])
  <2>1. PICK r \in Roles : Category[r] = c /\ n = NormaliseName(cfg[r])
    BY <1>5
  <2>2. cfg[r] \in Names
    BY DEF Startup
  <2>3. \A m : NormaliseName(m) = n => CategoryIn(cfg, m) = c
    BY <1>3, <2>1, CategoryInIs
  <2> QED
    BY <1>4, <2>1, <2>2, <2>3
<1>6. CASE c = "wait" /\ \E l \in DOMAIN b \ claimed : n = NormaliseName(b[l])
  <2>1. PICK l \in DOMAIN b \ claimed : n = NormaliseName(b[l])
    BY <1>6
  <2>2. b[l] \in Names
    BY DEF Startup
  <2>3. \A r \in Roles : NormaliseName(cfg[r]) # n
    BY <2>1, RoleHasItsList
  <2>4. \A m : NormaliseName(m) = n => CategoryIn(cfg, m) = c
    BY <1>3, <1>6, <2>3, CategoryInIs
  <2> QED
    BY <1>4, <2>1, <2>2, <2>4
<1> QED
  BY <1>1, <1>2, <1>5, <1>6

-----------------------------------------------------------------------------
(* The default routes.                                                     *)

LEMMA FirstDecides ==
  ASSUME NEW routes, NEW n \in Nat, DOMAIN routes = 1..n,
         NEW i \in 1..n, routes[i].when, \A j \in 1..(i - 1) : ~routes[j].when
  PROVE  Evaluate(routes) = routes[i].do
<1> DEFINE F(k) == routes[k].when /\ \A j \in 1..(k - 1) : ~routes[j].when
<1>1. F(i)
  OBVIOUS
<1>2. ASSUME NEW k \in 1..n, F(k) PROVE k = i
  <2>1. ~(k < i)
    <3>1. k < i => k \in 1..(i - 1)
      OBVIOUS
    <3> QED
      BY <1>2, <3>1
  <2>2. ~(i < k)
    <3>1. i < k => i \in 1..(k - 1)
      OBVIOUS
    <3> QED
      BY <1>2, <3>1
  <2> QED
    BY <2>1, <2>2
<1>3. (CHOOSE k \in DOMAIN routes : F(k)) = i
  <2> HIDE DEF F
  <2> QED
    BY <1>1, <1>2
<1>4. \E k \in DOMAIN routes : routes[k].when
  OBVIOUS
<1> QED
  BY <1>3, <1>4 DEF Evaluate

Listing(ev) == ev.card = "valid" /\ (ev.id # NoList \/ ev.name # Empty)

\* A card moved to a list, or made in one: the routes in their order.
LEMMA UpdateRouted ==
  ASSUME NEW v, NEW ev, ev.type = "updateCard", Listing(ev)
  PROVE  EvaluateRoute(v, ev) =
           IF In(v, "done", ev) THEN "terminate"
           ELSE IF In(v, "plan", ev) \/ In(v, "action", ev) THEN "dispatch"
           ELSE "notify_departure"
<1> DEFINE R == Routes(v, ev)
<1>0. DOMAIN R = 1..15
  BY DEF Routes
<1>1. /\ R[1].when = (ev.card = "none") /\ R[2].when = (ev.card = "invalid")
  BY DEF Routes, Route
<1>2. /\ R[3].when = (ev.type = "updateCard" /\ ~(ev.id # NoList \/ ev.name # Empty))
      /\ R[4].when = (ev.type = "updateCard" /\ In(v, "done", ev)) /\ R[4].do = "terminate"
  BY DEF Routes, Route
<1>3. /\ R[5].when = (ev.type = "updateCard" /\ In(v, "plan", ev)) /\ R[5].do = "dispatch"
      /\ R[6].when = (ev.type = "updateCard" /\ In(v, "action", ev)) /\ R[6].do = "dispatch"
      /\ R[7].when = (ev.type = "updateCard" /\ (ev.id # NoList \/ ev.name # Empty))
      /\ R[7].do = "notify_departure"
  BY DEF Routes, Route
<1>4. EvaluateRoute(v, ev) = Evaluate(R)
  BY DEF EvaluateRoute
<1> HIDE DEF R
<1>5. ~R[1].when /\ ~R[2].when /\ ~R[3].when /\ R[7].when
  BY <1>1, <1>2, <1>3 DEF Listing
<1>6. CASE In(v, "done", ev)
  <2>1. R[4].when /\ \A j \in {1, 2, 3} : ~R[j].when
    BY <1>2, <1>5, <1>6
  <2>2. \A j \in 1..(4 - 1) : j \in {1, 2, 3}
    OBVIOUS
  <2>3. \A j \in 1..(4 - 1) : ~R[j].when
    BY <2>1, <2>2
  <2>4. Evaluate(R) = R[4].do
    <3>1. R[4].when
      BY <2>1
    <3>2. 15 \in Nat /\ 4 \in 1..15
      OBVIOUS
    <3> QED
      BY <1>0, <2>3, <3>1, <3>2, FirstDecides
  <2> QED
    BY <1>2, <1>4, <1>6, <2>4
<1>7. CASE ~In(v, "done", ev) /\ In(v, "plan", ev)
  <2>1. R[5].when /\ \A j \in {1, 2, 3, 4} : ~R[j].when
    BY <1>2, <1>3, <1>5, <1>7
  <2>2. \A j \in 1..(5 - 1) : j \in {1, 2, 3, 4}
    OBVIOUS
  <2>3. \A j \in 1..(5 - 1) : ~R[j].when
    BY <2>1, <2>2
  <2>4. Evaluate(R) = R[5].do
    <3>1. R[5].when
      BY <2>1
    <3>2. 15 \in Nat /\ 5 \in 1..15
      OBVIOUS
    <3> QED
      BY <1>0, <2>3, <3>1, <3>2, FirstDecides
  <2> QED
    BY <1>3, <1>4, <1>7, <2>4
<1>8. CASE ~In(v, "done", ev) /\ ~In(v, "plan", ev) /\ In(v, "action", ev)
  <2>1. R[6].when /\ \A j \in {1, 2, 3, 4, 5} : ~R[j].when
    BY <1>2, <1>3, <1>5, <1>8
  <2>2. \A j \in 1..(6 - 1) : j \in {1, 2, 3, 4, 5}
    OBVIOUS
  <2>3. \A j \in 1..(6 - 1) : ~R[j].when
    BY <2>1, <2>2
  <2>4. Evaluate(R) = R[6].do
    <3>1. R[6].when
      BY <2>1
    <3>2. 15 \in Nat /\ 6 \in 1..15
      OBVIOUS
    <3> QED
      BY <1>0, <2>3, <3>1, <3>2, FirstDecides
  <2> QED
    BY <1>3, <1>4, <1>8, <2>4
<1>9. CASE ~In(v, "done", ev) /\ ~In(v, "plan", ev) /\ ~In(v, "action", ev)
  <2>1. R[7].when /\ \A j \in {1, 2, 3, 4, 5, 6} : ~R[j].when
    BY <1>2, <1>3, <1>5, <1>9
  <2>2. \A j \in 1..(7 - 1) : j \in {1, 2, 3, 4, 5, 6}
    OBVIOUS
  <2>3. \A j \in 1..(7 - 1) : ~R[j].when
    BY <2>1, <2>2
  <2>4. Evaluate(R) = R[7].do
    <3>1. R[7].when
      BY <2>1
    <3>2. 15 \in Nat /\ 7 \in 1..15
      OBVIOUS
    <3> QED
      BY <1>0, <2>3, <3>1, <3>2, FirstDecides
  <2> QED
    BY <1>3, <1>4, <1>9, <2>4
<1> QED
  BY <1>6, <1>7, <1>8, <1>9

LEMMA CreateRouted ==
  ASSUME NEW v, NEW ev, ev.type = "createCard", Listing(ev)
  PROVE  EvaluateRoute(v, ev) =
           IF In(v, "plan", ev) \/ In(v, "action", ev) THEN "dispatch" ELSE "drop"
<1> DEFINE R == Routes(v, ev)
           update == ev.type = "updateCard"
<1>0. DOMAIN R = 1..15
  BY DEF Routes
<1>1. /\ R[1].when = (ev.card = "none") /\ R[2].when = (ev.card = "invalid")
  BY DEF Routes, Route
<1>2. /\ R[3].when => update
      /\ R[4].when => update
      /\ R[5].when => update
      /\ R[6].when => update
      /\ R[7].when => update
  BY DEF Routes, Route
<1>3. /\ R[8].when = (ev.type = "createCard" /\ In(v, "plan", ev)) /\ R[8].do = "dispatch"
      /\ R[9].when = (ev.type = "createCard" /\ In(v, "action", ev)) /\ R[9].do = "dispatch"
      /\ R[10].when = (ev.type = "createCard") /\ R[10].do = "drop"
  BY DEF Routes, Route
<1>4. EvaluateRoute(v, ev) = Evaluate(R)
  BY DEF EvaluateRoute
<1> HIDE DEF R
<1>5. /\ ~R[1].when /\ ~R[2].when /\ ~R[3].when /\ ~R[4].when
      /\ ~R[5].when /\ ~R[6].when /\ ~R[7].when
  BY <1>1, <1>2 DEF Listing
<1>6. CASE In(v, "plan", ev)
  <2>1. R[8].when /\ \A j \in {1, 2, 3, 4, 5, 6, 7} : ~R[j].when
    BY <1>3, <1>5, <1>6
  <2>2. \A j \in 1..(8 - 1) : j \in {1, 2, 3, 4, 5, 6, 7}
    OBVIOUS
  <2>3. \A j \in 1..(8 - 1) : ~R[j].when
    BY <2>1, <2>2
  <2>4. Evaluate(R) = R[8].do
    <3>1. R[8].when
      BY <2>1
    <3>2. 15 \in Nat /\ 8 \in 1..15
      OBVIOUS
    <3> QED
      BY <1>0, <2>3, <3>1, <3>2, FirstDecides
  <2> QED
    BY <1>3, <1>4, <1>6, <2>4
<1>7. CASE ~In(v, "plan", ev) /\ In(v, "action", ev)
  <2>1. R[9].when /\ \A j \in {1, 2, 3, 4, 5, 6, 7, 8} : ~R[j].when
    BY <1>3, <1>5, <1>7
  <2>2. \A j \in 1..(9 - 1) : j \in {1, 2, 3, 4, 5, 6, 7, 8}
    OBVIOUS
  <2>3. \A j \in 1..(9 - 1) : ~R[j].when
    BY <2>1, <2>2
  <2>4. Evaluate(R) = R[9].do
    <3>1. R[9].when
      BY <2>1
    <3>2. 15 \in Nat /\ 9 \in 1..15
      OBVIOUS
    <3> QED
      BY <1>0, <2>3, <3>1, <3>2, FirstDecides
  <2> QED
    BY <1>3, <1>4, <1>7, <2>4
<1>8. CASE ~In(v, "plan", ev) /\ ~In(v, "action", ev)
  <2>1. R[10].when /\ \A j \in {1, 2, 3, 4, 5, 6, 7, 8, 9} : ~R[j].when
    BY <1>3, <1>5, <1>8
  <2>2. \A j \in 1..(10 - 1) : j \in {1, 2, 3, 4, 5, 6, 7, 8, 9}
    OBVIOUS
  <2>3. \A j \in 1..(10 - 1) : ~R[j].when
    BY <2>1, <2>2
  <2>4. Evaluate(R) = R[10].do
    <3>1. R[10].when
      BY <2>1
    <3>2. 15 \in Nat /\ 10 \in 1..15
      OBVIOUS
    <3> QED
      BY <1>0, <2>3, <3>1, <3>2, FirstDecides
  <2> QED
    BY <1>3, <1>4, <1>8, <2>4
<1> QED
  BY <1>6, <1>7, <1>8

\* A list of category c, and of no other, has the effect that c stands for.
LEMMA RoutedAsExpected ==
  ASSUME NEW v, NEW ev, ev.type \in {"updateCard", "createCard"}, Listing(ev),
         NEW c \in Categories \cup {Unknown},
         \A d \in Deciding : In(v, d, ev) <=> d = c
  PROVE  EvaluateRoute(v, ev) = Expected(ev.type, c)
<1>1. /\ In(v, "done", ev) <=> c = "done"
      /\ In(v, "plan", ev) <=> c = "plan"
      /\ In(v, "action", ev) <=> c = "action"
  BY DEF Deciding
<1>2. CASE ev.type = "updateCard"
  <2>1. EvaluateRoute(v, ev) =
          IF In(v, "done", ev) THEN "terminate"
          ELSE IF In(v, "plan", ev) \/ In(v, "action", ev) THEN "dispatch"
          ELSE "notify_departure"
    BY <1>2, UpdateRouted
  <2>2. CASE c = "done"
    BY <1>1, <1>2, <2>1, <2>2 DEF Expected
  <2>3. CASE c \in {"plan", "action"}
    <3>1. ~In(v, "done", ev) /\ (In(v, "plan", ev) \/ In(v, "action", ev))
      BY <1>1, <2>3
    <3>2. Expected(ev.type, c) = "dispatch"
      BY <2>3 DEF Expected
    <3> QED
      BY <2>1, <3>1, <3>2
  <2>4. CASE c \notin {"done", "plan", "action"}
    <3>1. ~In(v, "done", ev) /\ ~In(v, "plan", ev) /\ ~In(v, "action", ev)
      BY <1>1, <2>4
    <3>2. Expected(ev.type, c) = "notify_departure"
      BY <1>2, <2>4 DEF Expected
    <3> QED
      BY <2>1, <3>1, <3>2
  <2> QED
    BY <2>2, <2>3, <2>4
<1>3. CASE ev.type = "createCard"
  <2>1. EvaluateRoute(v, ev) = IF c \in {"plan", "action"} THEN "dispatch" ELSE "drop"
    BY <1>1, <1>3, CreateRouted
  <2> QED
    BY <1>3, <2>1 DEF Expected
<1> QED
  BY <1>2, <1>3

-----------------------------------------------------------------------------
(* The inductive invariant of the routing.                                 *)

\* The view is that of the board at startup, of which the lists that nobody
\* renamed are left as they were.
StartedWith(b) ==
  /\ Startup(config, b)
  /\ view = Resolve(config, b)
  /\ \A l \in DOMAIN board \ renamed : l \in DOMAIN b /\ board[l] = b[l]
  /\ \A l \in DOMAIN b \ renamed : l \in DOMAIN board

\* The event of a history is one of a list the board has, and was routed.
Routed ==
  /\ phase = "running"
  /\ last.ev \in ListEvents \cup OtherEvents
  /\ last.do = EvaluateRoute(view, last.ev)

RoutingInv ==
  /\ config \in Configs
  /\ DOMAIN board \subseteq Lists /\ \A l \in DOMAIN board : board[l] \in Names
  /\ phase = "running" => \E b : StartedWith(b)
  /\ last = NoEvent \/ Routed

LEMMA RoutingInvInit == RoutingInit => RoutingInv
<1> SUFFICES ASSUME RoutingInit PROVE RoutingInv
  OBVIOUS
<1>1. PICK open \in SUBSET Lists : \E letters \in [open -> Letters], l \in open, cap, sp \in BOOLEAN :
        board = [k \in open |-> [letters |-> letters[k],
                                 capital |-> k = l /\ cap, spaced |-> k = l /\ sp]]
  BY DEF RoutingInit
<1>2. PICK letters \in [open -> Letters], l \in open, cap \in BOOLEAN, sp \in BOOLEAN :
        board = [k \in open |-> [letters |-> letters[k],
                                 capital |-> k = l /\ cap, spaced |-> k = l /\ sp]]
  BY <1>1
<1>3. DOMAIN board \subseteq Lists /\ \A k \in DOMAIN board : board[k] \in Names
  BY <1>2 DEF Names
<1> QED
  BY <1>3 DEF RoutingInit, RoutingInv

LEMMA RoutingInvStep == RoutingInv /\ [RoutingNext]_routingVars => RoutingInv'
<1> SUFFICES ASSUME RoutingInv, [RoutingNext]_routingVars PROVE RoutingInv'
  OBVIOUS
<1>1. CASE UNCHANGED routingVars
  <2>1. UNCHANGED <<board, config, view, phase, renamed, last>>
    BY <1>1 DEF routingVars
  <2> QED
    BY <2>1 DEF RoutingInv, StartedWith, Routed, ListEvents
<1>2. CASE LoadAndResolve
  <2>1. UNCHANGED <<board, config, renamed, last>> /\ phase = "starting"
    BY <1>2 DEF LoadAndResolve
  <2>2. last' = NoEvent
    BY <2>1 DEF RoutingInv, Routed
  <2>3. ASSUME phase' = "running" PROVE StartedWith(board)'
    <3>1. Resolvable(config, board) /\ view' = Resolve(config, board)
      BY <1>2, <2>3 DEF LoadAndResolve
    <3>2. config \in [Roles -> Names]
      BY RoutingAssumption DEF RoutingAssumption, RoutingInv
    <3> QED
      BY <2>1, <3>1, <3>2 DEF RoutingInv, StartedWith, Startup
  <2> QED
    BY <2>1, <2>2, <2>3 DEF RoutingInv
<1>3. ASSUME NEW l \in DOMAIN board, NEW n \in Names, Rename(l, n) PROVE RoutingInv'
  <2>1. /\ UNCHANGED <<config, view, phase, last>> /\ phase = "running" /\ last = NoEvent
        /\ renamed' = renamed \cup {l}
        /\ board' = [board EXCEPT ![l] = n]
    BY <1>3 DEF Rename
  <2>2. /\ DOMAIN board' = DOMAIN board
        /\ \A k \in DOMAIN board : k # l => board'[k] = board[k]
        /\ \A k \in DOMAIN board' : board'[k] \in Names
    BY <2>1 DEF RoutingInv
  <2>3. PICK b : StartedWith(b)
    BY <2>1 DEF RoutingInv
  <2>4. StartedWith(b)'
    BY <2>1, <2>2, <2>3 DEF StartedWith
  <2> QED
    BY <2>1, <2>2, <2>4 DEF RoutingInv
<1>4. ASSUME NEW l \in Lists, NEW n \in Names, AddList(l, n) PROVE RoutingInv'
  <2>1. /\ UNCHANGED <<config, view, phase, last>> /\ phase = "running" /\ last = NoEvent
        /\ l \notin DOMAIN board
        /\ renamed' = renamed \cup {l}
        /\ board' = [k \in DOMAIN board \cup {l} |-> IF k = l THEN n ELSE board[k]]
    BY <1>4 DEF AddList
  <2>2. /\ DOMAIN board' = DOMAIN board \cup {l}
        /\ \A k \in DOMAIN board : board'[k] = board[k]
        /\ \A k \in DOMAIN board' : board'[k] \in Names
    BY <2>1 DEF RoutingInv
  <2>3. PICK b : StartedWith(b)
    BY <2>1 DEF RoutingInv
  <2>4. StartedWith(b)'
    BY <2>1, <2>2, <2>3 DEF StartedWith
  <2> QED
    BY <2>1, <2>2, <2>4 DEF RoutingInv
<1>5. ASSUME NEW ev \in ListEvents \cup OtherEvents, Deliver(ev) PROVE RoutingInv'
  <2>1. /\ UNCHANGED <<board, config, view, phase, renamed>> /\ phase = "running"
        /\ last' = [ev |-> ev, do |-> EvaluateRoute(view, ev)]
    BY <1>5 DEF Deliver
  <2>2. last'.ev = ev /\ last'.do = EvaluateRoute(view, ev)
    BY <2>1
  <2>3. Routed'
    BY <2>1, <2>2 DEF Routed, ListEvents
  <2>4. \A b : StartedWith(b)' <=> StartedWith(b)
    BY <2>1 DEF StartedWith
  <2> QED
    BY <2>1, <2>3, <2>4 DEF RoutingInv
<1> QED
  BY <1>1, <1>2, <1>3, <1>4, <1>5 DEF RoutingNext

\* What a list event names: a list by its id, its present name, or both.
LEMMA ListEventIs ==
  ASSUME NEW ev \in ListEvents
  PROVE  /\ ev.type \in {"updateCard", "createCard"}
         /\ \E l \in DOMAIN board : ev.id \in {l, NoList} /\ ev.name \in {board[l], Empty}
<1>1. PICK type \in {"updateCard", "createCard"}, card \in {"valid", "invalid", "none"},
           l \in DOMAIN board, byId \in BOOLEAN, byName \in BOOLEAN :
        ev = Event(type, card, IF byId THEN l ELSE NoList, IF byName THEN board[l] ELSE Empty, "human")
  BY DEF ListEvents
<1>2. /\ ev.type = type
      /\ ev.id = IF byId THEN l ELSE NoList
      /\ ev.name = IF byName THEN board[l] ELSE Empty
  BY <1>1 DEF Event
<1> QED
  BY <1>2

\* An event about a list is one of ListEvents.
LEMMA ListedIs ==
  ASSUME RoutingInv, Listed
  PROVE  Routed /\ last.ev \in ListEvents
<1>1. last # NoEvent
  BY DEF Listed, NoEvent, Event
<1>2. ASSUME NEW ev \in OtherEvents PROVE ev.type \notin {"updateCard", "createCard"}
  BY DEF OtherEvents, Event
<1> QED
  BY <1>1, <1>2 DEF RoutingInv, Routed, Listed

\* Which lists and names a category is asked for.
LEMMA InIs ==
  ASSUME NEW b, StartedWith(b), NEW c \in Categories, NEW ev, NEW l \in DOMAIN board,
         DOMAIN board \subseteq Lists, board[l] \in Names,
         ev.id \in {l, NoList}, ev.name \in {board[l], Empty}
  PROVE  /\ ev.id \in view.ids[c] <=> ev.id \in DOMAIN b /\ CategoryIn(config, b[ev.id]) = c
         /\ Lower(ev.name) \in view.names[c] =>
              /\ ev.name # Empty /\ ~ev.name.spaced
              /\ CategoryIn(config, ev.name) = c
<1>1. ev.id \in view.ids[c] <=> ev.id \in DOMAIN b /\ CategoryIn(config, b[ev.id]) = c
  BY IdsResolved DEF StartedWith
<1>2. ASSUME Lower(ev.name) \in view.names[c]
      PROVE  ev.name # Empty /\ ~ev.name.spaced /\ CategoryIn(config, ev.name) = c
  <2>1. ev.name \in AnyName
    BY NamesAre
  <2>2. /\ Lower(ev.name) \in Names /\ ~Lower(ev.name).spaced
        /\ \A m : NormaliseName(m) = Lower(ev.name) => CategoryIn(config, m) = c
    BY <1>2, NamesResolved DEF StartedWith
  <2>3. ~ev.name.spaced
    BY <2>1, <2>2, LowerIs
  <2>4. NormaliseName(ev.name) = Lower(ev.name)
    BY <2>1, <2>3, NormaliseNameIs
  <2>5. ev.name.letters \in Letters
    <3>1. Lower(ev.name).letters \in Letters
      BY <2>2 DEF Names
    <3> QED
      BY <2>1, <3>1, LowerIs
  <2>6. ev.name # Empty
    BY <2>5, RoutingAssumption DEF RoutingAssumption, Empty
  <2> QED
    BY <2>2, <2>3, <2>4, <2>6
<1> QED
  BY <1>1, <1>2

-----------------------------------------------------------------------------
(* The theorems about the routing.                                         *)

\* The invariant behind the routing: the view stays that of the startup's board.
THEOREM RoutingInvariant == RoutingSpec => []RoutingInv
BY RoutingInvInit, RoutingInvStep, PTL DEF RoutingSpec

\* Resolve gives every list one category and every role its list.
THEOREM RoutingCategories == RoutingSpec => []EveryListHasACategory
<1>1. RoutingInv => EveryListHasACategory
  <2> SUFFICES ASSUME RoutingInv, phase = "running"
               PROVE
                 /\ \A l \in DOMAIN board \ renamed :
                      {c \in Categories : l \in view.ids[c]} = {CategoryOf(board[l])}
                 /\ \A r \in Roles : \E l \in view.ids[Category[r]] :
                      l \in renamed \/ NormaliseName(board[l]) = NormaliseName(config[r])
    BY DEF EveryListHasACategory
  <2>1. PICK b : StartedWith(b)
    BY DEF RoutingInv
  <2>2. Startup(config, b) /\ Validate(config)
    BY <2>1 DEF StartedWith, Startup, Resolvable
  <2>3. ASSUME NEW l \in DOMAIN board \ renamed
        PROVE  {c \in Categories : l \in view.ids[c]} = {CategoryOf(board[l])}
    <3>1. l \in DOMAIN b /\ board[l] = b[l]
      BY <2>1 DEF StartedWith
    <3>2. \A c \in Categories : l \in view.ids[c] <=> CategoryIn(config, board[l]) = c
      BY <2>1, <2>2, <3>1, IdsResolved DEF StartedWith
    <3>3. CategoryOf(board[l]) = CategoryIn(config, board[l]) /\ CategoryIn(config, board[l]) \in Categories
      BY <2>2, CategoryOfIs, CategoryInIs
    <3> QED
      BY <3>2, <3>3
  <2>4. ASSUME NEW r \in Roles
        PROVE  \E l \in view.ids[Category[r]] :
                 l \in renamed \/ NormaliseName(board[l]) = NormaliseName(config[r])
    <3> DEFINE l == ListOf(config, b, r)
    <3>1. l \in DOMAIN b /\ NormaliseName(b[l]) = NormaliseName(config[r])
      BY <2>2, RoleHasItsList
    <3> HIDE DEF l
    <3>2. Category[r] \in Categories
      BY RoutingAssumption DEF RoutingAssumption
    <3>3. CategoryIn(config, b[l]) = Category[r]
      BY <2>2, <3>1, CategoryInIs
    <3>4. l \in view.ids[Category[r]]
      BY <2>1, <2>2, <3>1, <3>2, <3>3, IdsResolved DEF StartedWith
    <3>5. l \notin renamed => board[l] = b[l]
      BY <2>1, <3>1 DEF StartedWith
    <3> QED
      BY <3>1, <3>4, <3>5
  <2> QED
    BY <2>3, <2>4
<1> QED
  BY <1>1, RoutingInvariant, PTL

\* Whatever users rename or make, a list keeps the category of its id, unless its
\* present name was that of a list to plan, to act on or done at startup; then the
\* event is routed for one of the two, and a move to Done ends the session anyway.
THEOREM RoutingByIds == RoutingSpec => []IdsSurviveRenames
<1>1. RoutingInv => IdsSurviveRenames
  <2> DEFINE ev == last.ev
             c == CategoryForListID(view, ev.id)
  <2> SUFFICES ASSUME RoutingInv, Listed, ev.id # NoList
               PROVE  /\ ~Claimed(ev.name) \/ (c = "done" /\ ev.type = "updateCard") =>
                           last.do = Expected(ev.type, c)
                      /\ last.do \in {Expected(ev.type, c),
                                      Expected(ev.type, CategoryForListName(view, ev.name))}
    BY DEF IdsSurviveRenames
  <2>1. Routed /\ ev \in ListEvents
    BY ListedIs
  <2>2. PICK b : StartedWith(b)
    BY <2>1 DEF RoutingInv, Routed
  <2>3. Startup(config, b) /\ Validate(config)
    BY <2>2 DEF StartedWith, Startup, Resolvable
  <2>4. PICK l \in DOMAIN board : ev.id \in {l, NoList} /\ ev.name \in {board[l], Empty}
    BY <2>1, ListEventIs
  <2>5. DOMAIN board \subseteq Lists /\ board[l] \in Names
    BY DEF RoutingInv
  <2>6. last.do = EvaluateRoute(view, ev) /\ ev.type \in {"updateCard", "createCard"} /\ Listing(ev)
    BY <2>1, ListEventIs DEF Routed, Listed, Listing
  <2> HIDE DEF ev
  <2>7. /\ c \in Categories \cup {Unknown}
        /\ \A d \in Categories : ev.id \in view.ids[d] <=> d = c
    <3>1. \A d \in Categories : ev.id \in view.ids[d] <=> ev.id \in DOMAIN b /\ CategoryIn(config, b[ev.id]) = d
      BY <2>2, <2>4, <2>5, InIs
    <3>2. CASE \E d \in Categories : ev.id \in view.ids[d]
      <4>1. c \in Categories /\ ev.id \in view.ids[c]
        BY <3>2 DEF CategoryForListID
      <4> QED
        BY <3>1, <4>1
    <3>3. CASE ~\E d \in Categories : ev.id \in view.ids[d]
      <4>1. c = Unknown
        BY <3>3 DEF CategoryForListID
      <4>2. Unknown \notin Categories
        BY DEF Unknown, Categories
      <4> QED
        BY <3>3, <4>1, <4>2
    <3> QED
      BY <3>2, <3>3
  <2> HIDE DEF c
  <2>8. CASE ~Claimed(ev.name)
    <3>1. \A d \in Deciding : In(view, d, ev) <=> d = c
      BY <2>7, <2>8 DEF In, Claimed, Deciding, Categories
    <3> QED
      BY <2>6, <2>7, <3>1, RoutedAsExpected
  <2>9. CASE c = "done" /\ ev.type = "updateCard"
    <3>1. In(view, "done", ev)
      BY <2>7, <2>9 DEF In, Categories
    <3>2. EvaluateRoute(view, ev) = "terminate"
      BY <2>6, <2>9, <3>1, UpdateRouted
    <3> QED
      BY <2>6, <2>9, <3>2 DEF Expected
  <2>10. CASE Claimed(ev.name)
    <3> DEFINE n == CategoryForListName(view, ev.name)
    <3>1. PICK d \in Deciding : Lower(ev.name) \in view.names[d]
      BY <2>10 DEF Claimed
    <3>2. d \in Categories
      BY <3>1 DEF Deciding, Categories
    <3>3. \A e \in Categories : Lower(ev.name) \in view.names[e] => CategoryIn(config, ev.name) = e
      BY <2>2, <2>4, <2>5, InIs
    <3>4. NormaliseName(ev.name) = Lower(ev.name)
      <4>1. ev.name \in AnyName
        BY <2>4, <2>5, NamesAre
      <4>2. ~ev.name.spaced
        BY <2>2, <2>4, <2>5, <3>1, <3>2, InIs
      <4> QED
        BY <4>1, <4>2, NormaliseNameIs
    <3>5. n = d
      <4>1. n \in Categories /\ Lower(ev.name) \in view.names[n]
        BY <3>1, <3>2, <3>4 DEF CategoryForListName
      <4> HIDE DEF n
      <4> QED
        BY <3>1, <3>2, <3>3, <4>1
    <3> HIDE DEF n
    <3>6. \A e \in Deciding : In(view, e, ev) <=> e = c \/ e = d
      <4>1. \A e \in Deciding : Lower(ev.name) \in view.names[e] <=> e = d
        BY <3>1, <3>2, <3>3 DEF Deciding, Categories
      <4> QED
        BY <2>7, <4>1 DEF In, Deciding, Categories
    <3>7. ASSUME ev.type = "updateCard"
          PROVE  EvaluateRoute(view, ev) \in {Expected(ev.type, c), Expected(ev.type, d)}
      <4>1. EvaluateRoute(view, ev) =
              IF In(view, "done", ev) THEN "terminate"
              ELSE IF In(view, "plan", ev) \/ In(view, "action", ev) THEN "dispatch"
              ELSE "notify_departure"
        BY <2>6, <3>7, UpdateRouted
      <4>2. CASE c = "done" \/ d = "done"
        <5>1. EvaluateRoute(view, ev) = "terminate" /\ Expected(ev.type, "done") = "terminate"
          BY <3>6, <3>7, <4>1, <4>2 DEF Deciding, Expected
        <5> QED
          BY <4>2, <3>7, <5>1
      <4>3. CASE c # "done" /\ d # "done"
        <5>1. d \in {"plan", "action"}
          BY <4>3 DEF Deciding
        <5>2. EvaluateRoute(view, ev) = "dispatch" /\ Expected(ev.type, d) = "dispatch"
          BY <3>6, <4>1, <4>3, <5>1 DEF Deciding, Expected
        <5> QED
          BY <5>2
      <4> QED
        BY <4>2, <4>3
    <3>8. ASSUME ev.type = "createCard"
          PROVE  EvaluateRoute(view, ev) \in {Expected(ev.type, c), Expected(ev.type, d)}
      <4>1. EvaluateRoute(view, ev) =
              IF In(view, "plan", ev) \/ In(view, "action", ev) THEN "dispatch" ELSE "drop"
        BY <2>6, <3>8, CreateRouted
      <4>2. CASE c \in {"plan", "action"} \/ d \in {"plan", "action"}
        <5>1. EvaluateRoute(view, ev) = "dispatch"
          BY <3>6, <4>1, <4>2 DEF Deciding
        <5>2. \A e \in {"plan", "action"} : Expected(ev.type, e) = "dispatch"
          BY DEF Expected
        <5> QED
          BY <4>2, <5>1, <5>2
      <4>3. CASE c \notin {"plan", "action"} /\ d \notin {"plan", "action"}
        <5>1. EvaluateRoute(view, ev) = "drop"
          BY <3>6, <4>1, <4>3 DEF Deciding
        <5>2. Expected(ev.type, d) = "drop"
          BY <3>8, <4>3 DEF Expected
        <5> QED
          BY <5>1, <5>2
      <4> QED
        BY <4>2, <4>3
    <3>9. last.do \in {Expected(ev.type, c), Expected(ev.type, CategoryForListName(view, ev.name))}
      <4>1. EvaluateRoute(view, ev) \in {Expected(ev.type, c), Expected(ev.type, d)}
        BY <2>6, <3>7, <3>8
      <4>2. CategoryForListName(view, ev.name) = d
        BY <3>5 DEF n
      <4> QED
        BY <2>6, <4>1, <4>2
    <3> QED
      BY <2>9, <2>10, <3>9
  <2> QED
    BY <2>8, <2>10
<1> QED
  BY <1>1, RoutingInvariant, PTL

\* A card is handled by the list it is in, whatever the board, the roles' names and
\* their capitals and spaces.
THEOREM RoutingByList == RoutingSpec => []RoutedByItsList
<1>1. RoutingInv => RoutedByItsList
  <2> DEFINE ev == last.ev
  <2> SUFFICES ASSUME RoutingInv, Listed
               PROVE  /\ renamed = {} /\ ev.id # NoList =>
                           last.do = Expected(ev.type, CategoryOf(board[ev.id]))
                      /\ ev.id = NoList /\ ev.name # Empty /\ ~ev.name.spaced =>
                           last.do = Expected(ev.type, CategoryForListName(view, ev.name))
    BY DEF RoutedByItsList
  <2>1. Routed /\ ev \in ListEvents
    BY ListedIs
  <2>2. PICK b : StartedWith(b)
    BY <2>1 DEF RoutingInv, Routed
  <2>3. Startup(config, b) /\ Validate(config)
    BY <2>2 DEF StartedWith, Startup, Resolvable
  <2>4. PICK l \in DOMAIN board : ev.id \in {l, NoList} /\ ev.name \in {board[l], Empty}
    BY <2>1, ListEventIs
  <2>5. DOMAIN board \subseteq Lists /\ board[l] \in Names
    BY DEF RoutingInv
  <2>6. last.do = EvaluateRoute(view, ev) /\ ev.type \in {"updateCard", "createCard"} /\ ev.card = "valid"
    BY <2>1, ListEventIs DEF Routed, Listed
  <2> HIDE DEF ev
  <2>7. ASSUME renamed = {}, ev.id # NoList
        PROVE  last.do = Expected(ev.type, CategoryOf(board[ev.id]))
    <3> DEFINE c == CategoryIn(config, board[l])
    <3>1. c \in Categories /\ CategoryOf(board[l]) = c
      BY <2>3, CategoryInIs, CategoryOfIs
    <3>2. ev.id = l /\ l \in DOMAIN b /\ b[l] = board[l]
      BY <2>2, <2>4, <2>7 DEF StartedWith
    <3>3. ASSUME NEW d \in Categories PROVE In(view, d, ev) <=> d = c
      <4>1. ev.id \in view.ids[d] <=> d = c
        BY <2>2, <2>4, <2>5, <3>2, InIs
      <4>2. Lower(ev.name) \in view.names[d] => d = c
        BY <2>2, <2>4, <2>5, InIs
      <4> QED
        BY <4>1, <4>2 DEF In
    <3>4. Listing(ev)
      BY <2>6, <2>7 DEF Listing
    <3> HIDE DEF c
    <3> QED
      BY <2>6, <3>1, <3>2, <3>3, <3>4, RoutedAsExpected DEF Deciding, Categories
  <2>8. ASSUME ev.id = NoList, ev.name # Empty, ~ev.name.spaced
        PROVE  last.do = Expected(ev.type, CategoryForListName(view, ev.name))
    <3> DEFINE c == CategoryForListName(view, ev.name)
    <3>1. NormaliseName(ev.name) = Lower(ev.name)
      <4>1. ev.name \in AnyName
        BY <2>4, <2>5, NamesAre
      <4> QED
        BY <2>8, <4>1, NormaliseNameIs
    <3>2. NoList \notin DOMAIN b
      BY <2>3, RoutingAssumption DEF RoutingAssumption, Startup
    <3>3. \A d \in Categories : ev.id \notin view.ids[d]
      BY <2>2, <2>4, <2>5, <2>8, <3>2, InIs
    <3>4. \A d \in Categories : Lower(ev.name) \in view.names[d] => CategoryIn(config, ev.name) = d
      BY <2>2, <2>4, <2>5, InIs
    <3>5. /\ c \in Categories \cup {Unknown}
          /\ \A d \in Categories : Lower(ev.name) \in view.names[d] <=> d = c
      <4>1. CASE \E d \in Categories : Lower(ev.name) \in view.names[d]
        <5>1. c \in Categories /\ Lower(ev.name) \in view.names[c]
          BY <3>1, <4>1 DEF CategoryForListName
        <5> QED
          BY <3>4, <5>1
      <4>2. CASE ~\E d \in Categories : Lower(ev.name) \in view.names[d]
        <5>1. c = Unknown
          BY <3>1, <4>2 DEF CategoryForListName
        <5>2. Unknown \notin Categories
          BY DEF Unknown, Categories
        <5> QED
          BY <4>2, <5>1, <5>2
      <4> QED
        BY <4>1, <4>2
    <3>6. Listing(ev)
      BY <2>6, <2>8 DEF Listing
    <3> HIDE DEF c
    <3>7. \A d \in Categories : In(view, d, ev) <=> d = c
      BY <3>3, <3>5 DEF In
    <3>8. EvaluateRoute(view, ev) = Expected(ev.type, c)
      BY <2>6, <3>5, <3>6, <3>7, RoutedAsExpected DEF Deciding, Categories
    <3> QED
      BY <2>6, <3>8 DEF c
  <2> QED
    BY <2>7, <2>8 DEF ev
<1> QED
  BY <1>1, RoutingInvariant, PTL
=============================================================================
