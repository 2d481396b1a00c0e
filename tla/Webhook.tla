------------------------------- MODULE Webhook -------------------------------
(***************************************************************************)
(* The board's webhook at Trello across gateway processes: each process    *)
(* opens a quick tunnel with a URL of its own, reconciles the webhook with *)
(* it, serves, and cleans up (src/internal/app/tunnel_startup.go,          *)
(* trelloclient/client.go, and the deferred calls of src/main.go).         *)
(*                                                                         *)
(* A public URL is named by the process whose tunnel it is.  A process may *)
(* be killed at any point, and the answer to any request may be lost.  The *)
(* tunnel is a child process (tunnel/provider.go): it may end at any time, *)
(* and it outlives a gateway that is killed.                               *)
(***************************************************************************)
EXTENDS Naturals, FiniteSets

CONSTANTS
  Gateways,     \* processes, each started once
  Hooks,        \* webhook ids
  NoHook,       \* the empty webhookID
  Operator,     \* whoever provisions webhooks out of band, and their URL
  Provisioned   \* the hooks that are there before the first process

ASSUME WebhookAssumption ==
  /\ Operator \notin Gateways
  /\ NoHook \notin Hooks
  /\ Provisioned \subseteq Hooks /\ IsFiniteSet(Provisioned)

VARIABLES
  pc,        \* how far each process has come, or how it ended
  tunnel,    \* its cloudflared: "none", "starting", "up" once the URL is printed, "exited"
  stop,      \* how far provider.Stop has come: "no", "asked" or "killed"
  cancelled, \* was it told to stop (the context of main)?
  listed,    \* the board's webhooks it was shown
  hook,      \* webhookID
  created,   \* createdNow
  callback,  \* Trello: the callback URL of every webhook of the board
  maker,     \* history: who made each webhook there ever was
  byHand,    \* history: webhooks removed by somebody else
  met        \* history: has a process started while another one ran?

localVars == <<pc, tunnel, stop, cancelled, listed, hook, created>>
trelloVars == <<callback, maker, byHand>>
vars == <<localVars, trelloVars, met>>

Starting == {"tunnel", "list", "apply", "wait", "cancelled", "giveup"}
Serving  == {"serve", "delete", "leave", "close"}
Ended    == {"aborted", "crashed", "stopped", "leftover"}

TypeOK ==
  /\ pc \in [Gateways -> {"down"} \cup Starting \cup Serving \cup Ended]
  /\ tunnel \in [Gateways -> {"none", "starting", "up", "exited"}]
  /\ stop \in [Gateways -> {"no", "asked", "killed"}]
  /\ cancelled \in [Gateways -> BOOLEAN]
  /\ listed \in [Gateways -> SUBSET Hooks]
  /\ hook \in [Gateways -> Hooks \cup {NoHook}]
  /\ created \in [Gateways -> BOOLEAN]
  /\ DOMAIN maker \subseteq Hooks
  /\ DOMAIN callback \subseteq DOMAIN maker
  /\ byHand \subseteq DOMAIN maker
  /\ \A h \in DOMAIN callback : callback[h] \in Gateways \cup {Operator}
  /\ \A h \in DOMAIN maker : maker[h] \in Gateways \cup {Operator}
  /\ met \in BOOLEAN

Init ==
  /\ pc = [g \in Gateways |-> "down"]
  /\ tunnel = [g \in Gateways |-> "none"]
  /\ stop = [g \in Gateways |-> "no"]
  /\ cancelled = [g \in Gateways |-> FALSE]
  /\ listed = [g \in Gateways |-> {}]
  /\ hook = [g \in Gateways |-> NoHook]
  /\ created = [g \in Gateways |-> FALSE]
  /\ callback = [h \in Provisioned |-> Operator]
  /\ maker = callback
  /\ byHand = {}
  /\ met = FALSE

Goto(g, from, to) == pc[g] = from /\ pc' = [pc EXCEPT ![g] = to]

Running(g) == pc[g] \in Starting \cup Serving

\* The process's URL leads to it.
Leads(g) == Running(g) /\ tunnel[g] = "up"

\* Mutant of Live: the requests are not given the context.
LiveAlways(g) == TRUE

\* A request goes out only under a context that is not cancelled.
Live(g) == ~cancelled[g]

-----------------------------------------------------------------------------
(* Trello, as the requests see it.                                         *)

Set(h, g) == [k \in DOMAIN callback \cup {h} |-> IF k = h THEN g ELSE callback[k]]

Remove(h) == [k \in DOMAIN callback \ {h} |-> callback[k]]

\* Somebody removes a webhook by hand.
OperatorDeletes(h) ==
  /\ h \in DOMAIN callback
  /\ callback' = Remove(h)
  /\ byHand' = byHand \cup {h}
  /\ UNCHANGED <<localVars, maker, met>>

-----------------------------------------------------------------------------
(* StartTunnelAndReconcileWithOwnership.                                   *)

Start(g) ==
  /\ Goto(g, "down", "tunnel")
  /\ met' = (met \/ \E f \in Gateways : Running(f))
  /\ UNCHANGED <<tunnel, stop, cancelled, listed, hook, created, trelloVars>>

\* provider.Start: the child process is started, prints its URL, or ends.
SpawnTunnel(g) ==
  /\ pc[g] = "tunnel" /\ tunnel[g] = "none"
  /\ tunnel' = [tunnel EXCEPT ![g] = "starting"]
  /\ UNCHANGED <<pc, stop, cancelled, listed, hook, created, trelloVars, met>>

TunnelPrintsUrl(g) ==
  /\ tunnel[g] = "starting"
  /\ tunnel' = [tunnel EXCEPT ![g] = "up"]
  /\ UNCHANGED <<pc, stop, cancelled, listed, hook, created, trelloVars, met>>

TunnelExits(g) ==
  /\ tunnel[g] \in {"starting", "up"}
  /\ tunnel' = [tunnel EXCEPT ![g] = "exited"]
  /\ UNCHANGED <<pc, stop, cancelled, listed, hook, created, trelloVars, met>>

\* The URL is returned; nobody watches the child from then on.
TunnelUp(g) ==
  /\ tunnel[g] = "up"
  /\ Goto(g, "tunnel", "list")
  /\ UNCHANGED <<tunnel, stop, cancelled, listed, hook, created, trelloVars, met>>

\* The child cannot be started, or ends first; or the context does, by its 60
\* seconds or a signal, and then the child is stopped.
TunnelFails(g) ==
  /\ \/ tunnel[g] \in {"none", "exited"} /\ Goto(g, "tunnel", "aborted")
     \/ tunnel[g] # "none" /\ Goto(g, "tunnel", "cancelled")
  /\ UNCHANGED <<tunnel, stop, cancelled, listed, hook, created, trelloVars, met>>

\* Mutant of List: only a webhook that has the new URL already is considered.
ListByUrl(g) ==
  /\ Live(g)
  /\ Goto(g, "list", "apply")
  /\ listed' = [listed EXCEPT ![g] = {h \in DOMAIN callback : callback[h] = g}]
  /\ UNCHANGED <<tunnel, stop, cancelled, hook, created, trelloVars, met>>

List(g) ==
  /\ Live(g)
  /\ Goto(g, "list", "apply")
  /\ listed' = [listed EXCEPT ![g] = DOMAIN callback]
  /\ UNCHANGED <<tunnel, stop, cancelled, hook, created, trelloVars, met>>

\* Mutant of Update: an existing webhook is taken as it is.
UpdateSkipped(g, h) ==
  /\ Live(g)
  /\ h \in listed[g]
  /\ Goto(g, "apply", "serve")
  /\ hook' = [hook EXCEPT ![g] = h]
  /\ UNCHANGED <<tunnel, stop, cancelled, listed, created, trelloVars, met>>

\* Mutant of Update: the process takes the webhook for its own.
UpdateOwned(g, h) ==
  /\ Live(g)
  /\ h \in listed[g]
  /\ Goto(g, "apply", "serve")
  /\ callback' = IF h \in DOMAIN callback THEN Set(h, g) ELSE callback
  /\ hook' = [hook EXCEPT ![g] = h]
  /\ created' = [created EXCEPT ![g] = TRUE]
  /\ UNCHANGED <<tunnel, stop, cancelled, listed, maker, byHand, met>>

\* The first listed webhook gets the new URL.  It may have gone since, and
\* then, as when the answer is lost, the process gives up.
Update(g, h) ==
  /\ Live(g)
  /\ h \in listed[g]
  /\ \/ /\ Goto(g, "apply", "serve")
        /\ h \in DOMAIN callback
        /\ callback' = Set(h, g)
        /\ hook' = [hook EXCEPT ![g] = h]
     \/ /\ Goto(g, "apply", "giveup")
        /\ callback' = IF h \in DOMAIN callback THEN Set(h, g) ELSE callback
        /\ UNCHANGED hook
  /\ created' = [created EXCEPT ![g] = FALSE]
  /\ UNCHANGED <<tunnel, stop, cancelled, listed, maker, byHand, met>>

\* There is none: make one.  When the answer is lost nobody learns its id.
Create(g) ==
  /\ Live(g)
  /\ listed[g] = {}
  /\ \E h \in Hooks \ DOMAIN maker :
       /\ callback' = Set(h, g)
       /\ maker' = [k \in DOMAIN maker \cup {h} |-> IF k = h THEN g ELSE maker[k]]
       /\ \/ /\ Goto(g, "apply", "serve")
             /\ hook' = [hook EXCEPT ![g] = h]
             /\ created' = [created EXCEPT ![g] = TRUE]
          \/ /\ Goto(g, "apply", "giveup")
             /\ UNCHANGED <<hook, created>>
  /\ UNCHANGED <<tunnel, stop, cancelled, listed, byHand, met>>

\* Trello's validator cannot reach the URL yet: wait and start over.
ValidatorRefuses(g) ==
  /\ Live(g)
  /\ Goto(g, "apply", "wait")
  /\ UNCHANGED <<tunnel, stop, cancelled, listed, hook, created, trelloVars, met>>

\* Any other error, the cancelled context among them, is final.
RequestFails(g) ==
  /\ Goto(g, "list", "giveup") \/ Goto(g, "apply", "giveup")
  /\ UNCHANGED <<tunnel, stop, cancelled, listed, hook, created, trelloVars, met>>

\* The back-off ends, or the context does; when both have, either may be seen.
Backoff(g) ==
  /\ \/ Goto(g, "wait", "list")
     \/ cancelled[g] /\ Goto(g, "wait", "giveup")
  /\ UNCHANGED <<tunnel, stop, cancelled, listed, hook, created, trelloVars, met>>

-----------------------------------------------------------------------------
(* The shutdown, and the lack of one.                                      *)

Signal(g) ==
  /\ Running(g)
  /\ Live(g)
  /\ cancelled' = [cancelled EXCEPT ![g] = TRUE]
  /\ UNCHANGED <<pc, tunnel, stop, listed, hook, created, trelloVars, met>>

\* Mutant of Shutdown: the tunnel is closed first.
ShutdownTunnelFirst(g) ==
  /\ cancelled[g]
  /\ Goto(g, "serve", IF created[g] THEN "delete" ELSE "close")
  /\ tunnel' = [tunnel EXCEPT ![g] = "exited"]
  /\ stop' = [stop EXCEPT ![g] = "asked"]
  /\ UNCHANGED <<cancelled, listed, hook, created, trelloVars, met>>

\* main sees the end of its context; the first deferred call that concerns
\* Trello is there only if this process made the webhook.
Shutdown(g) ==
  /\ cancelled[g]
  /\ Goto(g, "serve", IF created[g] THEN "delete" ELSE "close")
  /\ UNCHANGED <<tunnel, stop, cancelled, listed, hook, created, trelloVars, met>>

\* DeleteWebhook; that the webhook has gone already is a success.
DeleteGatewayCreatedWebhook(g) ==
  /\ Goto(g, "delete", "close")
  /\ callback' = Remove(hook[g])
  /\ UNCHANGED <<tunnel, stop, cancelled, listed, hook, created, maker, byHand, met>>

\* Its failure, after which the webhook may be gone all the same, is only logged.
DeleteFails(g) ==
  /\ Goto(g, "delete", "leave")
  /\ callback' \in {callback, Remove(hook[g])}
  /\ UNCHANGED <<tunnel, stop, cancelled, listed, hook, created, maker, byHand, met>>

\* provider.Stop is called by Start, by the caller that gives up, after which main
\* exits without its deferred calls, and by the last of these.
AfterStop ==
  [cancelled |-> "aborted", giveup |-> "aborted", close |-> "stopped", leave |-> "leftover"]

Stopping(g) == pc[g] \in DOMAIN AfterStop

\* Mutant of AskTunnel: the child's end is not waited for.
AskTunnelOnly(g) ==
  /\ Stopping(g) /\ stop[g] = "no"
  /\ stop' = [stop EXCEPT ![g] = "asked"]
  /\ pc' = [pc EXCEPT ![g] = AfterStop[@]]
  /\ UNCHANGED <<tunnel, cancelled, listed, hook, created, trelloVars, met>>

\* SIGTERM; that the child has ended already is an error, and the end of Stop.  It is
\* the only error: a process may signal and kill a child of its own.
AskTunnel(g) ==
  /\ Stopping(g) /\ stop[g] = "no"
  /\ stop' = [stop EXCEPT ![g] = "asked"]
  /\ pc' = [pc EXCEPT ![g] = IF tunnel[g] = "exited" THEN AfterStop[@] ELSE @]
  /\ UNCHANGED <<tunnel, cancelled, listed, hook, created, trelloVars, met>>

\* After five seconds.
KillTunnel(g) ==
  /\ Stopping(g) /\ stop[g] = "asked" /\ tunnel[g] # "exited"
  /\ stop' = [stop EXCEPT ![g] = "killed"]
  /\ tunnel' = [tunnel EXCEPT ![g] = "exited"]
  /\ UNCHANGED <<pc, cancelled, listed, hook, created, trelloVars, met>>

\* The child's end was reported on waitErr.
TunnelStopped(g) ==
  /\ Stopping(g) /\ stop[g] # "no" /\ tunnel[g] = "exited"
  /\ pc' = [pc EXCEPT ![g] = AfterStop[@]]
  /\ UNCHANGED <<tunnel, stop, cancelled, listed, hook, created, trelloVars, met>>

StopTunnel(g) == AskTunnel(g) \/ KillTunnel(g) \/ TunnelStopped(g)

\* Killed, or ended by emitAndExit after it began to serve.
Crash(g) ==
  /\ Running(g)
  /\ pc' = [pc EXCEPT ![g] = "crashed"]
  /\ UNCHANGED <<tunnel, stop, cancelled, listed, hook, created, trelloVars, met>>

-----------------------------------------------------------------------------
Reconcile(g) ==
  \/ SpawnTunnel(g) \/ TunnelUp(g) \/ TunnelFails(g)
  \/ List(g) \/ (\E h \in Hooks : Update(g, h)) \/ Create(g)
  \/ ValidatorRefuses(g) \/ RequestFails(g) \/ Backoff(g)

Close(g) ==
  Shutdown(g) \/ DeleteGatewayCreatedWebhook(g) \/ DeleteFails(g) \/ StopTunnel(g)

Next ==
  \/ \E g \in Gateways : Start(g) \/ Reconcile(g) \/ Signal(g) \/ Close(g) \/ Crash(g)
                        \/ TunnelPrintsUrl(g) \/ TunnelExits(g)
  \/ \E h \in Hooks : OperatorDeletes(h)

Spec == Init /\ [][Next]_vars

\* A process that runs goes on.
FairSpec == Spec /\ \A g \in Gateways : WF_vars(Reconcile(g) \/ Close(g))
=============================================================================
