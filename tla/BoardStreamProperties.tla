----------------------- MODULE BoardStreamProperties -----------------------
(* What the stream of events promises a page. *)
EXTENDS BoardStream

\* No wakeup is lost: a connected page none of whose fetches failed was given the
\* current version, or something is under way that will make it fetch it.  (After a
\* failed fetch the page shows an error until the next event.)  Tokens and events may
\* merge, connections break, and changes fall between a page's first fetch and
\* the registration of its channel.
EveryChangeComes ==
  \A p \in Pages : link[p] = "open" /\ ~failed[p] =>
    \/ newest[p] = version
    \/ \E i \in DOMAIN fetches[p] : fetches[p][i] \in {Unread, version}
    \/ events[p] > 0
    \/ p \in DOMAIN token /\ token[p] > 0
    \/ signals > 0

\* A page that stays connected, none of whose fetches fails or is answered after a
\* newer one, comes to show the current version and keeps showing it.
ShowsTheBoard ==
  \A p \in Pages :
    <>[](link[p] = "open" /\ ~failed[p] /\ ~overtaken[p]) => <>[](shown[p] = version)
=============================================================================
