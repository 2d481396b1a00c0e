------------------------ MODULE PlaybooksProperties ------------------------
(* What the worker of a card is told, and where it may look it up. *)
EXTENDS Playbooks

\* A worker of the card was deleted: its end takes another worker of the card from
\* the registry, and Stop waits for neither (dispatcher.go:513).
Torn(s) == \E w \in deleted : CardOf[w] = CardOf[s]

\* What a live session has been told of a file that was rendered at start-up is the
\* rendered text; a prompt comes with its references unresolved only if it is no .md
\* file, or was added after the others had been copied.  A skeleton is the rendered
\* one unless it could not be read.
AsRendered(s) ==
  /\ \A i \in DOMAIN got[s] : LET g == got[s][i] IN
       IF g.file \in Rendered THEN g.rendered /\ g.text = copies[g.file]
       ELSE ~g.rendered /\ (g.file \in Md => edits > 0)
  /\ \A k \in Skeletons \ fallback[s] : skeleton[s][k] = <<copies[k], TRUE>>

\* What was read are prompts of the first rule that matches, in the rule's order, and
\* every rendered one among them is there, unless it could not be read; without a
\* rule there are none.
AllInOrder(s) ==
  IF rule[s] = 0 THEN got[s] = <<>>
  ELSE /\ Matches(seen[s], rule[s])
       /\ LET p == rules[rule[s]].prompts
          IN  \E at \in [DOMAIN got[s] -> DOMAIN p] :
                /\ \A j \in DOMAIN got[s] : got[s][j].file = p[at[j]]
                /\ \A j, k \in DOMAIN got[s] : j < k => at[j] < at[k]
                /\ \A m \in DOMAIN p :
                     p[m] \in Rendered \ unread[s] => \E j \in DOMAIN got[s] : at[j] = m

\* Every session of a rule is told the rule's prompts as they were rendered at
\* start-up, however the operator edits the directory afterwards and whenever in the
\* shutdown the session starts ("what the worker reads in the prompt is what the
\* gateway actually uses to route - by construction",
\* docs/playbook-template-variables.md:27-28).  Only a prompt whose own read failed
\* is missing, and only a skeleton whose own read failed comes unrendered.  A worker
\* of a card with a deleted worker may outlive the copies.
PromptsAsRendered ==
  \A s \in Workers : session[s] = "live" /\ ~Torn(s) => AsRendered(s) /\ AllInOrder(s)

\* The files that the prompts of a session refer to are there for as long as the
\* session lives, through the whole shutdown, unless a worker of its card was deleted
\* ("the temp dir lives for the lifetime of the process", renderer.go:18-19); and
\* when main returns, nothing is left of the renderer's directory or a download but
\* what could not be removed.
ReferencesLive ==
  /\ Alive => \A s \in Workers : session[s] = "live" /\ ~Torn(s) =>
       /\ tempDir
       /\ \A i \in DOMAIN got[s] : got[s][i].rendered =>
            Refs[got[s][i].text] \subseteq Keys \cup Rendered
  /\ phase = "exited" => (tempDir => "copies" \in stuck) /\ (cache => "download" \in stuck)

\* What docs/playbook-template-variables.md:188 says: once the copies are rendered,
\* only they are read.  (The code does not keep to it: a skeleton whose read fails is
\* read from the binary, and an .md file that was added later from the operator's
\* directory.)
OnlyRenderedRead ==
  \A s \in Workers : session[s] = "live" =>
    /\ \A k \in Skeletons : skeleton[s][k][2]
    /\ \A i \in DOMAIN got[s] : got[s][i].file \in Md => got[s][i].rendered

\* What main.go:80-81 says: a download is removed on exit, so that the operator's
\* machine is never left with an orphan.  (The code does not keep to it: emitAndExit
\* runs no deferred call.)
DownloadRemoved ==
  phase \in {"exited", "aborted"} /\ cache => "download" \in stuck
=============================================================================
