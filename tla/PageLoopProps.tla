--------------------------- MODULE PageLoopProps ---------------------------
(***************************************************************************)
(* What has to be true of the page loop and of the session it uses.        *)
(***************************************************************************)
EXTENDS PageLoop

\* When a call reports that an effect may have happened, no effect can reach
\* the page any more: neither the one that was given up nor an older one.
UncertainIsQuiet ==
  op.reply = "uncertain" /\ op.pc = "replied" =>
    \A s \in Slots : effect[s].pc # "off" => tab[effect[s].tab].st # "open"

\* One page is open at most, whatever fails in a start, a recovery or a close,
\* and none when the journey is over.
OnePageThenNone ==
  /\ Cardinality({t \in Tabs : tab[t].st = "open"}) <= 1
  /\ loop.pc = "done" => \A t \in Tabs : tab[t].st # "open"

\* A page is left by its Next button only with every required field verified
\* on this visit, also when the click comes after the loop stopped waiting.
LeavesVerified ==
  [][\A t \in Tabs : tab[t].st = "open" /\ tab'[t].at # tab[t].at =>
       loop.seen = tab[t].at /\ Required \subseteq loop.verified]_vars

\* After an effect that is uncertain nothing is driven and no page left, not
\* even in the fresh session that the recovery opens: no blind remutation.
DoubtStops ==
  [][loop.result = "failed" =>
       \A s \in Slots : effect[s].pc = "off" => effect'[s].pc = "off"]_vars

\* Every journey ends, although effects are given up and sessions replaced.
LoopEnds == <>(loop.pc = "done")

\* docs/component-boundaries.md:61 of the executioner: browser_timeout is legal
\* only when F3 proves no browser side effect began.  So a navigation that
\* reported it does not leave the page afterwards.
TimeoutProvesNoEffect ==
  [][op.kind = "navigate" /\ op.pc = "replied" /\ op.reply = "timeout" =>
       \A t \in Tabs : tab'[t].at = tab[t].at]_vars
=============================================================================
