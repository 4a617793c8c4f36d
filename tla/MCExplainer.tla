----------------------------- MODULE MCExplainer -----------------------------
(* Explainer beside the console's page. *)
EXTENDS Explainer, TLC

(* The text nodes of internal/console/static/index.html that mention a     *)
(* glossary term, and those that app.js writes one into.                   *)
ConsolePage == <<
  <<"gateway", "console">>,
  <<"you", "are", "behind", "the", "rate", "limiter">>,
  <<"your", "quota">>,
  <<"anonymous">>,                                   \* tier-badge
  <<>>,                                              \* reset-text
  <<>>,                                              \* last-status
  <<"the", "anonymous", "tier", "allows", "20">>,
  <<"429">>,
  <<"throttled">> >>

ConsoleRewrites ==
  4 :> {<<"anonymous">>, <<"free">>} @@
  5 :> {<<"quota", "restored">>} @@
  6 :> {<<"throttled", "retry">>, <<"allowed">>}
===============================================================================
