---------------------------- MODULE MCConversation ----------------------------
EXTENDS Conversation

\* Nothing but prompts and Pi's messages ...
Plain ==
  [k \in {"prompts", "messages", "customs", "compactions", "loads", "moves", "aborts",
          "failures", "crashes", "commands", "recoveries"} |-> 0]

\* ... and what a scenario adds to them.
With(bounds, liberties) ==
  <<bounds @@ Plain, liberties @@ [twins |-> FALSE, hasty |-> FALSE, old |-> FALSE]>>

MCScenarios ==
  {With([prompts |-> 2, messages |-> 3, failures |-> 1], [twins |-> TRUE]),
   With([prompts |-> 2, messages |-> 2, customs |-> 2], [old |-> TRUE]),
   With([prompts |-> 2, messages |-> 2, compactions |-> 1, failures |-> 1], <<>>),
   With([prompts |-> 2, messages |-> 2, moves |-> 1, failures |-> 1, loads |-> 1], <<>>),
   With([prompts |-> 3, messages |-> 2, aborts |-> 1], <<>>),
   With([prompts |-> 2, messages |-> 2, crashes |-> 1, loads |-> 1, failures |-> 1], <<>>),
   With([prompts |-> 2, messages |-> 2, commands |-> 1, failures |-> 1], <<>>),
   With([prompts |-> 3, messages |-> 2, recoveries |-> 1], <<>>),
   With([prompts |-> 2, messages |-> 2, commands |-> 1], [hasty |-> TRUE])}
===============================================================================
