--------------------------- MODULE MCExternalEffect ---------------------------
(***************************************************************************)
(* The connectors of the runs of ExternalEffect, and their symmetry.       *)
(***************************************************************************)
EXTENDS ExternalEffect, TLC

Claiming ==
  { Gmail, Outlook, Slack, Teams, Jira, Linear, HubSpot, Salesforce, GithubComment }

Unclaimed == { GoogleCalendar, MicrosoftCalendar }

Symmetry == Permutations(Sessions)

==============================================================================
