----------------------------- MODULE MCMailInbox -----------------------------
\* The inbox with values for TLC; PageSize stands for the 100 of the code.
EXTENDS MailInbox, TLC

WorkersAreAlike == Permutations(Workers)

==============================================================================
