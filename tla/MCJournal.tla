----------------------------- MODULE MCJournal ------------------------------
EXTENDS JournalProps

CONSTANTS forgejo, gateway, f1, g1
=============================================================================
