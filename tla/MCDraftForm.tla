---------------------------- MODULE MCDraftForm ----------------------------
EXTENDS DraftForm, FormPages

=============================================================================
