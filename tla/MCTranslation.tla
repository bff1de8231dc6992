--------------------------- MODULE MCTranslation ---------------------------
EXTENDS Translation

\* Every upstream the translators tolerate.
MCSlips == {"none", "no_block_start", "no_block_stop", "no_message_delta"}
=============================================================================
