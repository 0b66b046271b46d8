----------------------------- MODULE MCAdminPage -----------------------------
EXTENDS AdminPage, TLC
=============================================================================
