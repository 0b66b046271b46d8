------------------------------ MODULE MCChatPage ------------------------------
EXTENDS ChatPage, TLC
=============================================================================
