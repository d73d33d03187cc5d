--------------------------- MODULE MCChatControl ----------------------------
EXTENDS ChatControlProperties

CONSTANTS v1, v2

MCLegacy == <<v1, v2>>
=============================================================================
