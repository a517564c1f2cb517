---------------------------- MODULE MCOAuthTokens ----------------------------
(* Three requests: a read, a write and a write of the source client.          *)
EXTENDS OAuthTokens

CONSTANTS read, write, sourceWrite

MCRequests == {read, write, sourceWrite}
MCReads == {read}
MCSourceRequests == {sourceWrite}
=============================================================================
