---------------------------- MODULE MCCredentialVault ----------------------------
EXTENDS CredentialVault, TLC
=============================================================================
