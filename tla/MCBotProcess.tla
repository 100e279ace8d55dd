------------------------------ MODULE MCBotProcess ------------------------------
(* Small instances of BotProcess for TLC.                                      *)
EXTENDS BotProcess

MCExtensions == <<"wM", "USDKy">>
=============================================================================
