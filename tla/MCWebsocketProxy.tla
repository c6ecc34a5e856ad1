-------------------------- MODULE MCWebsocketProxy --------------------------
(* Instance of WebsocketProxy for TLC; the values are in the .cfg file.    *)
EXTENDS WebsocketProxy
=============================================================================
