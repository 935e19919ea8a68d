------------------------- MODULE MCConnectorChannel -------------------------
(* The TLC instance of ConnectorChannel; its constants are in the .cfg.    *)
EXTENDS ConnectorChannel
=============================================================================
