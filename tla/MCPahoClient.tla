---- MODULE MCPahoClient ----
EXTENDS PahoClient
====
