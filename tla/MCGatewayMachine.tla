-------------------------- MODULE MCGatewayMachine --------------------------
EXTENDS GatewayMachine
=============================================================================
