---------------------------- MODULE MCSerialFlow ----------------------------
EXTENDS SerialFlow

Setting(rtsMode, receive, transmit, continue, ctsFlow) ==
    [rts |-> rtsMode, autoReceive |-> receive, autoTransmit |-> transmit,
     xoffContinue |-> continue, cts |-> ctsFlow]

\* Hardware handshaking; XON and XOFF both ways, with a toggled and a fixed RTS;
\* toggling with CTS; and nothing at all.
SomeHandFlows ==
    {Setting("handshake", FALSE, FALSE, FALSE, TRUE),
     Setting("toggle", TRUE, TRUE, FALSE, FALSE),
     Setting("control", TRUE, TRUE, TRUE, FALSE),
     Setting("toggle", FALSE, FALSE, FALSE, TRUE),
     Setting("disable", FALSE, FALSE, FALSE, FALSE)}
=============================================================================
