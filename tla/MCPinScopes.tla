----------------------------- MODULE MCPinScopes -----------------------------
\* The asset cache and the pins over it, on one device.  The encoders are
\* interchangeable: of two that are idle the first is called.
EXTENDS PinScopes

CONSTANTS e1, e2

Everything == [s \in Scope |-> Rec]

FirstCalled == At(e1, "idle") /\ At(e2, "idle") => UNCHANGED enc[e2]

MCSpec == Init /\ [][Next /\ FirstCalled]_vars /\ Fairness
===============================================================================
