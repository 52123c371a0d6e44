------------------------ MODULE MCTransactionLifecycle ------------------------
(* TransactionLifecycle for TLC: two transactions at one EVSE.                *)
EXTENDS TransactionLifecycle

CONSTANTS a, b, e1

MCEvseOf == [t \in {a, b} |-> e1]

Event(t, r, p, e, k, kind) ==
    [tx |-> t, rank |-> r, protocol |-> p, evse |-> e, token |-> k, meter |-> kind, copy |-> 1]

\* OCPP 2.x: a transaction whose update names its EVSE too and measures an interval, and the
\* start of another, without meter values.
Events2 == {Event(a, 0, "2.x", TRUE, TRUE, "register"),
            Event(a, 1, "2.x", TRUE, FALSE, "interval"),
            Event(a, 2, "2.x", FALSE, FALSE, "register"),
            Event(b, 0, "2.x", TRUE, FALSE, "none")}

\* OCPP 1.6: two kinds of MeterValues in between.
Events16 == {Event(a, 0, "1.6", FALSE, TRUE, "register"),
             Event(a, 1, "1.6", FALSE, FALSE, "net"),
             Event(a, 1, "1.6", FALSE, FALSE, "other"),
             Event(a, 2, "1.6", FALSE, FALSE, "none"),
             Event(b, 0, "1.6", FALSE, TRUE, "register")}

MCMessages == Events2 \union Events16
===============================================================================
