-------------------------- MODULE MCWebhookJournal --------------------------
(***************************************************************************)
(* Small instances of WebhookJournal for TLC.  Workers and events are      *)
(* model values, messages too.                                             *)
(***************************************************************************)
EXTENDS WebhookJournal, TLC

CONSTANTS e1, e2, m1, h1, r1, r2

\* e1 is a Meta body of any route, also one with an unreadable sender, or a WAHA
\* body; e2 a DotPe body without a tenant, whose replay fails closed.
Bodies ==
    LET From(source, route) == [source |-> source, route |-> route, sender |-> "readable",
                                message |-> m1] IN
    [e \in Event |->
        IF e = e1
        THEN {From("meta", "mapped"), From("meta", "home"), From("meta", "unknown"),
              From("waha", "mapped"), [From("meta", "mapped") EXCEPT !.sender = "unreadable"]}
        ELSE {From("dotpe", "home")}]

=============================================================================
