----------------------------- MODULE MCAuditLog -----------------------------
(***************************************************************************)
(* Small instances of AuditLog for TLC.                                    *)
(***************************************************************************)
EXTENDS AuditLog, TLC

CONSTANTS agent, alice, k1, k2

Kinds == (agent :> "agent") @@ (alice :> "customer")

\* "once" can be applied one time only, "many" again and again, and the customer's
\* "accept" only after "once".
Lanes == ("once" :> "agent") @@ ("many" :> "agent") @@ ("accept" :> "customer")

SmallAccepts(applied, entry) ==
  LET bodies == {applied[n].body : n \in DOMAIN applied}
  IN  CASE entry.body = "once" -> "once" \notin bodies
        [] entry.body = "accept" -> "once" \in bodies
        [] OTHER -> TRUE

Asks(p, k, b, e) == [principal |-> p, key |-> k, body |-> b, expected |-> e]

\* A request, one that reuses its id and is of the wrong lane, a revision that goes stale, the
\* same id of two principals, and one without an id.
SomeSubmissions ==
  {Asks(agent, k1, "once", None), Asks(agent, k1, "accept", None), Asks(agent, k2, "many", 1),
   Asks(alice, k1, "accept", None), Asks(agent, None, "many", None)}
=============================================================================
