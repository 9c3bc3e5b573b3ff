-------------------------- MODULE MCImportDispatch --------------------------
(* Small instances of ImportDispatch for TLC. *)
EXTENDS ImportDispatch

Req(i, m, d, b, c) ==
    [id |-> i, mode |-> m, leg |-> "XVII", asOf |-> d, by |-> b, call |-> c]

\* One apply request of the workflow, for a date with as many periods as seats.
MCDispatched == {Req("b", "apply", 1, GitHub, 1)}

\* It races with another caller's, and with a dry run that reuses its identifier.
MCRequests == MCDispatched \cup {Req("a", "apply", 2, GitHub, 1), Req("b", "dry_run", 1, GitHub, 2)}

\* From the second date on one seat has had two holders.
MCPeriods == [l \in {"XVII"} |-> [d \in {1, 2} |-> IF d = 1 THEN Seats ELSE Seats + 1]]
=============================================================================
