------------------------------ MODULE Gateway ------------------------------
(***************************************************************************)
(* The Tunnelo gateway, as far as the agent can tell it apart.  It is not  *)
(* part of the repository: it is modelled from docs/API.md and from how    *)
(* internal/register, internal/heartbeat and internal/speedtest use it.    *)
(*                                                                         *)
(* A user owns one seat.  Every accepted registration replaces the seat's  *)
(* peer and issues a fresh credential, which revokes the one before.       *)
(* Requests the agent gave up on may still arrive, later than its retries. *)
(***************************************************************************)
EXTENDS FiniteSets, Naturals

CONSTANTS Ports,      \* port numbers
          Creds,      \* agent credentials (agent_id and agent_secret)
          Keys,       \* WireGuard key pairs generated by this agent
          ForeignKey, \* the key of some other host
          NoSeat,     \* no registration is active
          MaxLate     \* bound: abandoned requests still under way

ASSUME GatewayAssumption == ForeignKey \notin Keys

VARIABLES seat,       \* the active registration
          late        \* requests the agent stopped waiting for

Seat    == [cred : Creds, key : Keys \cup {ForeignKey}, ports : (SUBSET Ports) \ {{}}]
Request == [key : Keys, ports : (SUBSET Ports) \ {{}}]

GatewayTypeOK == /\ seat \in Seat \cup {NoSeat}
                 /\ late \subseteq Request

\* One name of S that is not used: which one makes no difference, so a
\* representative stands for all.
Unused(S, used) == IF S \subseteq used THEN {} ELSE {CHOOSE x \in S : x \notin used}

Current(c) == seat # NoSeat /\ seat.cred = c

\* The errors of docs/API.md; a body that is no JSON envelope (an
\* intermediary's page) gets the code "unknown".
InvalidToken == [status |-> 401, code |-> "invalid_token"]
InvalidAgent == [status |-> 401, code |-> "invalid_agent"]
Refusals     == {[status |-> 400, code |-> "bad_request"],
                 [status |-> 401, code |-> "unknown"]}
Outages      == {[status |-> 429, code |-> "rate_limited"],
                 [status |-> 503, code |-> "not_ready"],
                 [status |-> 502, code |-> "unknown"]}

\* The first service of a request: its subdomain is the account's own.
Primary(ports) == CHOOSE p \in ports : TRUE

\* What the gateway routes for a request: every service, or (a gateway older
\* than multi-service support) the primary only.
Assigned(req, legacy) == IF legacy THEN {Primary(req.ports)} ELSE req.ports

\* A request is accepted: the seat is replaced and c issued.
Accept(req, c, ports) == seat' = [cred |-> c, key |-> req.key, ports |-> ports]

\* A request the agent no longer waits for is accepted all the same.
AcceptLate(req, c, ports) == /\ req \in late
                             /\ Accept(req, c, ports)
                             /\ late' = late \ {req}

\* The agent stops waiting for req: it was lost, or it arrives later.
Abandon(req) == \/ UNCHANGED late
                \/ /\ Cardinality(late \cup {req}) <= MaxLate
                   /\ late' = late \cup {req}

\* Another host registers with the same user token.
Takeover(c) == /\ seat' = [cred |-> c, key |-> ForeignKey, ports |-> Ports]
               /\ UNCHANGED late

\* The user regenerates the key in the dashboard: the credential and the
\* token are void, and so is every request that carries the token.
Regenerate == /\ seat' = NoSeat
              /\ late' = {}
=============================================================================
