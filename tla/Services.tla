------------------------------ MODULE Services ------------------------------
(***************************************************************************)
(* From the operator's setting to the services that are run: Load parses   *)
(* TUNNELO_SERVICES token by token (parseServices) or takes the one        *)
(* service URL (specFromURL), and buildServices joins the result by port   *)
(* with the names the gateway assigned. SamePorts is how run() tells       *)
(* whether a persisted registration still fits the setting.                *)
(***************************************************************************)
EXTENDS Naturals, Sequences, FiniteSets

CONSTANTS Hosts,          \* hosts an operator writes
          NoHost,         \* the host of ":8096"
          Ports,          \* ports from 1 to 65535
          BadPort,        \* any other number
          MaxTokens,      \* bound: entries of TUNNELO_SERVICES
          Names,          \* names the gateway assigns
          Registrations   \* what it may have assigned: sequences of [name, port]

Tokens == {t \in [kind : {"pair", "bare", "blank", "junk"},
                  host : Hosts \cup {NoHost}, port : Ports \cup {BadPort}] :
             /\ t.kind # "pair" => t.host = NoHost
             /\ t.kind \in {"blank", "junk"} => t.port = BadPort}

Specs == [host : Hosts \cup {NoHost}, port : Ports \cup {BadPort}]

ASSUME ServicesAssumption ==
    /\ NoHost \notin Hosts /\ BadPort \notin Ports
    /\ MaxTokens \in Nat
    /\ Registrations \subseteq Seq([name : Names, port : Ports])

VARIABLES
    load,       \* how far it is: see Loads
    raw,        \* the tokens of TUNNELO_SERVICES; none if it is not set
    next,       \* the loop variable of parseServices, then of buildServices
    host,       \* the host a bare port inherits
    specs,      \* cfg.Services
    registered, \* state.Services
    services    \* the services that are run

loadVars == <<load, raw, next, host, specs, registered, services>>

\* Load rejects the setting; buildServices fails for want of a service.
Loads == {"parse", "rejected", "loaded", "join", "failed", "built", "running"}

ServicesTypeOK ==
    /\ load \in Loads
    /\ raw \in Seq(Tokens) /\ next \in Nat \ {0}
    /\ host \in Hosts \cup {NoHost}
    /\ specs \in Seq(Specs)
    /\ registered \in Seq([name : Names, port : Ports])
    /\ services \in Seq([name : Names, target : Specs])

ServicesInit ==
    /\ load = "parse" /\ next = 1 /\ host = NoHost
    /\ raw \in UNION {[1..n -> Tokens] : n \in 0..MaxTokens}
    /\ specs = <<>> /\ registered = <<>> /\ services = <<>>

-----------------------------------------------------------------------------
(* parseServices *)

Token    == raw[next]
Parsing  == load = "parse" /\ next <= Len(raw)
Entry    == Token.kind \in {"pair", "bare"}

\* Slip: bare ports inherit the host of the first entry.
HostForFirst == IF Token.kind = "pair" THEN Token.host ELSE specs[1].host

HostFor  == IF Token.kind = "pair" THEN Token.host ELSE host

PortFree == Token.port # BadPort /\ \A i \in 1..Len(specs) : specs[i].port # Token.port

ParseBlank ==
    /\ Parsing
    /\ Token.kind = "blank"
    /\ next' = next + 1
    /\ UNCHANGED <<load, raw, host, specs, registered, services>>

ParseEntry ==
    /\ Parsing /\ Entry
    /\ Token.kind = "bare" => host # NoHost
    /\ PortFree
    /\ host' = HostFor
    /\ specs' = Append(specs, [host |-> HostFor, port |-> Token.port])
    /\ next' = next + 1
    /\ UNCHANGED <<load, raw, registered, services>>

ParseRejects ==
    /\ Parsing
    /\ \/ Token.kind = "junk"
       \/ Token.kind = "bare" /\ host = NoHost
       \/ Entry /\ ~PortFree
    /\ load' = "rejected"
    /\ UNCHANGED <<raw, next, host, specs, registered, services>>

ParseEnds ==
    /\ load = "parse"
    /\ raw # <<>> /\ next > Len(raw)
    /\ load' = IF specs = <<>> THEN "rejected" ELSE "loaded"
    /\ UNCHANGED <<raw, next, host, specs, registered, services>>

\* specFromURL, which takes any number for a port, or fails.
LoadUrl ==
    /\ load = "parse"
    /\ raw = <<>>
    /\ \/ load' = "loaded" /\ \E s \in Specs : specs' = <<s>>
       \/ load' = "rejected" /\ UNCHANGED specs
    /\ UNCHANGED <<raw, next, host, registered, services>>

-----------------------------------------------------------------------------
(* buildServices *)

\* The registration this life uses (module Agent).
Registered ==
    /\ load = "loaded"
    /\ load' = "join" /\ next' = 1
    /\ registered' \in Registrations
    /\ UNCHANGED <<raw, host, specs, services>>

\* Slip: services and specs are matched by position.
MatchingByPosition(r) == {specs[i] : i \in (1..Len(specs)) \cap {next}}

\* byPort
Matching(r) == {specs[i] : i \in {j \in 1..Len(specs) : specs[j].port = r.port}}

JoinService ==
    /\ load = "join" /\ next <= Len(registered)
    /\ \E s \in Matching(registered[next]) :
         services' = Append(services, [name |-> registered[next].name, target |-> s])
    /\ next' = next + 1
    /\ UNCHANGED <<load, raw, host, specs, registered>>

SkipStale ==
    /\ load = "join" /\ next <= Len(registered)
    /\ Matching(registered[next]) = {}
    /\ next' = next + 1
    /\ UNCHANGED <<load, raw, host, specs, registered, services>>

BuildEnds ==
    /\ load = "join" /\ next > Len(registered)
    /\ load' = IF services = <<>> THEN "failed" ELSE "built"
    /\ UNCHANGED <<raw, next, host, specs, registered, services>>

\* State.Ports and specPorts.
PortsOf(list) == [i \in 1..Len(list) |-> list[i].port]

\* The entry of samePorts' map for a port that only one list was counted into.
Times(p, ports) == Cardinality({i \in 1..Len(ports) : ports[i] = p})

\* Slip: two port lists are the same only in the same order.
SamePortsInOrder(a, b) == a = b

SamePorts(a, b) ==
    /\ Len(a) = Len(b)
    /\ \A i \in 1..Len(a) : Times(a[i], a) = Times(a[i], b)
    /\ \A i \in 1..Len(b) : Times(b[i], a) = Times(b[i], b)

Load  == ParseBlank \/ ParseEntry \/ ParseRejects \/ ParseEnds \/ LoadUrl
Build == Registered \/ JoinService \/ SkipStale \/ BuildEnds

-----------------------------------------------------------------------------
(* Properties *)

Entries == {i \in 1..Len(raw) : raw[i].kind # "blank"}

\* Host h is that of the last host:port up to token i.
Inherits(i, h) ==
    \E j \in 1..i : /\ raw[j].kind = "pair" /\ raw[j].host = h
                    /\ \A k \in (j + 1)..i : raw[k].kind # "pair"

\* Token i is a service of a list that is right up to there.
Legal(i) ==
    /\ raw[i].kind # "junk" /\ raw[i].port # BadPort
    /\ \E h \in Hosts \cup {NoHost} : Inherits(i, h) /\ (raw[i].kind = "bare" => h # NoHost)
    /\ \A j \in Entries : j < i => raw[j].port # raw[i].port

\* The grammar of the comment on parseServices (config.go:134), read off the
\* whole list at once: it is accepted if every token that is not blank is
\* legal and there is one, and then each is one service, on the host of the
\* last host:port before it, in the order of the list: the first of them is
\* the primary.
ParseMeetsReference ==
    raw # <<>> =>
      /\ load \notin {"parse", "rejected"} =>
           /\ \A i \in Entries : Legal(i)
           /\ \A i \in Entries : \E k \in 1..Len(specs) :
                specs[k].port = raw[i].port /\ Inherits(i, specs[k].host)
           /\ \A k \in 1..Len(specs) : \E i \in Entries : specs[k].port = raw[i].port
           /\ \A k, l \in 1..Len(specs) : k < l =>
                \E i, j \in Entries : /\ i < j
                                      /\ specs[k].port = raw[i].port
                                      /\ specs[l].port = raw[j].port
      /\ load = "rejected" => Entries = {} \/ \E i \in Entries : ~Legal(i)

\* What the documentation says instead: "bare ports inherit the first entry's
\* host" (config.go:40-41; the help text of config.go:80 and README.md:80,
\* 103-104 and 182 say the same). It fails as soon as a bare port follows a
\* second host:port, whose host parseServices gives it (config.go:149-154).
FirstHostInherited ==
    raw # <<>> /\ load \notin {"parse", "rejected"} =>
      \A first \in Entries : (\A j \in Entries : first <= j) =>
        \A i \in Entries : \A k \in 1..Len(specs) :
          raw[i].kind = "bare" /\ specs[k].port = raw[i].port =>
            specs[k].host = raw[first].host

\* What runs under a name is the configured service on the port the gateway
\* routes for that name, never another one of the list; no service that is
\* both configured and registered is left out, none is run twice for one
\* registration, and they keep the registration's order (buildServices).
ServicesJoined ==
    load = "built" =>
      /\ \A i \in 1..Len(services) : \E r \in 1..Len(registered) : \E k \in 1..Len(specs) :
           /\ services[i].name = registered[r].name
           /\ services[i].target = specs[k]
           /\ specs[k].port = registered[r].port
      /\ \A r \in 1..Len(registered) : \A k \in 1..Len(specs) :
           specs[k].port = registered[r].port =>
             \E i \in 1..Len(services) : /\ services[i].name = registered[r].name
                                         /\ services[i].target = specs[k]
      /\ \A i, j \in 1..Len(services) : i < j =>
           \E r, q \in 1..Len(registered) :
             /\ r < q
             /\ services[i].name = registered[r].name
             /\ services[i].target.port = registered[r].port
             /\ services[j].name = registered[q].name
             /\ services[j].target.port = registered[q].port

\* samePorts (main.go:361) answers for buildServices: it finds a registration
\* to fit the configuration, in whatever order the two list their ports,
\* exactly if it has a service for each configured one, each of which then
\* runs, and no other. A restart with the ports in another order (state.go:67)
\* therefore keeps its registration, and one it keeps loses no service.
RegistrationFits ==
    load = "built" =>
      (SamePorts(PortsOf(registered), PortsOf(specs)) <=>
         /\ Len(registered) = Len(specs)
         /\ \A k \in 1..Len(specs) : \E i \in 1..Len(services) : services[i].target = specs[k])
=============================================================================
