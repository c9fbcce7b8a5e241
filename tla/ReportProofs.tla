----------------------------- MODULE ReportProofs -----------------------------
(***************************************************************************)
(* Proofs about Services and HeartbeatReport, for every list of tokens,    *)
(* every registration and every choice of the timers.                      *)
(***************************************************************************)
EXTENDS HeartbeatReport, FiniteSetTheorems, TLAPS

\* What parseServices knows after n tokens.
Parsed(n) ==
    /\ \A i \in Entries : i <= n => Legal(i)
    /\ \A i \in Entries : i <= n =>
         \E k \in 1..Len(specs) : specs[k].port = raw[i].port /\ Inherits(i, specs[k].host)
    /\ \A k \in 1..Len(specs) : \E i \in Entries : i <= n /\ specs[k].port = raw[i].port
    /\ \A k, l \in 1..Len(specs) : k < l =>
         \E i, j \in Entries : /\ i < j /\ j <= n
                               /\ specs[k].port = raw[i].port
                               /\ specs[l].port = raw[j].port
    /\ \/ Inherits(n, host)
       \/ host = NoHost /\ \A j \in 1..n : raw[j].kind # "pair"

\* byPort has an entry for every service.
DistinctPorts == \A k, l \in 1..Len(specs) : specs[k].port = specs[l].port => k = l

ParseInv ==
    /\ ParseMeetsReference
    /\ DistinctPorts
    /\ load = "parse" => next \in 1..(Len(raw) + 1) /\ Parsed(next - 1)

\* What buildServices knows after n services of the registration.
Joined(n) ==
    /\ \A i \in 1..Len(services) : \E r \in 1..Len(registered) : \E k \in 1..Len(specs) :
         /\ r <= n
         /\ services[i].name = registered[r].name
         /\ services[i].target = specs[k]
         /\ specs[k].port = registered[r].port
    /\ \A r \in 1..Len(registered) : r <= n => \A k \in 1..Len(specs) :
         specs[k].port = registered[r].port =>
           \E i \in 1..Len(services) : /\ services[i].name = registered[r].name
                                       /\ services[i].target = specs[k]
    /\ \A i, j \in 1..Len(services) : i < j =>
         \E r, q \in 1..Len(registered) :
           /\ r < q /\ q <= n
           /\ services[i].name = registered[r].name
           /\ services[i].target.port = registered[r].port
           /\ services[j].name = registered[q].name
           /\ services[j].target.port = registered[q].port

JoinInv ==
    /\ ServicesJoined
    /\ load = "join" => next \in 1..(Len(registered) + 1) /\ Joined(next - 1)
    /\ load \in {"parse", "loaded"} => services = <<>>
    /\ load \in {"built", "running"} => services # <<>>

\* The sender and its report exist while the group runs.
PhaseInv ==
    /\ hb # "off" <=> load = "running"
    /\ hb = "off" => quiet = 0 /\ ~cancelled
    /\ hb \notin {"jellyfin", "http", "send", "post"} => health = <<>> /\ tun = "none" /\ age = 0
    /\ hb \in {"jellyfin", "http"} => Len(health) < Len(services)
    /\ hb \in {"send", "post"} => Len(health) = Len(services)
    /\ \A i \in 1..Len(health) : /\ health[i].name = services[i].name
                                 /\ health[i].cut => cancelled /\ hb # "post"

\* Time: what has passed and what the current wait or request may still take.
TimeInv ==
    /\ hb = "wait" => /\ quiet + left <= PostTimeout + interval
                      /\ quiet + left >= interval
    /\ hb \in {"jellyfin", "http"} =>
         /\ quiet + left <= PostTimeout + interval + (Len(health) + 1) * ProbeTimeout
         /\ tun = "up" => age + left <= FreshAge + (Len(health) + 1) * ProbeTimeout
    /\ hb = "send" =>
         /\ quiet + left <= PostTimeout + interval + Len(services) * ProbeTimeout
         /\ tun = "up" => age + left <= FreshAge + Len(services) * ProbeTimeout
    /\ hb = "post" =>
         /\ quiet + left <= PostTimeout
         /\ tun = "up" => age + left <= FreshAge + Len(services) * ProbeTimeout + PostTimeout

RInv == TypeOK /\ ParseInv /\ JoinInv /\ PhaseInv /\ TimeInv

-----------------------------------------------------------------------------
(* Types *)

LEMMA Element ==
    ASSUME NEW S, NEW q \in Seq(S), NEW i \in 1..Len(q)
    PROVE  q[i] \in S
  OBVIOUS

LEMMA InitTypes == Init => TypeOK
  <1> SUFFICES ASSUME Init PROVE TypeOK
    OBVIOUS
  <1>1. raw \in Seq(Tokens)
    <2>1. PICK n \in 0..MaxTokens : raw \in [1..n -> Tokens]
      BY DEF Init, ServicesInit
    <2> QED
      BY <2>1, ServicesAssumption
  <1>2. /\ specs = <<>> /\ registered = <<>> /\ services = <<>> /\ health = <<>>
        /\ load = "parse" /\ next = 1 /\ host = NoHost
    BY DEF Init, ServicesInit
  <1>5. health = <<>>
    BY DEF Init
  <1>3. ServicesTypeOK
    BY <1>1, <1>2 DEF ServicesTypeOK, Loads
  <1>4. health \in Seq([name : Names, reachable : BOOLEAN, cut : BOOLEAN])
    BY <1>5
  <1>6. /\ hb = "off" /\ left = 0 /\ interval = Minute /\ tun = "none" /\ age = 0
        /\ answer = "none" /\ managed \in BOOLEAN /\ cancelled = FALSE /\ quiet = 0
    BY DEF Init
  <1> QED
    BY <1>3, <1>4, <1>6 DEF TypeOK

\* A token is a record of its three fields.
LEMMA TokenTypes ==
    ASSUME TypeOK, Parsing
    PROVE  /\ Token \in Tokens
           /\ Token.kind \in {"pair", "bare", "blank", "junk"}
           /\ Token.host \in Hosts \cup {NoHost}
           /\ Token.port \in Ports \cup {BadPort}
           /\ HostFor \in Hosts \cup {NoHost}
  <1>1. next \in 1..Len(raw) /\ raw \in Seq(Tokens)
    BY DEF TypeOK, ServicesTypeOK, Parsing
  <1>2. Token \in Tokens
    BY <1>1 DEF Token
  <1>3. host \in Hosts \cup {NoHost}
    BY DEF TypeOK, ServicesTypeOK
  <1> QED
    BY <1>2, <1>3 DEF Tokens, HostFor


\* Load and buildServices.
LEMMA LoadTypes ==
    ASSUME TypeOK, Load \/ Build, UNCHANGED hbVars
    PROVE  TypeOK'
  <1>0. UNCHANGED <<hb, left, interval, tun, age, health, answer, managed, cancelled, quiet>>
    BY DEF hbVars, reportVars
  <1>1. CASE ParseBlank
    BY <1>0, <1>1 DEF ParseBlank, TypeOK, ServicesTypeOK
  <1>2. CASE ParseEntry
    <2>1. [host |-> HostFor, port |-> Token.port] \in Specs
      BY <1>2, TokenTypes DEF ParseEntry, Specs
    <2>2. specs' \in Seq(Specs) /\ host' \in Hosts \cup {NoHost}
      BY <1>2, <2>1, TokenTypes DEF ParseEntry, TypeOK, ServicesTypeOK
    <2> QED
      BY <1>0, <1>2, <2>2 DEF ParseEntry, TypeOK, ServicesTypeOK
  <1>3. CASE ParseRejects \/ ParseEnds
    BY <1>0, <1>3 DEF ParseRejects, ParseEnds, TypeOK, ServicesTypeOK, Loads
  <1>4. CASE LoadUrl
    <2>1. specs' \in Seq(Specs)
      <3>1. ASSUME NEW s \in Specs, specs' = <<s>> PROVE specs' \in Seq(Specs)
        BY <3>1
      <3> QED
        BY <1>4, <3>1 DEF LoadUrl, TypeOK, ServicesTypeOK
    <2> QED
      BY <1>0, <1>4, <2>1 DEF LoadUrl, TypeOK, ServicesTypeOK, Loads
  <1>5. CASE Registered
    <2>1. registered' \in Seq([name : Names, port : Ports])
      BY <1>5, ServicesAssumption DEF Registered
    <2> QED
      BY <1>0, <1>5, <2>1 DEF Registered, TypeOK, ServicesTypeOK, Loads
  <1>6. CASE JoinService
    <2>1. PICK s \in Matching(registered[next]) :
             services' = Append(services, [name |-> registered[next].name, target |-> s])
      BY <1>6 DEF JoinService
    <2>2. registered[next] \in [name : Names, port : Ports]
      <3>1. next \in 1..Len(registered) /\ registered \in Seq([name : Names, port : Ports])
        BY <1>6 DEF JoinService, TypeOK, ServicesTypeOK
      <3> QED
        BY <3>1, Element
    <2>3. s \in Specs
      BY <2>1 DEF Matching, TypeOK, ServicesTypeOK
    <2>4. services' \in Seq([name : Names, target : Specs])
      BY <2>1, <2>2, <2>3 DEF TypeOK, ServicesTypeOK
    <2> QED
      BY <1>0, <1>6, <2>4 DEF JoinService, TypeOK, ServicesTypeOK
  <1>7. CASE SkipStale \/ BuildEnds
    BY <1>0, <1>7 DEF SkipStale, BuildEnds, TypeOK, ServicesTypeOK, Loads
  <1> QED
    BY <1>1, <1>2, <1>3, <1>4, <1>5, <1>6, <1>7 DEF Load, Build

\* One more entry of the report.
LEMMA RecordTypes ==
    ASSUME TypeOK, NEW b \in BOOLEAN, Record(b), Len(health) < Len(services)
    PROVE  TypeOK'
  <1>1. Len(health) + 1 \in 1..Len(services)
    BY DEF TypeOK, ServicesTypeOK
  <1>2. services[Len(health) + 1].name \in Names
    <2>1. services \in Seq([name : Names, target : Specs])
      BY DEF TypeOK, ServicesTypeOK
    <2>2. services[Len(health) + 1] \in [name : Names, target : Specs]
      BY <1>1, <2>1, Element
    <2> QED
      BY <2>2
  <1>3. (~b /\ cancelled) \in BOOLEAN
    OBVIOUS
  <1>4. health' \in Seq([name : Names, reachable : BOOLEAN, cut : BOOLEAN])
    BY <1>2, <1>3 DEF Record, TypeOK
  <1>5. UNCHANGED <<loadVars, interval, tun, age, managed, cancelled, quiet>>
    BY DEF Record
  <1>6. /\ hb' \in Running /\ left' \in Nat
        /\ answer' \in {"none", "answers", "slow", "refuses"}
    BY ReportAssumption DEF Record, NewProbe, Running
  <1> QED
    BY <1>4, <1>5, <1>6 DEF TypeOK, ServicesTypeOK, loadVars

LEMMA BeatTypes ==
    ASSUME TypeOK, PhaseInv, Start \/ Beat \/ WaitCancelled \/ Tick \/ Cancel
    PROVE  TypeOK'
  <1>1. CASE Start
    <2>1. <<>> \in Seq(Tokens) /\ <<>> \in Seq(Specs) /\ <<>> \in Seq([name : Names, port : Ports])
      OBVIOUS
    <2> QED
      BY <1>1, <2>1, ReportAssumption
      DEF Start, TypeOK, ServicesTypeOK, Loads, Running, reportVars
  <1>2. CASE TimerFires
    BY <1>2, ReportAssumption
    DEF TimerFires, ReadStatus, NewProbe, TypeOK, ServicesTypeOK, loadVars, Running
  <1>3. ASSUME WaitCancelled \/ Cancel \/ JellyfinFails \/ Send PROVE TypeOK'
    <2>1. /\ hb' \in Running \cup Ended /\ left' \in Nat /\ quiet' \in Nat
          /\ cancelled' \in BOOLEAN
      <3>1. CASE WaitCancelled
        BY <3>1 DEF WaitCancelled, TypeOK, Ended
      <3>2. CASE Cancel
        BY <3>2 DEF Cancel, TypeOK
      <3>3. CASE JellyfinFails
        BY <3>3 DEF JellyfinFails, TypeOK, Running
      <3>4. CASE Send
        BY <3>4, ReportAssumption DEF Send, TypeOK, Running
      <3> QED
        BY <1>3, <3>1, <3>2, <3>3, <3>4
    <2>2. UNCHANGED <<loadVars, interval, tun, age, health, answer, managed>>
      BY <1>3 DEF WaitCancelled, Cancel, JellyfinFails, Send, reportVars
    <2> QED
      BY <2>1, <2>2 DEF TypeOK, ServicesTypeOK, loadVars
  <1>4. CASE JellyfinAnswers \/ HttpAnswers
    BY <1>4, RecordTypes DEF JellyfinAnswers, HttpAnswers, PhaseInv
  <1>5. CASE HttpFails
    BY <1>5, RecordTypes DEF HttpFails, PhaseInv
  <1>6. ASSUME SendFails \/ PostOK \/ PostFails \/ PostRevoked PROVE TypeOK'
    <2>1. health' = <<>> /\ hb' \in Running \cup Ended
          /\ tun' = "none" /\ age' = 0 /\ answer' = "none"
      BY <1>6 DEF SendFails, PostOK, PostFails, PostRevoked, EndBeat, Running, Ended
    <2>2. interval' \in Intervals \cup {Minute} /\ left' \in Nat
      BY <1>6, ReportAssumption
      DEF SendFails, PostOK, PostFails, PostRevoked, Rearm, Adjusted, TypeOK
    <2>3. UNCHANGED <<loadVars, managed, cancelled>> /\ quiet' \in Nat
      BY <1>6 DEF SendFails, PostOK, PostFails, PostRevoked, TypeOK
    <2>4. health' \in Seq([name : Names, reachable : BOOLEAN, cut : BOOLEAN])
      BY <2>1
    <2> QED
      BY <2>1, <2>2, <2>3, <2>4 DEF TypeOK, ServicesTypeOK, loadVars
  <1>7. CASE Tick
    BY <1>7 DEF Tick, TypeOK, ServicesTypeOK, loadVars
  <1> QED
    BY <1>1, <1>2, <1>3, <1>4, <1>5, <1>6, <1>7 DEF Beat, Probe


-----------------------------------------------------------------------------
(* parseServices *)

\* The last host:port up to a token is unique, and moves with the tokens.
LEMMA InheritsUnique ==
    ASSUME NEW n \in Nat, NEW g, NEW h, Inherits(n, g), Inherits(n, h)
    PROVE  g = h
  <1>1. PICK i \in 1..n : /\ raw[i].kind = "pair" /\ raw[i].host = g
                          /\ \A k \in (i + 1)..n : raw[k].kind # "pair"
    BY DEF Inherits
  <1>2. PICK j \in 1..n : /\ raw[j].kind = "pair" /\ raw[j].host = h
                          /\ \A k \in (j + 1)..n : raw[k].kind # "pair"
    BY DEF Inherits
  <1>3. i = j
    <2>1. ~(i < j) /\ ~(j < i)
      BY <1>1, <1>2
    <2> QED
      BY <2>1
  <1> QED
    BY <1>1, <1>2, <1>3

LEMMA InheritsNext ==
    ASSUME NEW n \in Nat \ {0}, NEW h
    PROVE  /\ raw[n].kind = "pair" => Inherits(n, raw[n].host)
           /\ raw[n].kind # "pair" => (Inherits(n, h) <=> Inherits(n - 1, h))
  <1>1. ASSUME raw[n].kind = "pair" PROVE Inherits(n, raw[n].host)
    BY <1>1 DEF Inherits
  <1>2. ASSUME raw[n].kind # "pair", Inherits(n, h) PROVE Inherits(n - 1, h)
    <2>1. PICK i \in 1..n : /\ raw[i].kind = "pair" /\ raw[i].host = h
                            /\ \A k \in (i + 1)..n : raw[k].kind # "pair"
      BY <1>2 DEF Inherits
    <2>2. i \in 1..(n - 1)
      BY <1>2, <2>1
    <2> QED
      BY <2>1, <2>2 DEF Inherits
  <1>3. ASSUME raw[n].kind # "pair", Inherits(n - 1, h) PROVE Inherits(n, h)
    <2>1. PICK i \in 1..(n - 1) : /\ raw[i].kind = "pair" /\ raw[i].host = h
                                  /\ \A k \in (i + 1)..(n - 1) : raw[k].kind # "pair"
      BY <1>3 DEF Inherits
    <2>2. \A k \in (i + 1)..n : raw[k].kind # "pair"
      BY <1>3, <2>1
    <2> QED
      BY <2>1, <2>2 DEF Inherits
  <1> QED
    BY <1>1, <1>2, <1>3

\* The host the code has at a token is the one the grammar gives it.
LEMMA HostIsInherited ==
    ASSUME TypeOK, ParseInv, Parsing, Token.kind # "bare" \/ host # NoHost
    PROVE  Entry => Inherits(next, HostFor)
  <1>1. next \in Nat \ {0} /\ next - 1 \in Nat
    BY DEF TypeOK, ServicesTypeOK
  <1>2. CASE Token.kind = "pair"
    BY <1>1, <1>2, InheritsNext DEF Token, HostFor
  <1>3. CASE Token.kind = "bare"
    <2>1. Inherits(next - 1, host)
      BY <1>3 DEF ParseInv, Parsing, Parsed
    <2> QED
      BY <1>1, <1>3, <2>1, InheritsNext DEF Token, HostFor
  <1> QED
    BY <1>2, <1>3 DEF Entry

\* One more legal token.
LEMMA EntryParsed ==
    ASSUME TypeOK, ParseInv, ParseEntry
    PROVE  ParseInv'
  <1>0. PICK n \in Nat \ {0} : n = next
    BY DEF TypeOK, ServicesTypeOK
  <1>20. PICK new : new = [host |-> HostFor, port |-> Token.port]
    OBVIOUS
  <1>1. /\ n \in 1..Len(raw) /\ Len(raw) \in Nat /\ n \in Entries /\ Token = raw[n]
        /\ Parsing /\ Entry /\ Entries \subseteq Nat
    BY <1>0 DEF ParseEntry, Parsing, Entry, Entries, Token, TypeOK, ServicesTypeOK
  <1>2. /\ raw' = raw /\ load' = "parse" /\ load = "parse" /\ next' = n + 1
        /\ host' = HostFor /\ Entries' = Entries
    BY <1>0, <1>1 DEF ParseEntry, Parsing, Entries
  <1>3. Parsed(n - 1)
    BY <1>0, <1>2 DEF ParseInv
  <1>4. Inherits(n, HostFor)
    BY <1>0, <1>1, HostIsInherited DEF ParseEntry
  <1>5. \A i, h : Inherits(i, h)' <=> Inherits(i, h)
    BY <1>2 DEF Inherits
  <1>6. /\ specs' \in Seq(Specs) /\ specs \in Seq(Specs) /\ Len(specs') = Len(specs) + 1
        /\ Len(specs) \in Nat
        /\ \A k \in 1..Len(specs) : specs'[k] = specs[k]
        /\ specs'[Len(specs) + 1] = new
    <2>1. new \in Specs
      BY <1>1, <1>20, TokenTypes DEF Specs
    <2> QED
      BY <1>20, <2>1 DEF ParseEntry, TypeOK, ServicesTypeOK
  <1>7. \A i \in Entries : i <= n => i <= n - 1 \/ i = n
    BY <1>1 DEF Entries
  <1>8. \A i \in Entries : i <= n => Legal(i)
    <2>1. Legal(n)
      <3>1. raw[n].kind # "junk" /\ raw[n].port # BadPort
        BY <1>1 DEF ParseEntry, PortFree, Entry
      <3>2. HostFor \in Hosts \cup {NoHost} /\ (raw[n].kind = "bare" => HostFor # NoHost)
        BY <1>1, TokenTypes DEF ParseEntry, HostFor
      <3>3. \A j \in Entries : j < n => raw[j].port # raw[n].port
        <4>1. \A j \in Entries : j < n => j <= n - 1
          BY <1>1 DEF Entries
        <4> QED
          BY <1>1, <1>3, <4>1 DEF Parsed, ParseEntry, PortFree
      <3> QED
        BY <1>4, <3>1, <3>2, <3>3 DEF Legal
    <2> QED
      BY <1>3, <1>7, <2>1 DEF Parsed
  <1>9. \A i \in Entries : Legal(i)' <=> Legal(i)
    BY <1>2, <1>5 DEF Legal
  <1>10. \A i \in Entries : i <= n =>
           \E k \in 1..Len(specs') : specs'[k].port = raw[i].port /\ Inherits(i, specs'[k].host)
    <2>1. ASSUME NEW i \in Entries, i <= n - 1
          PROVE  \E k \in 1..Len(specs') : specs'[k].port = raw[i].port /\ Inherits(i, specs'[k].host)
      <3>1. PICK k \in 1..Len(specs) : specs[k].port = raw[i].port /\ Inherits(i, specs[k].host)
        BY <1>3, <2>1 DEF Parsed
      <3> QED
        BY <1>6, <3>1
    <2>2. Len(specs) + 1 \in 1..Len(specs') /\ new.port = raw[n].port /\ Inherits(n, new.host)
      BY <1>1, <1>4, <1>6, <1>20
    <2> QED
      BY <1>6, <1>7, <2>1, <2>2
  <1>11. \A k \in 1..Len(specs') : \E i \in Entries : i <= n /\ specs'[k].port = raw[i].port
    <2>1. \A k \in 1..Len(specs') : k \in 1..Len(specs) \/ k = Len(specs) + 1
      BY <1>6
    <2>2. \A k \in 1..Len(specs) : \E i \in Entries : i <= n /\ specs'[k].port = raw[i].port
      <3>1. ASSUME NEW k \in 1..Len(specs)
            PROVE  \E i \in Entries : i <= n /\ specs'[k].port = raw[i].port
        <4>1. PICK i \in Entries : i <= n - 1 /\ specs[k].port = raw[i].port
          BY <1>3 DEF Parsed
        <4> QED
          BY <1>1, <1>6, <4>1
      <3> QED
        BY <3>1
    <2>3. specs'[Len(specs) + 1].port = raw[n].port
      BY <1>1, <1>6, <1>20
    <2> QED
      BY <1>1, <2>1, <2>2, <2>3
  <1>12. ASSUME NEW k \in 1..Len(specs'), NEW l \in 1..Len(specs'), k < l
         PROVE  \E i, j \in Entries : /\ i < j /\ j <= n
                                      /\ specs'[k].port = raw[i].port
                                      /\ specs'[l].port = raw[j].port
    <2>1. k \in 1..Len(specs) /\ (l \in 1..Len(specs) \/ l = Len(specs) + 1)
      BY <1>6, <1>12
    <2>2. CASE l \in 1..Len(specs)
      <3>1. PICK i \in Entries, j \in Entries : /\ i < j /\ j <= n - 1
                                               /\ specs[k].port = raw[i].port
                                               /\ specs[l].port = raw[j].port
        BY <1>3, <1>12, <2>1, <2>2 DEF Parsed
      <3>2. j <= n
        BY <1>1, <3>1
      <3> QED
        BY <1>6, <2>1, <2>2, <3>1, <3>2
    <2>3. CASE l = Len(specs) + 1
      <3>1. PICK i \in Entries : i <= n - 1 /\ specs[k].port = raw[i].port
        BY <1>3, <2>1 DEF Parsed
      <3>2. i < n /\ specs'[k].port = raw[i].port /\ specs'[l].port = raw[n].port
        BY <1>1, <1>6, <1>20, <2>1, <2>3, <3>1
      <3> QED
        BY <1>1, <3>2
    <2> QED
      BY <2>1, <2>2, <2>3
  <1>13. Parsed(n)'
    <2>1. Inherits(n, host)'
      BY <1>2, <1>4, <1>5
    <2>2. (\A i \in Entries : i <= n => Legal(i))'
      BY <1>2, <1>8, <1>9
    <2>3. (\A i \in Entries : i <= n =>
             \E k \in 1..Len(specs) : specs[k].port = raw[i].port /\ Inherits(i, specs[k].host))'
      BY <1>2, <1>5, <1>10
    <2> QED
      BY <1>2, <1>11, <1>12, <2>1, <2>2, <2>3 DEF Parsed
  <1>14. next' - 1 = n /\ next' \in 1..(Len(raw') + 1)
    BY <1>1, <1>2
  <1>15. DistinctPorts'
    <2>1. \A k \in 1..Len(specs') : k \in 1..Len(specs) \/ k = Len(specs) + 1
      BY <1>6
    <2>2. \A k \in 1..Len(specs) : specs[k].port # new.port
      BY <1>20 DEF ParseEntry, PortFree
    <2> QED
      BY <1>6, <2>1, <2>2 DEF DistinctPorts, ParseInv
  <1> QED
    BY <1>2, <1>13, <1>14, <1>15 DEF ParseInv, ParseMeetsReference


\* A blank token changes nothing but the place.
LEMMA BlankParsed ==
    ASSUME TypeOK, ParseInv, ParseBlank
    PROVE  ParseInv'
  <1>0. PICK n \in Nat \ {0} : n = next
    BY DEF TypeOK, ServicesTypeOK
  <1>1. /\ n \in 1..Len(raw) /\ Len(raw) \in Nat /\ n \notin Entries /\ Entries \subseteq Nat
        /\ raw[n].kind # "pair"
    BY <1>0 DEF ParseBlank, Parsing, Entries, Token, TypeOK, ServicesTypeOK
  <1>2. /\ UNCHANGED <<raw, host, specs, load>> /\ load = "parse" /\ next' = n + 1
        /\ Entries' = Entries
    BY <1>0 DEF ParseBlank, Parsing, Entries
  <1>3. Parsed(n - 1)
    BY <1>0, <1>2 DEF ParseInv
  <1>4. \A i, h : Inherits(i, h)' <=> Inherits(i, h)
    BY <1>2 DEF Inherits
  <1>5. \A i \in Entries : (Legal(i)' <=> Legal(i)) /\ (i <= n => i <= n - 1)
                           /\ (i <= n - 1 => i <= n)
    BY <1>1, <1>2, <1>4 DEF Legal
  <1>6. \/ Inherits(n, host)
        \/ host = NoHost /\ \A j \in 1..n : raw[j].kind # "pair"
    <2>1. CASE Inherits(n - 1, host)
      BY <1>1, <2>1, InheritsNext
    <2>2. CASE host = NoHost /\ \A j \in 1..(n - 1) : raw[j].kind # "pair"
      BY <1>1, <2>2
    <2> QED
      BY <1>3, <2>1, <2>2 DEF Parsed
  <1>7. Parsed(n)
    <2>1. \A i \in Entries : i <= n =>
            \E k \in 1..Len(specs) : specs[k].port = raw[i].port /\ Inherits(i, specs[k].host)
      BY <1>3, <1>5 DEF Parsed
    <2>2. \A k \in 1..Len(specs) : \E i \in Entries : i <= n /\ specs[k].port = raw[i].port
      BY <1>3, <1>5 DEF Parsed
    <2>3. \A k, l \in 1..Len(specs) : k < l =>
            \E i, j \in Entries : /\ i < j /\ j <= n
                                  /\ specs[k].port = raw[i].port
                                  /\ specs[l].port = raw[j].port
      BY <1>3, <1>5 DEF Parsed
    <2>4. \A i \in Entries : i <= n => Legal(i)
      BY <1>3, <1>5 DEF Parsed
    <2> QED
      BY <1>6, <2>1, <2>2, <2>3, <2>4 DEF Parsed
  <1>8. Parsed(n)'
    BY <1>2, <1>4, <1>5, <1>7 DEF Parsed
  <1>9. next' - 1 = n /\ next' \in 1..(Len(raw') + 1)
    BY <1>1, <1>2
  <1> QED
    BY <1>2, <1>8, <1>9 DEF ParseInv, ParseMeetsReference, DistinctPorts

\* What is rejected breaks the grammar.
LEMMA RejectParsed ==
    ASSUME TypeOK, ParseInv, ParseRejects
    PROVE  ParseInv'
  <1>0. PICK n \in Nat \ {0} : n = next
    BY DEF TypeOK, ServicesTypeOK
  <1>1. /\ n \in 1..Len(raw) /\ Len(raw) \in Nat /\ n \in Entries /\ Token = raw[n]
        /\ Entries \subseteq Nat
    BY <1>0 DEF ParseRejects, Entry, Parsing, Entries, Token, TypeOK, ServicesTypeOK
  <1>2. /\ UNCHANGED <<raw, specs>> /\ load' = "rejected" /\ load = "parse"
        /\ Entries' = Entries
    BY DEF ParseRejects, Parsing, Entries
  <1>3. Parsed(n - 1)
    BY <1>0, <1>2 DEF ParseInv
  <1>4. ~Legal(n)
    <2>1. CASE Token.kind = "junk"
      BY <1>1, <2>1 DEF Legal
    <2>2. CASE Token.kind = "bare" /\ host = NoHost
      <3>1. ASSUME NEW h, Inherits(n, h) PROVE h = NoHost
        <4>1. Inherits(n - 1, h) /\ n - 1 \in Nat
          BY <1>1, <2>2, <3>1, InheritsNext
        <4>2. Inherits(n - 1, host)
          BY <1>3, <4>1 DEF Parsed, Inherits
        <4> QED
          BY <2>2, <4>1, <4>2, InheritsUnique
      <3> QED
        BY <1>1, <2>2, <3>1 DEF Legal
    <2>3. CASE ~PortFree
      <3>1. CASE Token.port = BadPort
        BY <1>1, <3>1 DEF Legal
      <3>2. ASSUME NEW k \in 1..Len(specs), specs[k].port = Token.port
            PROVE  ~Legal(n)
        <4>1. PICK i \in Entries : i <= n - 1 /\ specs[k].port = raw[i].port
          BY <1>3 DEF Parsed
        <4>2. i < n /\ raw[i].port = raw[n].port
          BY <1>1, <3>2, <4>1
        <4> QED
          BY <4>1, <4>2 DEF Legal
      <3> QED
        BY <2>3, <3>1, <3>2 DEF PortFree
    <2> QED
      BY <2>1, <2>2, <2>3 DEF ParseRejects
  <1>5. Legal(n)' <=> Legal(n)
    BY <1>2 DEF Legal, Inherits
  <1> QED
    BY <1>1, <1>2, <1>4, <1>5 DEF ParseInv, ParseMeetsReference, DistinctPorts

\* At the end the whole list has been read.
LEMMA EndParsed ==
    ASSUME TypeOK, ParseInv, ParseEnds
    PROVE  ParseInv'
  <1>1. /\ UNCHANGED <<raw, specs>> /\ load = "parse" /\ raw # <<>> /\ Len(raw) \in Nat
        /\ load' = IF specs = <<>> THEN "rejected" ELSE "loaded"
        /\ Entries' = Entries /\ Entries \subseteq 1..Len(raw)
    BY DEF ParseEnds, Entries, TypeOK, ServicesTypeOK
  <1>2. next = Len(raw) + 1 /\ next - 1 = Len(raw)
    BY <1>1 DEF ParseInv, ParseEnds
  <1>3. Parsed(Len(raw))
    BY <1>1, <1>2 DEF ParseInv
  <1>4. \A i, h : Inherits(i, h)' <=> Inherits(i, h)
    BY <1>1 DEF Inherits
  <1>5. \A i \in Entries : (Legal(i)' <=> Legal(i)) /\ i <= Len(raw)
    BY <1>1, <1>4 DEF Legal
  <1>6. CASE specs = <<>>
    <2>1. Entries = {}
      BY <1>3, <1>5, <1>6 DEF Parsed
    <2> QED
      BY <1>1, <1>6, <2>1 DEF ParseInv, ParseMeetsReference, DistinctPorts
  <1>7. CASE specs # <<>>
    <2>1. \A i \in Entries : Legal(i)
      BY <1>3, <1>5 DEF Parsed
    <2>2. \A i \in Entries : \E k \in 1..Len(specs) :
            specs[k].port = raw[i].port /\ Inherits(i, specs[k].host)
      BY <1>3, <1>5 DEF Parsed
    <2>3. \A k \in 1..Len(specs) : \E i \in Entries : specs[k].port = raw[i].port
      BY <1>3 DEF Parsed
    <2>4. \A k, l \in 1..Len(specs) : k < l =>
            \E i, j \in Entries : /\ i < j
                                  /\ specs[k].port = raw[i].port
                                  /\ specs[l].port = raw[j].port
      BY <1>3 DEF Parsed
    <2>5. ParseMeetsReference'
      BY <1>1, <1>4, <1>5, <1>7, <2>1, <2>2, <2>3, <2>4 DEF ParseMeetsReference
    <2> QED
      BY <1>1, <1>7, <2>5 DEF ParseInv, DistinctPorts
  <1> QED
    BY <1>6, <1>7

\* The reference speaks of the tokens, the services and the verdict.
LEMMA ParseFrame ==
    ASSUME ParseInv, load # "parse", UNCHANGED <<raw, specs>>, load' # "parse",
           load = "rejected" <=> load' = "rejected"
    PROVE  ParseInv'
  <1>1. /\ Entries' = Entries
        /\ \A i, h : Inherits(i, h)' <=> Inherits(i, h)
        /\ \A i : Legal(i)' <=> Legal(i)
    BY DEF Entries, Inherits, Legal
  <1> QED
    BY <1>1 DEF ParseInv, ParseMeetsReference, DistinctPorts

LEMMA InitParsed == Init => ParseInv
  <1> SUFFICES ASSUME Init PROVE ParseInv
    OBVIOUS
  <1>1. /\ specs = <<>> /\ next = 1 /\ host = NoHost /\ load = "parse" /\ raw \in Seq(Tokens)
    BY InitTypes DEF Init, ServicesInit, TypeOK, ServicesTypeOK
  <1>2. Parsed(0)
    BY <1>1 DEF Parsed, Entries
  <1> QED
    BY <1>1, <1>2 DEF ParseInv, ParseMeetsReference, DistinctPorts

LEMMA LoadParsed ==
    ASSUME TypeOK, ParseInv, Load \/ Build
    PROVE  ParseInv'
  <1>1. CASE LoadUrl
    <2>1. ASSUME NEW s \in Specs, specs' = <<s>> PROVE DistinctPorts'
      BY <2>1 DEF DistinctPorts
    <2> QED
      BY <1>1, <2>1 DEF LoadUrl, ParseInv, ParseMeetsReference, DistinctPorts
  <1>2. CASE Build
    BY <1>2, ParseFrame DEF Build, Registered, JoinService, SkipStale, BuildEnds
  <1> QED
    BY <1>1, <1>2, EntryParsed, BlankParsed, RejectParsed, EndParsed DEF Load


-----------------------------------------------------------------------------
(* buildServices *)

\* A registered service that is configured.
LEMMA JoinStep ==
    ASSUME TypeOK, DistinctPorts, JoinInv, JoinService
    PROVE  JoinInv'
  <1>0. PICK n \in Nat \ {0} : n = next
    BY DEF TypeOK, ServicesTypeOK
  <1>1. /\ UNCHANGED <<load, specs, registered>> /\ load = "join" /\ next' = n + 1
        /\ n \in 1..Len(registered) /\ Len(registered) \in Nat /\ Joined(n - 1)
    BY <1>0 DEF JoinService, JoinInv, TypeOK, ServicesTypeOK
  <1>2. PICK k \in 1..Len(specs) : /\ specs[k].port = registered[n].port
                                   /\ services' = Append(services, [name |-> registered[n].name,
                                                                    target |-> specs[k]])
    BY <1>0 DEF JoinService, Matching
  <1>3. PICK new : new = [name |-> registered[n].name, target |-> specs[k]]
    OBVIOUS
  <1>4. /\ Len(services) \in Nat /\ Len(services') = Len(services) + 1
        /\ \A i \in 1..Len(services) : services'[i] = services[i]
        /\ services'[Len(services) + 1] = new
    BY <1>2, <1>3 DEF TypeOK, ServicesTypeOK
  <1>5. \A i \in 1..Len(services') : i \in 1..Len(services) \/ i = Len(services) + 1
    BY <1>4
  <1>6. \A i \in 1..Len(services') : \E r \in 1..Len(registered) : \E j \in 1..Len(specs) :
          /\ r <= n
          /\ services'[i].name = registered[r].name
          /\ services'[i].target = specs[j]
          /\ specs[j].port = registered[r].port
    <2>1. ASSUME NEW i \in 1..Len(services)
          PROVE  \E r \in 1..Len(registered) : \E j \in 1..Len(specs) :
                   /\ r <= n
                   /\ services'[i].name = registered[r].name
                   /\ services'[i].target = specs[j]
                   /\ specs[j].port = registered[r].port
      <3>1. PICK r \in 1..Len(registered), j \in 1..Len(specs) :
               /\ r <= n - 1
               /\ services[i].name = registered[r].name
               /\ services[i].target = specs[j]
               /\ specs[j].port = registered[r].port
        BY <1>1 DEF Joined
      <3>2. services'[i] = services[i] /\ r <= n
        <4>1. r \in Nat /\ n \in Nat
          BY <1>1
        <4> QED
          BY <1>4, <3>1, <4>1
      <3> QED
        BY <3>1, <3>2
    <2>2. new.name = registered[n].name /\ new.target = specs[k] /\ n <= n
      BY <1>3
    <2>3. \E r \in 1..Len(registered) : \E j \in 1..Len(specs) :
            /\ r <= n
            /\ services'[Len(services) + 1].name = registered[r].name
            /\ services'[Len(services) + 1].target = specs[j]
            /\ specs[j].port = registered[r].port
      <3>1. n \in 1..Len(registered) /\ k \in 1..Len(specs) /\ specs[k].port = registered[n].port
        BY <1>1, <1>2
      <3>2. /\ services'[Len(services) + 1].name = registered[n].name
            /\ services'[Len(services) + 1].target = specs[k]
        BY <1>4, <2>2
      <3> QED
        BY <2>2, <3>1, <3>2, Zenon
    <2> QED
      BY <1>5, <2>1, <2>3
  <1>7. ASSUME NEW r \in 1..Len(registered), r <= n, NEW j \in 1..Len(specs),
               specs[j].port = registered[r].port
        PROVE  \E i \in 1..Len(services') : /\ services'[i].name = registered[r].name
                                            /\ services'[i].target = specs[j]
    <2>1. CASE r = n
      <3>1. j = k
        BY <1>2, <1>7, <2>1 DEF DistinctPorts
      <3>2. Len(services) + 1 \in 1..Len(services')
        BY <1>4
      <3>3. /\ services'[Len(services) + 1].name = registered[r].name
            /\ services'[Len(services) + 1].target = specs[j]
        BY <1>3, <1>4, <2>1, <3>1
      <3> QED
        BY <3>2, <3>3, Zenon
    <2>2. CASE r # n
      <3>1. r <= n - 1
        BY <1>1, <1>7, <2>2
      <3>2. PICK i \in 1..Len(services) : /\ services[i].name = registered[r].name
                                          /\ services[i].target = specs[j]
        BY <1>1, <1>7, <3>1 DEF Joined
      <3>3. i \in 1..Len(services') /\ services'[i] = services[i]
        BY <1>4
      <3> QED
        BY <3>2, <3>3
    <2> QED
      BY <2>1, <2>2
  <1>10. ASSUME NEW i \in 1..Len(services'), NEW j \in 1..Len(services'), i < j
         PROVE  \E r, q \in 1..Len(registered) :
                  /\ r < q /\ q <= n
                  /\ services'[i].name = registered[r].name
                  /\ services'[i].target.port = registered[r].port
                  /\ services'[j].name = registered[q].name
                  /\ services'[j].target.port = registered[q].port
    <2>1. i \in 1..Len(services) /\ (j \in 1..Len(services) \/ j = Len(services) + 1)
      BY <1>4, <1>10
    <2>2. CASE j \in 1..Len(services)
      <3>1. PICK r \in 1..Len(registered), q \in 1..Len(registered) :
               /\ r < q /\ q <= n - 1
               /\ services[i].name = registered[r].name
               /\ services[i].target.port = registered[r].port
               /\ services[j].name = registered[q].name
               /\ services[j].target.port = registered[q].port
        BY <1>1, <1>10, <2>1, <2>2 DEF Joined
      <3>2. q <= n
        BY <3>1
      <3> QED
        BY <1>4, <2>1, <2>2, <3>1, <3>2
    <2>3. CASE j = Len(services) + 1
      <3>1. PICK r \in 1..Len(registered), l \in 1..Len(specs) :
               /\ r <= n - 1
               /\ services[i].name = registered[r].name
               /\ services[i].target = specs[l]
               /\ specs[l].port = registered[r].port
        BY <1>1, <2>1 DEF Joined
      <3>2. /\ services'[i] = services[i]
            /\ services'[j].name = registered[n].name
            /\ services'[j].target.port = registered[n].port
        BY <1>2, <1>3, <1>4, <2>1, <2>3
      <3>3. r < n /\ n <= n
        BY <3>1
      <3> QED
        BY <1>1, <3>1, <3>2, <3>3
    <2> QED
      BY <2>1, <2>2, <2>3
  <1>8. Joined(n)'
    BY <1>1, <1>6, <1>7, <1>10 DEF Joined
  <1>9. next' - 1 = n /\ next' \in 1..(Len(registered') + 1)
    BY <1>1
  <1> QED
    BY <1>1, <1>8, <1>9 DEF JoinInv, ServicesJoined

LEMMA LoadJoined ==
    ASSUME TypeOK, DistinctPorts, JoinInv, Load \/ Build
    PROVE  JoinInv'
  <1>1. CASE Load
    BY <1>1
    DEF Load, ParseBlank, ParseEntry, ParseRejects, ParseEnds, LoadUrl, Parsing, JoinInv,
        ServicesJoined
  <1>2. CASE Registered
    <2>1. /\ load = "loaded" /\ load' = "join" /\ next' = 1
          /\ services' = services /\ services = <<>>
          /\ registered' \in Seq([name : Names, port : Ports])
      BY <1>2, ServicesAssumption DEF Registered, JoinInv
    <2>2. Joined(0)'
      BY <2>1 DEF Joined
    <2>3. next' - 1 = 0 /\ next' \in 1..(Len(registered') + 1)
      BY <2>1
    <2> QED
      BY <2>1, <2>2, <2>3 DEF JoinInv, ServicesJoined
  <1>3. CASE SkipStale
    <2>0. PICK n \in Nat \ {0} : n = next
      BY DEF TypeOK, ServicesTypeOK
    <2>1. /\ UNCHANGED <<load, specs, registered, services>> /\ load = "join" /\ next' = n + 1
          /\ n \in 1..Len(registered) /\ Len(registered) \in Nat /\ Joined(n - 1)
      BY <1>3, <2>0 DEF SkipStale, JoinInv, TypeOK, ServicesTypeOK
    <2>2. \A k \in 1..Len(specs) : specs[k].port # registered[n].port
      BY <1>3, <2>0 DEF SkipStale, Matching
    <2>3. \A r \in 1..Len(registered) : r <= n => r <= n - 1 \/ r = n
      BY <2>1
    <2>4. Joined(n)
      <3>1. \A r \in 1..Len(registered) : r <= n - 1 => r <= n
        BY <2>1
      <3>2. \A i \in 1..Len(services) : \E r \in 1..Len(registered) : \E k \in 1..Len(specs) :
              /\ r <= n
              /\ services[i].name = registered[r].name
              /\ services[i].target = specs[k]
              /\ specs[k].port = registered[r].port
        BY <2>1, <3>1 DEF Joined
      <3>3. \A r \in 1..Len(registered) : r <= n => \A k \in 1..Len(specs) :
              specs[k].port = registered[r].port =>
                \E i \in 1..Len(services) : /\ services[i].name = registered[r].name
                                            /\ services[i].target = specs[k]
        BY <2>1, <2>2, <2>3 DEF Joined
      <3>4. \A i, j \in 1..Len(services) : i < j =>
              \E r, q \in 1..Len(registered) :
                /\ r < q /\ q <= n
                /\ services[i].name = registered[r].name
                /\ services[i].target.port = registered[r].port
                /\ services[j].name = registered[q].name
                /\ services[j].target.port = registered[q].port
        BY <2>1, <3>1 DEF Joined
      <3> QED
        BY <3>2, <3>3, <3>4 DEF Joined
    <2>5. Joined(n)'
      BY <2>1, <2>4 DEF Joined
    <2>6. next' - 1 = n /\ next' \in 1..(Len(registered') + 1)
      BY <2>1
    <2> QED
      BY <2>1, <2>5, <2>6 DEF JoinInv, ServicesJoined
  <1>4. CASE BuildEnds
    <2>1. /\ UNCHANGED <<specs, registered, services>> /\ load = "join"
          /\ load' = (IF services = <<>> THEN "failed" ELSE "built")
          /\ Len(registered) \in Nat
      BY <1>4 DEF BuildEnds, TypeOK, ServicesTypeOK
    <2>2. next - 1 = Len(registered) /\ Joined(next - 1)
      BY <1>4, <2>1 DEF BuildEnds, JoinInv
    <2>3. Joined(Len(registered)) /\ \A r \in 1..Len(registered) : r <= Len(registered)
      BY <2>1, <2>2
    <2>4. \A r \in 1..Len(registered) : \A k \in 1..Len(specs) :
            specs[k].port = registered[r].port =>
              \E i \in 1..Len(services) : /\ services[i].name = registered[r].name
                                          /\ services[i].target = specs[k]
      BY <2>3 DEF Joined
    <2>5. \A i, j \in 1..Len(services) : i < j =>
            \E r, q \in 1..Len(registered) :
              /\ r < q
              /\ services[i].name = registered[r].name
              /\ services[i].target.port = registered[r].port
              /\ services[j].name = registered[q].name
              /\ services[j].target.port = registered[q].port
      BY <2>3 DEF Joined
    <2>6. \A i \in 1..Len(services) : \E r \in 1..Len(registered) : \E k \in 1..Len(specs) :
            /\ services[i].name = registered[r].name
            /\ services[i].target = specs[k]
            /\ specs[k].port = registered[r].port
      BY <2>3 DEF Joined
    <2>7. ServicesJoined'
      <3>1. specs' = specs /\ registered' = registered /\ services' = services
        BY <2>1
      <3>2. (\A i \in 1..Len(services) : \E r \in 1..Len(registered) : \E k \in 1..Len(specs) :
              /\ services[i].name = registered[r].name
              /\ services[i].target = specs[k]
              /\ specs[k].port = registered[r].port)'
        BY <2>6, <3>1
      <3>3. (\A r \in 1..Len(registered) : \A k \in 1..Len(specs) :
              specs[k].port = registered[r].port =>
                \E i \in 1..Len(services) : /\ services[i].name = registered[r].name
                                            /\ services[i].target = specs[k])'
        BY <2>4, <3>1
      <3>4. (\A i, j \in 1..Len(services) : i < j =>
              \E r, q \in 1..Len(registered) :
                /\ r < q
                /\ services[i].name = registered[r].name
                /\ services[i].target.port = registered[r].port
                /\ services[j].name = registered[q].name
                /\ services[j].target.port = registered[q].port)'
        <4> SUFFICES ASSUME NEW i \in 1..Len(services), NEW j \in 1..Len(services), i < j
                     PROVE  \E r, q \in 1..Len(registered) :
                              /\ r < q
                              /\ services[i].name = registered[r].name
                              /\ services[i].target.port = registered[r].port
                              /\ services[j].name = registered[q].name
                              /\ services[j].target.port = registered[q].port
          BY <3>1
        <4> QED
          BY <2>5
      <3> QED
        BY <3>2, <3>3, <3>4, Zenon DEF ServicesJoined
    <2> QED
      BY <2>1, <2>7 DEF JoinInv
  <1> QED
    BY <1>1, <1>2, <1>3, <1>4, JoinStep DEF Build

-----------------------------------------------------------------------------
(* The sender *)

\* Loading comes before the group.
LEMMA LoadPhase ==
    ASSUME PhaseInv, TimeInv, Load \/ Build, UNCHANGED hbVars
    PROVE  PhaseInv' /\ TimeInv'
  <1>1. load # "running" /\ load' # "running"
    BY DEF Load, Build, ParseBlank, ParseEntry, ParseRejects, ParseEnds, LoadUrl, Registered,
           JoinService, SkipStale, BuildEnds, Parsing
  <1>2. hb = "off" /\ UNCHANGED <<hb, tun, age, health, cancelled, quiet>>
    BY <1>1 DEF PhaseInv, hbVars, reportVars
  <1> QED
    BY <1>1, <1>2 DEF PhaseInv, TimeInv

\* Another service has been probed.
LEMMA RecordPhase ==
    ASSUME TypeOK, PhaseInv, NEW b \in BOOLEAN, Record(b), hb \in {"jellyfin", "http"}
    PROVE  PhaseInv'
  <1>1. /\ Len(health) \in Nat /\ Len(services) \in Nat /\ Len(health) < Len(services)
        /\ health \in Seq([name : Names, reachable : BOOLEAN, cut : BOOLEAN])
    BY DEF PhaseInv, TypeOK, ServicesTypeOK
  <1>2. PICK e : e = [name |-> services[Len(health) + 1].name, reachable |-> b,
                      cut |-> ~b /\ cancelled]
    OBVIOUS
  <1>3. /\ Len(health') = Len(health) + 1
        /\ \A i \in 1..Len(health) : health'[i] = health[i]
        /\ health'[Len(health) + 1] = e
    BY <1>1, <1>2 DEF Record
  <1>4. UNCHANGED <<load, services, cancelled>>
    BY DEF Record, loadVars
  <1>5. \A i \in 1..Len(health') : /\ health'[i].name = services[i].name
                                   /\ health'[i].cut => cancelled
    <2>1. \A i \in 1..Len(health) : /\ health'[i].name = services[i].name
                                    /\ health'[i].cut => cancelled
      BY <1>3 DEF PhaseInv
    <2>2. e.name = services[Len(health) + 1].name /\ (e.cut => cancelled)
      BY <1>2
    <2>3. \A i \in 1..Len(health') : i \in 1..Len(health) \/ i = Len(health) + 1
      BY <1>1, <1>3
    <2> QED
      BY <1>3, <2>1, <2>2, <2>3
  <1>6. CASE Len(health) + 1 < Len(services)
    BY <1>1, <1>3, <1>4, <1>5, <1>6 DEF Record, NewProbe, PhaseInv
  <1>7. CASE ~(Len(health) + 1 < Len(services))
    <2>1. Len(health') = Len(services') /\ hb' = "send"
      BY <1>1, <1>3, <1>4, <1>7 DEF Record
    <2> QED
      BY <1>4, <1>5, <2>1 DEF PhaseInv
  <1> QED
    BY <1>6, <1>7

LEMMA BeatPhase ==
    ASSUME TypeOK, JoinInv, PhaseInv, Start \/ Beat \/ WaitCancelled \/ Tick \/ Cancel
    PROVE  PhaseInv'
  <1>1. CASE Start
    BY <1>1 DEF Start, PhaseInv, reportVars
  <1>2. CASE TimerFires
    <2>1. Len(services) > 0
      BY <1>2 DEF TimerFires, PhaseInv, JoinInv, TypeOK, ServicesTypeOK
    <2>2. health' = <<>> /\ hb' = "jellyfin" /\ UNCHANGED <<load, services>> /\ load = "running"
      BY <1>2 DEF TimerFires, NewProbe, PhaseInv, loadVars
    <2> QED
      BY <2>1, <2>2 DEF PhaseInv
  <1>3. CASE JellyfinAnswers \/ HttpAnswers \/ HttpFails
    BY <1>3, RecordPhase DEF JellyfinAnswers, HttpAnswers, HttpFails
  <1>4. CASE JellyfinFails
    BY <1>4 DEF JellyfinFails, PhaseInv, loadVars, reportVars
  <1>5. CASE Send
    BY <1>5 DEF Send, PhaseInv, loadVars, reportVars
  <1>6. ASSUME SendFails \/ PostOK \/ PostFails \/ PostRevoked PROVE PhaseInv'
    <2>1. /\ health' = <<>> /\ tun' = "none" /\ age' = 0
          /\ hb' \in {"wait", "revoked"} /\ hb \in {"send", "post"} /\ UNCHANGED load
      BY <1>6 DEF SendFails, PostOK, PostFails, PostRevoked, EndBeat, loadVars
    <2> QED
      BY <2>1 DEF PhaseInv
  <1>7. CASE WaitCancelled
    BY <1>7 DEF WaitCancelled, PhaseInv, loadVars, reportVars
  <1>8. CASE Tick
    BY <1>8 DEF Tick, Running, PhaseInv, loadVars
  <1>9. CASE Cancel
    BY <1>9 DEF Cancel, Running, PhaseInv, loadVars, reportVars
  <1> QED
    BY <1>1, <1>2, <1>3, <1>4, <1>5, <1>6, <1>7, <1>8, <1>9 DEF Beat, Probe

-----------------------------------------------------------------------------
(* Time *)

\* A deadline more, and nothing left of the one before.
LEMMA Deadlines ==
    ASSUME NEW x \in Nat, NEW l \in Nat, NEW b \in Nat, NEW k \in Nat,
           x + l <= b + (k + 1) * ProbeTimeout
    PROVE  /\ x + 0 <= b + (k + 1) * ProbeTimeout
           /\ x + ProbeTimeout <= b + (k + 1 + 1) * ProbeTimeout
  <1>1. ProbeTimeout \in Nat /\ (k + 1) * ProbeTimeout \in Nat
    BY ReportAssumption
  <1>2. (k + 1 + 1) * ProbeTimeout = (k + 1) * ProbeTimeout + ProbeTimeout
    BY <1>1
  <1>3. PICK c \in Nat : c = (k + 1) * ProbeTimeout
    BY <1>1
  <1>4. x + l <= b + c
    BY <1>3
  <1> QED
    BY <1>1, <1>2, <1>3, <1>4

LEMMA RecordTime ==
    ASSUME TypeOK, PhaseInv, TimeInv, NEW b \in BOOLEAN, Record(b), hb \in {"jellyfin", "http"}
    PROVE  TimeInv'
  <1>1. /\ Len(health) \in Nat /\ Len(services) \in Nat /\ Len(health) < Len(services)
        /\ quiet \in Nat /\ left \in Nat /\ age \in Nat /\ interval \in Nat
        /\ PostTimeout \in Nat /\ FreshAge \in Nat /\ PostTimeout + interval \in Nat
    BY ReportAssumption DEF PhaseInv, TypeOK, ServicesTypeOK
  <1>2. /\ UNCHANGED <<services, interval, tun, age, quiet>>
        /\ Len(health') = Len(health) + 1
    BY DEF Record, loadVars, TypeOK
  <1>3. /\ quiet + left <= PostTimeout + interval + (Len(health) + 1) * ProbeTimeout
        /\ tun = "up" => age + left <= FreshAge + (Len(health) + 1) * ProbeTimeout
    BY DEF TimeInv
  <1>4. /\ quiet + 0 <= PostTimeout + interval + (Len(health) + 1) * ProbeTimeout
        /\ quiet + ProbeTimeout <= PostTimeout + interval + (Len(health) + 1 + 1) * ProbeTimeout
    BY <1>1, <1>3, Deadlines
  <1>5. tun = "up" =>
          /\ age + 0 <= FreshAge + (Len(health) + 1) * ProbeTimeout
          /\ age + ProbeTimeout <= FreshAge + (Len(health) + 1 + 1) * ProbeTimeout
    BY <1>1, <1>3, Deadlines
  <1>6. CASE Len(health) + 1 < Len(services)
    <2>1. hb' = "jellyfin" /\ left' = ProbeTimeout
      BY <1>6 DEF Record, NewProbe
    <2> QED
      BY <1>2, <1>4, <1>5, <2>1 DEF TimeInv
  <1>7. CASE ~(Len(health) + 1 < Len(services))
    <2>1. hb' = "send" /\ left' = 0 /\ Len(services) = Len(health) + 1
      BY <1>1, <1>7 DEF Record
    <2> QED
      BY <1>2, <1>4, <1>5, <2>1 DEF TimeInv
  <1> QED
    BY <1>6, <1>7

LEMMA TickTime ==
    ASSUME TypeOK, PhaseInv, TimeInv, Tick
    PROVE  TimeInv'
  <1>1. /\ quiet \in Nat /\ left \in Nat \ {0} /\ age \in Nat
        /\ left' = left - 1 /\ quiet' = quiet + 1 /\ age' = IF tun = "up" THEN age + 1 ELSE age
        /\ UNCHANGED <<hb, interval, tun, health, services>>
    BY DEF Tick, TypeOK, loadVars
  <1>2. quiet' + left' = quiet + left /\ (tun = "up" => age' + left' = age + left)
    BY <1>1
  <1> QED
    BY <1>1, <1>2 DEF TimeInv

LEMMA BeatTime ==
    ASSUME TypeOK, PhaseInv, TimeInv, Start \/ Beat \/ WaitCancelled \/ Tick \/ Cancel
    PROVE  TimeInv'
  <1>0. /\ quiet \in Nat /\ left \in Nat /\ age \in Nat /\ interval \in Nat
        /\ Intervals \cup {Minute} \subseteq Nat
        /\ PostTimeout \in Nat /\ FreshAge \in Nat /\ ProbeTimeout \in Nat
    BY ReportAssumption DEF TypeOK
  <1>1. CASE Start
    <2>1. quiet' = 0 /\ left' = interval' /\ interval' \in Nat /\ hb' = "wait"
      BY <1>0, <1>1 DEF Start, PhaseInv
    <2>2. /\ quiet' + left' <= PostTimeout + interval'
          /\ quiet' + left' >= interval'
      <3>1. PICK n \in Nat : n = interval'
        BY <2>1
      <3>2. 0 + n <= PostTimeout + n /\ 0 + n >= n
        BY <1>0
      <3> QED
        BY <2>1, <3>1, <3>2
    <2> QED
      BY <2>1, <2>2 DEF TimeInv
  <1>2. CASE TimerFires
    <2>1. /\ hb' = "jellyfin" /\ left' = ProbeTimeout /\ Len(health') = 0
          /\ UNCHANGED <<quiet, interval>> /\ quiet + 0 <= PostTimeout + interval
          /\ tun' = "up" => age' \in 0..FreshAge
      BY <1>2 DEF TimerFires, NewProbe, ReadStatus, PhaseInv, TimeInv
    <2>2. (Len(health') + 1) * ProbeTimeout = ProbeTimeout
      BY <1>0, <2>1
    <2>3. /\ quiet + ProbeTimeout <= PostTimeout + interval + ProbeTimeout
          /\ tun' = "up" => age' + ProbeTimeout <= FreshAge + ProbeTimeout
      BY <1>0, <2>1
    <2> QED
      BY <2>1, <2>2, <2>3 DEF TimeInv
  <1>3. CASE JellyfinAnswers \/ HttpAnswers \/ HttpFails
    BY <1>3, RecordTime DEF JellyfinAnswers, HttpAnswers, HttpFails
  <1>4. CASE JellyfinFails
    BY <1>4 DEF JellyfinFails, TimeInv, loadVars, reportVars
  <1>5. CASE Send
    <2>1. /\ hb = "send" /\ hb' = "post" /\ left' = PostTimeout /\ quiet' = 0
          /\ UNCHANGED <<tun, age, services>>
      BY <1>5 DEF Send, loadVars, reportVars
    <2>2. tun = "up" => age + left <= FreshAge + Len(services) * ProbeTimeout
      BY <2>1 DEF TimeInv
    <2>3. Len(services) * ProbeTimeout \in Nat
      BY <1>0 DEF TypeOK, ServicesTypeOK
    <2>4. PICK d \in Nat : d = Len(services) * ProbeTimeout
      BY <2>3
    <2>5. tun = "up" => age + PostTimeout <= FreshAge + d + PostTimeout
      BY <1>0, <2>2, <2>4
    <2> QED
      BY <1>0, <2>1, <2>4, <2>5 DEF TimeInv
  <1>6. CASE SendFails
    <2>1. hb' = "wait" /\ quiet' = 0 /\ left' = interval /\ interval' = interval
      BY <1>6 DEF SendFails, EndBeat, Rearm
    <2> QED
      BY <1>0, <2>1 DEF TimeInv
  <1>7. ASSUME PostOK \/ PostFails PROVE TimeInv'
    <2>1. quiet <= PostTimeout
      BY <1>0, <1>7 DEF PostOK, PostFails, TimeInv
    <2>2. /\ hb' = "wait" /\ quiet' = quiet /\ left' = interval' /\ interval' \in Nat
      BY <1>0, <1>7, ReportAssumption DEF PostOK, PostFails, EndBeat, Rearm, Adjusted
    <2>3. /\ quiet' + left' <= PostTimeout + interval'
          /\ quiet' + left' >= interval'
      <3>1. PICK n \in Nat : n = interval'
        BY <2>2
      <3>2. quiet + n <= PostTimeout + n /\ quiet + n >= n
        BY <1>0, <2>1
      <3> QED
        BY <2>2, <3>1, <3>2
    <2> QED
      BY <2>2, <2>3 DEF TimeInv
  <1>8. CASE PostRevoked \/ WaitCancelled
    BY <1>8 DEF PostRevoked, WaitCancelled, EndBeat, TimeInv
  <1>9. CASE Cancel
    BY <1>9 DEF Cancel, TimeInv, loadVars, reportVars
  <1> QED
    BY <1>1, <1>2, <1>3, <1>4, <1>5, <1>6, <1>7, <1>8, <1>9, TickTime DEF Beat, Probe

-----------------------------------------------------------------------------
(* samePorts *)

LEMMA Places ==
    ASSUME NEW S, NEW ports \in Seq(S), NEW p
    PROVE  /\ IsFiniteSet({i \in 1..Len(ports) : ports[i] = p})
           /\ Times(p, ports) = 0 <=> \A i \in 1..Len(ports) : ports[i] # p
  <1>1. Len(ports) \in Nat
    OBVIOUS
  <1>2. IsFiniteSet(1..Len(ports))
    BY <1>1, FS_Interval
  <1>3. {i \in 1..Len(ports) : ports[i] = p} \in SUBSET (1..Len(ports))
    OBVIOUS
  <1>4. IsFiniteSet({i \in 1..Len(ports) : ports[i] = p})
    BY <1>2, <1>3, FS_Subset
  <1> QED
    BY <1>4, FS_EmptySet DEF Times

LEMMA TimesOnce ==
    ASSUME NEW S, NEW ports \in Seq(S), NEW i \in 1..Len(ports),
           \A j \in 1..Len(ports) : ports[j] = ports[i] => j = i
    PROVE  Times(ports[i], ports) = 1
  <1>1. {j \in 1..Len(ports) : ports[j] = ports[i]} = {i}
    OBVIOUS
  <1> QED
    BY <1>1, FS_Singleton DEF Times

\* Against a list without duplicates, counting ports compares the two as sets.
LEMMA SamePortsCovers ==
    ASSUME NEW S, NEW a, NEW b, a \in Seq(S), b \in Seq(S),
           \A k, l \in 1..Len(b) : b[k] = b[l] => k = l
    PROVE  SamePorts(a, b) <=>
             Len(a) = Len(b) /\ \A k \in 1..Len(b) : \E r \in 1..Len(a) : a[r] = b[k]
  <1>1. ASSUME SamePorts(a, b), NEW k \in 1..Len(b)
        PROVE  \E r \in 1..Len(a) : a[r] = b[k]
    <2>1. Times(b[k], a) = Times(b[k], b)
      BY <1>1 DEF SamePorts
    <2>2. Times(b[k], b) # 0
      BY Places
    <2> QED
      BY <2>1, <2>2, Places
  <1>2. ASSUME Len(a) = Len(b), \A k \in 1..Len(b) : \E r \in 1..Len(a) : a[r] = b[k]
        PROVE  SamePorts(a, b)
    <2>0. PICK n \in Nat : n = Len(a) /\ n = Len(b)
      BY <1>2
    <2> DEFINE f == [k \in 1..n |-> CHOOSE r \in 1..n : a[r] = b[k]]
    <2>1. \A k \in 1..n : f[k] \in 1..n /\ a[f[k]] = b[k]
      BY <1>2, <2>0
    <2>2. f \in [1..n -> 1..n]
      BY <2>1
    <2>3. \A k, l \in 1..n : f[k] = f[l] => k = l
      BY <2>0, <2>1
    <2> HIDE DEF f
    <2>4. f \in Injection(1..n, 1..n)
      BY <2>2, <2>3 DEF Injection, IsInjective
    <2>5. f \in Surjection(1..n, 1..n)
      <3>1. IsFiniteSet(1..n)
        BY FS_Interval
      <3> QED
        BY <2>4, <3>1, FS_Injection
    <2>6. \A r \in 1..n : \E k \in 1..n : f[k] = r
      BY <2>5 DEF Surjection
    <2>7. \A r, q \in 1..n : a[r] = a[q] => r = q
      <3> SUFFICES ASSUME NEW r \in 1..n, NEW q \in 1..n, a[r] = a[q]
                   PROVE  r = q
        OBVIOUS
      <3>1. PICK k \in 1..n, l \in 1..n : f[k] = r /\ f[l] = q
        BY <2>6
      <3>2. b[k] = b[l]
        BY <2>1, <3>1
      <3> QED
        BY <2>0, <3>1, <3>2
    <2>8. \A i \in 1..n : Times(a[i], a) = 1
      BY <2>0, <2>7, TimesOnce
    <2>9. \A i \in 1..n : Times(b[i], b) = 1
      BY <2>0, TimesOnce
    <2>10. \A i \in 1..n : \E k \in 1..n : a[i] = b[k] /\ Times(a[i], b) = 1
      <3> SUFFICES ASSUME NEW i \in 1..n
                   PROVE  \E k \in 1..n : a[i] = b[k] /\ Times(a[i], b) = 1
        OBVIOUS
      <3>1. PICK k \in 1..n : f[k] = i
        BY <2>6
      <3>2. a[i] = b[k]
        BY <2>1, <3>1
      <3> QED
        BY <2>9, <3>2
    <2>11. \A i \in 1..n : Times(b[i], a) = 1
      <3> SUFFICES ASSUME NEW i \in 1..n PROVE Times(b[i], a) = 1
        OBVIOUS
      <3>1. f[i] \in 1..n /\ a[f[i]] = b[i]
        BY <2>1
      <3> QED
        BY <2>8, <3>1
    <2> QED
      BY <2>0, <2>8, <2>9, <2>10, <2>11 DEF SamePorts
  <1>3. SamePorts(a, b) => Len(a) = Len(b)
    BY DEF SamePorts
  <1> QED
    BY <1>1, <1>2, <1>3

LEMMA PortsOfList ==
    ASSUME NEW list, Len(list) \in Nat
    PROVE  /\ PortsOf(list) \in Seq({list[i].port : i \in 1..Len(list)})
           /\ Len(PortsOf(list)) = Len(list)
           /\ \A i \in 1..Len(list) : PortsOf(list)[i] = list[i].port
  BY DEF PortsOf

-----------------------------------------------------------------------------
(* The invariant and what follows *)

LEMMA InitRInv == Init => RInv
  <1> SUFFICES ASSUME Init PROVE RInv
    OBVIOUS
  <1>1. /\ load = "parse" /\ services = <<>> /\ hb = "off" /\ health = <<>> /\ tun = "none"
        /\ age = 0 /\ quiet = 0 /\ cancelled = FALSE
    BY DEF Init, ServicesInit
  <1>2. JoinInv
    BY <1>1 DEF JoinInv, ServicesJoined
  <1>3. PhaseInv /\ TimeInv
    BY <1>1 DEF PhaseInv, TimeInv
  <1> QED
    BY <1>2, <1>3, InitTypes, InitParsed DEF RInv

LEMMA NextRInv == RInv /\ [Next]_vars => RInv'
  <1> SUFFICES ASSUME RInv, [Next]_vars PROVE RInv'
    OBVIOUS
  <1>0. TypeOK /\ ParseInv /\ JoinInv /\ PhaseInv /\ TimeInv
    BY DEF RInv
  <1>1. CASE (Load \/ Build) /\ UNCHANGED hbVars
    <2>1. DistinctPorts
      BY <1>0 DEF ParseInv
    <2> QED
      BY <1>0, <1>1, <2>1, LoadTypes, LoadParsed, LoadJoined, LoadPhase DEF RInv
  <1>2. ASSUME Start \/ Beat \/ WaitCancelled \/ Tick \/ Cancel PROVE RInv'
    <2>1. ParseInv' /\ JoinInv'
      <3>1. CASE Start
        <4>1. raw' = <<>> /\ specs' = <<>> /\ load = "built" /\ load' = "running"
              /\ services' = services
          BY <3>1 DEF Start
        <4>2. ParseInv'
          BY <4>1 DEF ParseInv, ParseMeetsReference, DistinctPorts
        <4>3. JoinInv'
          BY <1>0, <4>1 DEF JoinInv, ServicesJoined
        <4> QED
          BY <4>2, <4>3
      <3>2. CASE Beat \/ WaitCancelled \/ Tick \/ Cancel
        <4>1. UNCHANGED loadVars
          BY <3>2
          DEF Beat, Probe, TimerFires, JellyfinAnswers, JellyfinFails, HttpAnswers, HttpFails, Record,
              Send, SendFails, PostOK, PostFails, PostRevoked, WaitCancelled, Tick, Cancel
        <4>2. load = "running"
          BY <1>0, <3>2
          DEF Beat, Probe, TimerFires, JellyfinAnswers, JellyfinFails, HttpAnswers, HttpFails,
              Send, SendFails, PostOK, PostFails, PostRevoked, WaitCancelled, Tick, Cancel,
              Running, PhaseInv
        <4>3. ParseInv'
          BY <1>0, <4>1, <4>2, ParseFrame DEF loadVars
        <4>4. JoinInv'
          BY <1>0, <4>1, <4>2 DEF loadVars, JoinInv, ServicesJoined
        <4> QED
          BY <4>3, <4>4
      <3> QED
        BY <1>2, <3>1, <3>2
    <2> QED
      BY <1>0, <1>2, <2>1, BeatTypes, BeatPhase, BeatTime DEF RInv
  <1>3. CASE UNCHANGED vars
    <2>1. UNCHANGED <<loadVars, hb, left, interval, tun, age, health, answer, managed, cancelled,
                      quiet>>
      BY <1>3 DEF vars, hbVars, reportVars
    <2>2. TypeOK' /\ PhaseInv' /\ TimeInv'
      BY <1>0, <2>1 DEF TypeOK, ServicesTypeOK, loadVars, PhaseInv, TimeInv
    <2>3. JoinInv'
      BY <1>0, <2>1 DEF loadVars, JoinInv, ServicesJoined, Joined
    <2>4. ParseInv'
      BY <1>0, <2>1
      DEF loadVars, ParseInv, ParseMeetsReference, DistinctPorts, Parsed, Entries, Legal, Inherits
    <2> QED
      BY <2>2, <2>3, <2>4 DEF RInv
  <1> QED
    BY <1>1, <1>2, <1>3 DEF Next

\* The inductive invariant of loading and of the heartbeat.
THEOREM ReportIsInv == Spec => []RInv
  BY InitRInv, NextRInv, PTL DEF Spec

\* Every variable keeps its type, whatever is configured, answered or late.
THEOREM ReportTypeOK == Spec => []TypeOK
  <1>1. RInv => TypeOK
    BY DEF RInv
  <1> QED
    BY <1>1, ReportIsInv, PTL

\* parseServices accepts exactly the lists of the grammar of its comment, and
\* gives each service the host of the last host:port, for lists of any length.
THEOREM ParseIsCorrect == Spec => []ParseMeetsReference
  <1>1. RInv => ParseMeetsReference
    BY DEF RInv, ParseInv
  <1> QED
    BY <1>1, ReportIsInv, PTL

\* buildServices joins names and targets by port, for any registration.
THEOREM BuildIsJoin == Spec => []ServicesJoined
  <1>1. RInv => ServicesJoined
    BY DEF RInv, JoinInv
  <1> QED
    BY <1>1, ReportIsInv, PTL

\* samePorts keeps a registration exactly if buildServices then runs every
\* configured service and nothing else, for lists of any length and order.
THEOREM FittingIsKept == Spec => []RegistrationFits
  <1>1. RInv => RegistrationFits
    <2> SUFFICES ASSUME RInv, load = "built"
                 PROVE  SamePorts(PortsOf(registered), PortsOf(specs)) <=>
                          /\ Len(registered) = Len(specs)
                          /\ \A k \in 1..Len(specs) :
                               \E i \in 1..Len(services) : services[i].target = specs[k]
      BY DEF RegistrationFits
    <2> DEFINE S == {registered[i].port : i \in 1..Len(registered)}
                      \cup {specs[i].port : i \in 1..Len(specs)}
               a == PortsOf(registered)
               b == PortsOf(specs)
    <2>1. /\ Len(registered) \in Nat /\ Len(specs) \in Nat
          /\ Len(a) = Len(registered) /\ Len(b) = Len(specs)
          /\ \A i \in 1..Len(registered) : a[i] = registered[i].port
          /\ \A i \in 1..Len(specs) : b[i] = specs[i].port
      <3>1. Len(registered) \in Nat /\ Len(specs) \in Nat
        BY DEF RInv, TypeOK, ServicesTypeOK
      <3> QED
        BY <3>1, PortsOfList
    <2>2. a \in Seq(S) /\ b \in Seq(S)
      BY <2>1 DEF PortsOf
    <2>3. \A k, l \in 1..Len(b) : b[k] = b[l] => k = l
      BY <2>1 DEF RInv, ParseInv, DistinctPorts
    <2> HIDE DEF S, a, b
    <2>4. SamePorts(a, b) <=>
            Len(a) = Len(b) /\ \A k \in 1..Len(b) : \E r \in 1..Len(a) : a[r] = b[k]
      BY <2>2, <2>3, SamePortsCovers
    <2>5. ASSUME NEW k \in 1..Len(specs)
          PROVE  (\E r \in 1..Len(a) : a[r] = b[k]) <=>
                 (\E i \in 1..Len(services) : services[i].target = specs[k])
      <3>1. (\E r \in 1..Len(a) : a[r] = b[k]) <=>
            (\E r \in 1..Len(registered) : specs[k].port = registered[r].port)
        BY <2>1
      <3>2. (\E r \in 1..Len(registered) : specs[k].port = registered[r].port) =>
            (\E i \in 1..Len(services) : services[i].target = specs[k])
        BY DEF RInv, JoinInv, ServicesJoined
      <3>3. ASSUME NEW i \in 1..Len(services), services[i].target = specs[k]
            PROVE  \E r \in 1..Len(registered) : specs[k].port = registered[r].port
        <4>1. PICK r \in 1..Len(registered), l \in 1..Len(specs) :
                services[i].target = specs[l] /\ specs[l].port = registered[r].port
          BY DEF RInv, JoinInv, ServicesJoined
        <4> QED
          BY <3>3, <4>1
      <3> QED
        BY <3>1, <3>2, <3>3
    <2> QED
      BY <2>1, <2>4, <2>5 DEF a, b
  <1> QED
    BY <1>1, ReportIsInv, PTL

\* A report that is sent covers every service and none was cut short by ctx.
THEOREM ReportIsWhole == Spec => []SentReportIsWhole
  <1>1. RInv => SentReportIsWhole
    BY DEF RInv, PhaseInv, SentReportIsWhole
  <1> QED
    BY <1>1, ReportIsInv, PTL

\* How old the handshake of a report under way can be, for any number of
\* services and any timeouts.
THEOREM ReportIsFresh == Spec => []ReportFresh
  <1>1. RInv => ReportFresh
    <2> SUFFICES ASSUME RInv, hb = "post", tun = "up"
                 PROVE  age <= FreshAge + Len(services) * ProbeTimeout + PostTimeout
      BY DEF ReportFresh
    <2>1. age + left <= FreshAge + Len(services) * ProbeTimeout + PostTimeout
      BY DEF RInv, TimeInv
    <2>4. /\ age \in Nat /\ left \in Nat /\ Len(services) \in Nat
          /\ FreshAge \in Nat /\ ProbeTimeout \in Nat /\ PostTimeout \in Nat
      BY ReportAssumption DEF RInv, TypeOK, ServicesTypeOK
    <2>2. FreshAge + Len(services) * ProbeTimeout + PostTimeout \in Nat
      BY <2>4
    <2>3. PICK b \in Nat : b = FreshAge + Len(services) * ProbeTimeout + PostTimeout
      BY <2>2
    <2> QED
      BY <2>1, <2>3, <2>4
  <1> QED
    BY <1>1, ReportIsInv, PTL

\* How long the gateway may be left without a report.
THEOREM SilenceIsBounded == Spec => []SilenceBounded
  <1>1. RInv => SilenceBounded
    <2> SUFFICES ASSUME RInv, hb \in Running
                 PROVE  quiet <= PostTimeout + interval + Len(services) * ProbeTimeout
      BY DEF SilenceBounded, RInv, TypeOK
    <2>0. /\ Len(health) \in Nat /\ Len(services) \in Nat /\ quiet \in Nat /\ left \in Nat
          /\ interval \in Nat /\ PostTimeout \in Nat /\ ProbeTimeout \in Nat
      BY ReportAssumption DEF RInv, TypeOK, ServicesTypeOK
    <2>1. CASE hb \in {"wait", "post"}
      <3>1. quiet + left <= PostTimeout + interval
        BY <2>0, <2>1 DEF RInv, TimeInv
      <3>2. PICK d \in Nat : d = Len(services) * ProbeTimeout
        BY <2>0
      <3> QED
        BY <2>0, <3>1, <3>2
    <2>2. CASE hb \in {"jellyfin", "http"}
      <3>1. quiet + left <= PostTimeout + interval + (Len(health) + 1) * ProbeTimeout
        BY <2>2 DEF RInv, TimeInv
      <3>2. Len(health) + 1 <= Len(services)
        BY <2>0, <2>2 DEF RInv, PhaseInv
      <3>3. (Len(health) + 1) * ProbeTimeout <= Len(services) * ProbeTimeout
        BY <2>0, <3>2
      <3>4. PICK c \in Nat, d \in Nat : /\ c = (Len(health) + 1) * ProbeTimeout
                                        /\ d = Len(services) * ProbeTimeout
        BY <2>0
      <3> QED
        BY <2>0, <3>1, <3>3, <3>4
    <2>3. CASE hb = "send"
      <3>1. quiet + left <= PostTimeout + interval + Len(services) * ProbeTimeout
        BY <2>3 DEF RInv, TimeInv
      <3>2. PICK d \in Nat : d = Len(services) * ProbeTimeout
        BY <2>0
      <3> QED
        BY <2>0, <3>1, <3>2
    <2> QED
      BY <2>1, <2>2, <2>3 DEF Running
  <1> QED
    BY <1>1, ReportIsInv, PTL

\* Two beats are at least an interval apart, whatever the gateway answers.
THEOREM CadenceIsKept == Spec => CadenceKept
  <1>1. RInv /\ [Next]_vars =>
          [hb = "wait" /\ hb' = "jellyfin" => \E n \in Intervals \cup {Minute} : quiet >= n]_vars
    <2> SUFFICES ASSUME RInv, Next, hb = "wait", hb' = "jellyfin"
                 PROVE  \E n \in Intervals \cup {Minute} : quiet >= n
      OBVIOUS
    <2>1. left = 0
      BY DEF Next, Beat, Probe, TimerFires, JellyfinAnswers, JellyfinFails, HttpAnswers, HttpFails,
             Send, SendFails, PostOK, PostFails, PostRevoked, WaitCancelled, Tick, Cancel, Start,
             hbVars, vars, RInv, PhaseInv
    <2>2. quiet + left >= interval /\ quiet \in Nat /\ interval \in Intervals \cup {Minute}
      BY DEF RInv, TimeInv, TypeOK
    <2>3. quiet + left = quiet
      BY <2>1, <2>2
    <2> QED
      BY <2>2, <2>3
  <1> QED
    BY <1>1, ReportIsInv, PTL DEF Spec, CadenceKept
=============================================================================
