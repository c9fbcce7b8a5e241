--------------------------- MODULE HeartbeatReport ---------------------------
(***************************************************************************)
(* The heartbeat sender (internal/heartbeat) and the probes it makes       *)
(* (internal/detect), with time: a beat reads the tunnel status, probes    *)
(* one service after the other, two requests under one deadline, and posts *)
(* the report; the answer may change the interval.                         *)
(***************************************************************************)
EXTENDS Services

CONSTANTS Intervals,    \* intervals a gateway asks for
          Minute,       \* the interval if the registration has none
          ProbeTimeout, \* deadline of a probe
          PostTimeout,  \* timeout of the HTTP client
          FreshAge      \* oldest handshake behind a status that is up (StatusFresh)

VARIABLES
    hb,        \* where the sender is: see Running and Ended
    left,      \* time until the timer fires, or the deadline of the request
    interval,  \* s.Interval
    tun,       \* the report: "none" yet, "omitted", "down" or "up"
    age,       \* age of the handshake the report shows
    health,    \* the report: an entry per service probed so far
    answer,    \* how the probed service takes a request for its health path
    managed,   \* the agent runs the tunnel itself
    cancelled, \* ctx is done
    quiet      \* time since a report was last sent or given up, or since the start

reportVars == <<tun, age, health, answer>>
hbVars     == <<hb, left, interval, reportVars, managed, cancelled, quiet>>
vars       == <<loadVars, hbVars>>

ASSUME ReportAssumption ==
    /\ Minute \in Nat \ {0} /\ Intervals \subseteq Nat \ {0}
    /\ ProbeTimeout \in Nat \ {0} /\ PostTimeout \in Nat \ {0}
    /\ FreshAge \in Nat

Running == {"wait", "jellyfin", "http", "send", "post"}
Ended   == {"stopped", "revoked"}

TypeOK ==
    /\ ServicesTypeOK
    /\ hb \in {"off"} \cup Running \cup Ended
    /\ left \in Nat /\ age \in Nat /\ quiet \in Nat
    /\ interval \in Intervals \cup {Minute}
    /\ tun \in {"none", "omitted", "down", "up"}
    /\ health \in Seq([name : Names, reachable : BOOLEAN, cut : BOOLEAN])
    /\ answer \in {"none", "answers", "slow", "refuses"}
    /\ managed \in BOOLEAN /\ cancelled \in BOOLEAN

Init ==
    /\ ServicesInit
    /\ hb = "off" /\ left = 0 /\ interval = Minute
    /\ tun = "none" /\ age = 0 /\ health = <<>> /\ answer = "none"
    /\ managed \in BOOLEAN /\ cancelled = FALSE /\ quiet = 0

-----------------------------------------------------------------------------
(* Run *)

\* The group starts; nobody reads the lists again.
Start ==
    /\ load = "built"
    /\ load' = "running"
    /\ raw' = <<>> /\ specs' = <<>> /\ registered' = <<>>
    /\ next' = 1 /\ host' = NoHost
    /\ hb' = "wait"
    /\ interval' \in Intervals \cup {Minute}
    /\ left' = interval'
    /\ UNCHANGED <<services, reportVars, managed, cancelled, quiet>>

\* A prober sees a service that answers its health path at once, late or not.
NewProbe ==
    /\ hb' = "jellyfin"
    /\ left' = ProbeTimeout
    /\ answer' \in {"answers", "slow", "refuses"}

ReadStatus ==
    \/ managed /\ tun' = "up" /\ age' \in 0..FreshAge
    \/ managed /\ tun' = "down" /\ age' = 0
    \/ ~managed /\ tun' = "omitted" /\ age' = 0

TimerFires ==
    /\ hb = "wait" /\ left = 0
    /\ ReadStatus
    /\ NewProbe
    /\ UNCHANGED <<loadVars, interval, health, managed, cancelled, quiet>>

\* Slip: the loop waits for the timer alone.
WaitForTimer ==
    /\ hb = "wait"
    /\ cancelled
    /\ UNCHANGED vars

WaitCancelled ==
    /\ hb = "wait"
    /\ cancelled
    /\ hb' = "stopped"
    /\ UNCHANGED <<loadVars, left, interval, reportVars, managed, cancelled, quiet>>

\* The beat is over, and with it the report.
EndBeat(to) ==
    /\ hb' = to
    /\ tun' = "none" /\ age' = 0 /\ health' = <<>> /\ answer' = "none"

\* timer.Reset
Rearm(n) == interval' = n /\ left' = n

-----------------------------------------------------------------------------
(* Probe *)

\* Another service, or all have been probed.
Record(reachable) ==
    /\ health' = Append(health, [name |-> services[Len(health) + 1].name,
                                 reachable |-> reachable,
                                 cut |-> ~reachable /\ cancelled])
    /\ IF Len(health) + 1 < Len(services)
       THEN NewProbe
       ELSE hb' = "send" /\ left' = 0 /\ answer' = "none"
    /\ UNCHANGED <<loadVars, interval, tun, age, managed, cancelled, quiet>>

JellyfinAnswers ==
    /\ hb = "jellyfin"
    /\ left > 0 /\ ~cancelled
    /\ Record(TRUE)

\* Slip: each request has a deadline of its own.
JellyfinFailsAnew ==
    /\ hb = "jellyfin"
    /\ hb' = "http" /\ left' = ProbeTimeout
    /\ UNCHANGED <<loadVars, interval, reportVars, managed, cancelled, quiet>>

\* Any other answer, an error, the deadline, ctx.
JellyfinFails ==
    /\ hb = "jellyfin"
    /\ hb' = "http"
    /\ UNCHANGED <<loadVars, left, interval, reportVars, managed, cancelled, quiet>>

HttpAnswers ==
    /\ hb = "http"
    /\ answer # "refuses"
    /\ left > 0 /\ ~cancelled
    /\ Record(TRUE)

HttpFails ==
    /\ hb = "http"
    /\ answer = "refuses" \/ left = 0 \/ cancelled
    /\ Record(FALSE)

-----------------------------------------------------------------------------
(* beat: the request *)

\* Slip: the request does not have the context.
SendDetached ==
    /\ hb = "send"
    /\ hb' = "post" /\ left' = PostTimeout /\ quiet' = 0
    /\ UNCHANGED <<loadVars, interval, reportVars, managed, cancelled>>

Send ==
    /\ hb = "send"
    /\ ~cancelled
    /\ hb' = "post" /\ left' = PostTimeout /\ quiet' = 0
    /\ UNCHANGED <<loadVars, interval, reportVars, managed, cancelled>>

\* Do does not send a request whose context is done.
SendFails ==
    /\ hb = "send"
    /\ cancelled
    /\ EndBeat("wait")
    /\ Rearm(interval)
    /\ quiet' = 0
    /\ UNCHANGED <<loadVars, managed, cancelled>>

\* Slip: the answer is taken as it is.
AdjustedAlways(n) == n

Adjusted(n) == IF n > 0 THEN n ELSE interval

PostOK ==
    /\ hb = "post"
    /\ EndBeat("wait")
    /\ \E n \in Intervals \cup {0} : Rearm(Adjusted(n))
    /\ UNCHANGED <<loadVars, managed, cancelled, quiet>>

\* Slip: the loop backs off after an error.
PostFailsBacksOff ==
    /\ hb = "post"
    /\ EndBeat("wait")
    /\ left' = 2 * interval + ProbeTimeout /\ UNCHANGED interval
    /\ UNCHANGED <<loadVars, managed, cancelled, quiet>>

\* Slip: an error that is not a rejection ends the loop.
PostFailsForGood ==
    /\ hb = "post"
    /\ EndBeat("stopped")
    /\ UNCHANGED <<loadVars, left, interval, managed, cancelled, quiet>>

\* Refused, lost, timed out, cancelled: tried again at the next tick.
PostFails ==
    /\ hb = "post"
    /\ EndBeat("wait")
    /\ Rearm(interval)
    /\ UNCHANGED <<loadVars, managed, cancelled, quiet>>

PostRevoked ==
    /\ hb = "post"
    /\ EndBeat("revoked")
    /\ UNCHANGED <<loadVars, left, interval, managed, cancelled, quiet>>

-----------------------------------------------------------------------------
(* Time and the process *)

\* Time passes until a timer or a deadline is due; a service that answers at
\* once does.
Tick ==
    /\ hb \in Running /\ left > 0
    /\ ~(hb = "http" /\ answer = "answers")
    /\ left' = left - 1 /\ quiet' = quiet + 1
    /\ age' = IF tun = "up" THEN age + 1 ELSE age
    /\ UNCHANGED <<loadVars, hb, interval, tun, health, answer, managed, cancelled>>

Cancel ==
    /\ hb \in Running
    /\ ~cancelled
    /\ cancelled' = TRUE
    /\ UNCHANGED <<loadVars, hb, left, interval, reportVars, managed, quiet>>

Over == hb \in Ended \/ load \in {"rejected", "failed"}

Probe == JellyfinAnswers \/ JellyfinFails \/ HttpAnswers \/ HttpFails
Beat  == TimerFires \/ Probe \/ Send \/ SendFails \/ PostOK \/ PostFails \/ PostRevoked

Next == \/ (Load \/ Build) /\ UNCHANGED hbVars
        \/ Start \/ Beat \/ WaitCancelled
        \/ Tick \/ Cancel
        \/ Over /\ UNCHANGED vars

Spec == Init /\ [][Next]_vars

\* A timer, a deadline or ctx takes effect; select finds ctx done, sooner or
\* later also when the timer is, too.
Due == /\ left = 0 \/ cancelled
       /\ TimerFires \/ JellyfinFails \/ HttpFails \/ PostFails

Fairness ==
    /\ WF_vars((Load \/ Build) /\ UNCHANGED hbVars) /\ WF_vars(Start)
    /\ WF_vars(Due) /\ WF_vars(Send) /\ WF_vars(SendFails)
    /\ WF_vars(answer = "answers" /\ HttpAnswers)
    /\ WF_vars(Tick) /\ SF_vars(WaitCancelled)

LiveSpec == Spec /\ Fairness

-----------------------------------------------------------------------------
(* Properties *)

\* The gateway shows "server offline" by these entries: a report that is sent
\* has one for every service, in order, and none that is unreachable only
\* because the agent was being stopped while it probed.
SentReportIsWhole ==
    hb = "post" => /\ Len(health) = Len(services)
                   /\ \A i \in 1..Len(health) : /\ health[i].name = services[i].name
                                                /\ ~health[i].cut

\* The tunnel status is read before the probes (heartbeat.go:117): while the
\* report is under way, the handshake it shows as recent has aged by the
\* probes of all services and the request at most.
ReportFresh ==
    hb = "post" /\ tun = "up" =>
      age <= FreshAge + Len(services) * ProbeTimeout + PostTimeout

\* However slow services and gateway are, the gateway is not left without a
\* report for longer than an interval, a deadline per service and the timeout
\* of the request before.
SilenceBounded ==
    hb \in Running =>
      \E n \in Intervals \cup {Minute} :
        quiet <= PostTimeout + n + Len(services) * ProbeTimeout

\* Nor is it flooded, whatever interval it answers with or leaves out.
CadenceKept ==
    [][hb = "wait" /\ hb' = "jellyfin" =>
         \E n \in Intervals \cup {Minute} : quiet >= n]_vars

\* Reports go on being sent until the agent is stopped or revoked.
KeepsBeating == []<>(hb = "post" \/ cancelled \/ hb = "revoked" \/ load \in {"rejected", "failed"})

\* Once ctx is done Run returns, from the timer, a probe or the request.
Stops == cancelled ~> hb \in Ended

\* "Any HTTP answer counts as up" (config.go:47): a service that answers on
\* its health path at once is reported reachable.
AnswerCountsAsUp ==
    [][health' # <<>> /\ Len(health') > Len(health) /\ answer = "answers" /\ ~cancelled =>
         health'[Len(health')].reachable]_vars
=============================================================================
