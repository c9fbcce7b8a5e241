------------------------------ MODULE MCReport ------------------------------
(* Three ports, so that a bare port can follow two host:port entries; two of *)
(* them registered in either order, or the third alone.                      *)
EXTENDS HeartbeatReport
MCRegistrations ==
    LET a == [name |-> "a", port |-> 1]
        b == [name |-> "b", port |-> 2]
        c == [name |-> "c", port |-> 3]
    IN {<<a, b>>, <<b, a>>, <<c>>}
=============================================================================
