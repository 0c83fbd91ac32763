------------------------------ MODULE MCObserve ------------------------------
(* Logs, servers and lines under which TLC checks Observe. *)
EXTENDS Observe

\* A source with a trace in a growing log, and one that repeats itself.
Written == {[one |-> <<"x", "boom", "frame", "note">>, two |-> <<>>],
            [one |-> <<"x", "x", "boom", "x">>, two |-> <<>>],
            [one |-> <<"slow", "blank">>, two |-> <<"boom">>]}

TwoServers == [a |-> {"api", "web"}, b |-> {"api"}]
Both == <<"a", "b">>

Line(server, app, process, level, known, text) ==
    [server |-> server, app |-> app, process |-> process, level |-> level,
     levelKnown |-> known, text |-> text]
Kinds == {Line("a", "api", "api", "error", TRUE, "boom"),
          Line("a", "api", "api", "error", FALSE, "frame"),
          Line("b", "api", "mailer", "warn", TRUE, "slow"),
          Line("a", "web", All, "info", FALSE, "boom")}
Searches == {{"boom"}, {"slow", "frame"}}
=============================================================================
