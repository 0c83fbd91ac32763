------------------------------- MODULE MCWatch -------------------------------
(* The sessions TLC watches. *)
EXTENDS Watch

S(build, frontend, polling, outDir) ==
    [build |-> build, frontend |-> frontend, polling |-> polling, outDir |-> outDir]

\* Every place to build and both watchers, for backends whose output is uploaded
\* from a directory rsync does not exclude, and for frontends.
Shipping == {S("remote", FALSE, FALSE, "dist"), S("local", FALSE, TRUE, "output"),
             S("none", FALSE, FALSE, "output"), S("local", TRUE, FALSE, "dist"),
             S("remote", TRUE, TRUE, "dist")}

=============================================================================
