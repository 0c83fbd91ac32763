----------------------------- MODULE MCRecreate -----------------------------
(* The runtimes, configs and faults under which TLC checks Recreate. *)
EXTENDS Recreate

Both  == {"pm2", "watt"}
Alone == {"web"}
Pair  == {"web", "worker"}
Either   == {Alone, Pair}
OneFault == {{}, {"web"}, {"worker"}}
Everywhere == {"stage", "switch", "files", "delete", "start", "health", "record", "post",
               "revert", "recordFailed", "rbSwitch", "rbReload", "die"}
\* Every fault while the second release is the newest, the first start, and the
\* deletes and the hook of the last deploy.
Chosen == ({2} \X Everywhere) \cup {<<1, "start">>, <<3, "delete">>, <<3, "post">>}
=============================================================================
