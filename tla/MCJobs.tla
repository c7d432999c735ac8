------------------------------- MODULE MCJobs -------------------------------
(* An old server, the one that replaces it, and an outside cron.           *)
EXTENDS Jobs

CONSTANTS old, new, oldtick, newtick, slowtick, cron

MCHome == [r \in Runners |-> IF r = newtick THEN new ELSE old]
=============================================================================
