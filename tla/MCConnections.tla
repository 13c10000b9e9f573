--------------------------- MODULE MCConnections ---------------------------
(***************************************************************************)
(* A small instance of Connections with two scopes.                        *)
(***************************************************************************)
EXTENDS Connections, TLC

CONSTANTS r1, r2

RequestSymmetry == Permutations({r1, r2})

url(engine, host, port, database, login, form, plain) ==
  [engine |-> engine, host |-> host, port |-> port, database |-> database,
   login |-> login, form |-> form, plain |-> plain]

\* The demo database of the settings, which a user may paste as well.
demo == url("postgresql", "prod", "5432", "demo", "admin", "uri", TRUE)
Settings == {demo}

\* What one thread is given: a database with a rotated password, in another
\* form and without its port, and strings that do not parse or are refused.
Forms ==
  { url("postgresql", "prod", "5432", "demo", "guest", "uri", TRUE),
    url("postgresql", "prod", "5432", "sales", "old", "uri", TRUE),
    url("postgresql", "prod", "5432", "sales", "new", "sqlalchemy", TRUE),
    url("postgresql", "prod", "", "sales", "old", "keyword", TRUE),
    url("mongodb", "a,b", "27017", "events", "old", "uri", FALSE),
    url("mongodb", "c,d", "27017", "events", "old", "uri", FALSE),
    url("unsupported", "prod", "3306", "shop", "old", "uri", TRUE) }

\* What two threads are given.
Contended ==
  { url("postgresql", "prod", "5432", "demo", "guest", "uri", TRUE),
    url("postgresql", "prod", "5432", "sales", "old", "uri", TRUE),
    url("postgresql", "prod", "5432", "sales", "new", "sqlalchemy", TRUE) }

-----------------------------------------------------------------------------
VARIABLE scope

\* A behaviour is about one thread, whose writes succeed and while whose writes
\* the server stays alive, or about two threads, without this.
Within ==
  CASE scope = "one thread" ->
         \E r \in Request : \A o \in Request \ {r} : pc[o] = "idle" /\ asked[o] = Absent
    [] scope = "two threads" ->
         \A r \in Request : asked[r] \in Contended \cup Key \cup {Absent}

\* The one database that is ingested: MongoDB's in the first scope.
Ingested == IF scope = "one thread" THEN "mongodb" ELSE "postgresql"

MCInit == Init /\ scope \in {"one thread", "two threads"}
MCNext == /\ UNCHANGED scope /\ Next /\ Within'
          /\ ingesting' # Absent => ingesting'.engine = Ingested
          /\ scope = "one thread" =>
               /\ \A r \in Request : ~WriteFails(r)
               /\ Restart => \A r \in Request : pc[r] # "writing"
MCSpec == MCInit /\ [][MCNext]_<<vars, scope>>

\* As long as one thread at work saves what it changes, and the server does not
\* die while it writes the file, the file holds what the picker lists whenever
\* no request is served, and a database leaves the picker only if it is
\* deleted, or if the server dies before the request that added it was answered
\* (save_connections).
OneThreadKeeps ==
  /\ [](scope = "one thread" => SavedIsOnDisk)
  /\ [][scope = "one thread" => OnlyDeletedGo]_<<vars, scope>>
=============================================================================
