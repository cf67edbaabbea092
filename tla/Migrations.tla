------------------------------- MODULE Migrations -------------------------------
(***************************************************************************)
(* Who migrates the database: the tool of cmd/migrate/main.go, run by hand *)
(* as often as somebody likes, and every server, which tries from its      *)
(* start until it succeeds (runMigrationsWithRetry) with the library       *)
(* behind Config.Migrate.  All of them work on the table schema_migrations *)
(* and on the schema, one action per statement or transaction; the         *)
(* database and the processes may go away at any point.                    *)
(*                                                                         *)
(* The tool asks for each file whether it has been applied; the library    *)
(* asks once, and if nothing is recorded beside a table "sessions" it      *)
(* records all files without running them.                                 *)
(*                                                                         *)
(* Migrations are numbered.  The first makes the tables and cannot be run  *)
(* again; later ones need it.                                              *)
(***************************************************************************)
EXTENDS Integers

CONSTANTS
  Tools,       \* runs of the tool
  Servers,     \* server processes: one, or two during a rolling update
  LastFile,    \* the number of the last migration
  HasDown,     \* migrations with a down file
  Reentrant,   \* migrations that change nothing once they have been made
  MaxCrashes   \* bound: ends of server processes

ASSUME RunnersAssumption == Tools \cap Servers = {}
ASSUME FilesAssumption == /\ LastFile \in Nat \ {0}
                          /\ HasDown \subseteq 1..LastFile
                          /\ Reentrant \subseteq 2..LastFile
ASSUME BoundAssumption == MaxCrashes \in Nat

VARIABLES
  schema,    \* migrations whose changes have been made
  versions,  \* the table schema_migrations: names of files
  runner,    \* process -> where it stands
  up,        \* does the database answer?
  crashes,   \* how many servers have ended
  legacy     \* history: was the schema there before the records?

vars == <<schema, versions, runner, up, crashes, legacy>>

Files   == 1..LastFile
Runners == Tools \cup Servers
Names   == Files \X {"up", "down"}

Runner == [cmd : {"none", "up", "down", "serve"},
           pc : {"off", "check", "read", "look", "adopt", "execute", "commit",
                 "wait", "done", "failed"},
           todo : SUBSET Files]   \* files still to be dealt with

TypeOK ==
  /\ schema \subseteq Files
  /\ versions \subseteq Names
  /\ runner \in [Runners -> Runner]
  /\ up \in BOOLEAN
  /\ crashes \in 0..MaxCrashes
  /\ legacy \in BOOLEAN

Off(r) == [cmd |-> IF r \in Servers THEN "serve" ELSE "none", pc |-> "off", todo |-> {}]

\* The database is new, has been migrated so far, or is older than the records.
Init ==
  /\ legacy \in BOOLEAN
  /\ \E k \in 0..LastFile :
       /\ schema = 1..k
       /\ versions = IF legacy THEN {} ELSE (1..k) \X {"up"}
       /\ legacy => k > 0
  /\ runner = [r \in Runners |-> Off(r)]
  /\ up = TRUE
  /\ crashes = 0

------------------------------------------------------------------------------

At(r, pc) == runner[r].pc = pc
To(r, rec) == runner' = [runner EXCEPT ![r] = rec]

\* Mutant of FirstOf: the files as they come.
AnyOf(cmd, S) == CHOOSE f \in S : \A g \in S : g <= f

\* discoverMigrations: up files in order, down files in the opposite order.
FirstOf(cmd, S) == CHOOSE f \in S : \A g \in S : IF cmd = "down" THEN g <= f ELSE f <= g

File(r) == FirstOf(runner[r].cmd, runner[r].todo)

\* The name under which a file is recorded: that of the file itself.
Name(cmd, f) == <<f, IF cmd = "down" THEN "down" ELSE "up">>

\* On to the files that are left, if any are.
Onward(rec, todo, pc) ==
  [rec EXCEPT !.todo = todo, !.pc = IF todo = {} THEN "done" ELSE pc]

\* Mutant of Failed: the error is logged and the next file is tried.
GoesOn(r) == IF runner[r].todo = {} THEN [runner[r] EXCEPT !.pc = "wait"]
             ELSE Onward(runner[r], runner[r].todo \ {File(r)}, "execute")

\* Mutant of Failed: the server tries once.
GivesUp(r) == [runner[r] EXCEPT !.pc = "failed", !.todo = {}]

\* The tool ends with an error, the server waits to try again.
Failed(r) == [runner[r] EXCEPT !.pc = IF r \in Servers THEN "wait" ELSE "failed", !.todo = {}]

\* Mutant of Held: nobody waits.
NeverHeld(r) == FALSE

\* Another transaction has run the same file and recorded it, and is not over.
Held(r) == \E q \in Runners \ {r} :
             At(q, "commit") /\ Name(runner[q].cmd, File(q)) = Name(runner[r].cmd, File(r))

------------------------------------------------------------------------------
(* The tool. *)

\* main, as far as the switch.
StartTool(t, cmd) ==
  LET rec == [runner[t] EXCEPT !.cmd = cmd]
  IN  /\ At(t, "off")
      /\ To(t, IF up THEN Onward(rec, IF cmd = "up" THEN Files ELSE HasDown, "check")
               ELSE [rec EXCEPT !.pc = "failed"])
      /\ UNCHANGED <<schema, versions, up, crashes, legacy>>

\* isMigrationApplied: up skips what is applied, down what is not.
CheckApplied(t) ==
  LET cmd == runner[t].cmd
      f   == File(t)
  IN  /\ At(t, "check") /\ up
      /\ To(t, IF (Name(cmd, f) \in versions) = (cmd = "down")
               THEN [runner[t] EXCEPT !.pc = "execute"]
               ELSE Onward(runner[t], runner[t].todo \ {f}, "check"))
      /\ UNCHANGED <<schema, versions, up, crashes, legacy>>

------------------------------------------------------------------------------
(* The transaction, of the tool or of the library. *)

\* Does the file run, and the INSERT into schema_migrations after it?  That of
\* the tool has ON CONFLICT DO NOTHING, that of the library has not.
Runs(cmd, f) ==
  \/ cmd = "down"
  \/ /\ f = 1 \/ 1 \in schema
     /\ f \in schema => f \in Reentrant
     /\ cmd = "serve" => Name(cmd, f) \notin versions

\* What the file and the record leave behind.  The down file drops all tables.
Schema(cmd, f) == IF cmd = "down" THEN {g \in schema : g < f} ELSE schema \cup {f}

\* Mutant of Versions: the number of the next one.
VersionsOff(cmd, f) == versions \cup {Name(cmd, f + 1)}

Versions(cmd, f) == IF cmd = "down" THEN versions \ {Name(cmd, f)}
                    ELSE versions \cup {Name(cmd, f)}

\* BEGIN, the file, the record.
Execute(r) ==
  /\ At(r, "execute") /\ up
  /\ ~Held(r)
  /\ To(r, IF Runs(runner[r].cmd, File(r)) THEN [runner[r] EXCEPT !.pc = "commit"] ELSE Failed(r))
  /\ UNCHANGED <<schema, versions, up, crashes, legacy>>

\* COMMIT, whose acknowledgement may be lost.
Commit(r, acked) ==
  LET cmd == runner[r].cmd
      f   == File(r)
  IN  /\ At(r, "commit") /\ up
      /\ schema' = Schema(cmd, f)
      /\ versions' = Versions(cmd, f)
      /\ To(r, IF acked THEN Onward(runner[r], runner[r].todo \ {f},
                                    IF cmd = "serve" THEN "execute" ELSE "check")
               ELSE Failed(r))
      /\ UNCHANGED <<up, crashes, legacy>>

------------------------------------------------------------------------------
(* The server and the library. *)

StartServer(s) ==
  /\ s \in Servers /\ At(s, "off")
  /\ To(s, [runner[s] EXCEPT !.pc = "read"])
  /\ UNCHANGED <<schema, versions, up, crashes, legacy>>

\* All versions at once.
ReadVersions(s) ==
  /\ At(s, "read") /\ up
  /\ To(s, IF versions = {} THEN [runner[s] EXCEPT !.pc = "look", !.todo = Files]
           ELSE Onward(runner[s], {f \in Files : Name("serve", f) \notin versions}, "execute"))
  /\ UNCHANGED <<schema, versions, up, crashes, legacy>>

\* BootstrapTable: is there a table "sessions"?
LookForTable(s) ==
  /\ At(s, "look") /\ up
  /\ To(s, [runner[s] EXCEPT !.pc = IF schema # {} THEN "adopt" ELSE "execute"])
  /\ UNCHANGED <<schema, versions, up, crashes, legacy>>

\* Mutant of Clashes: the INSERT has ON CONFLICT DO NOTHING.
NeverClashes(s) == FALSE

\* The INSERT of the library fails for a file that somebody has recorded since.
Clashes(s) == Name("serve", File(s)) \in versions

\* The next file is recorded without being run.
Adopt(s) ==
  LET f == File(s)
  IN  /\ At(s, "adopt") /\ up
      /\ ~Held(s)
      /\ IF Clashes(s)
         THEN To(s, Failed(s)) /\ UNCHANGED versions
         ELSE /\ versions' = versions \cup {Name("serve", f)}
              /\ To(s, Onward(runner[s], runner[s].todo \ {f}, "adopt"))
      /\ UNCHANGED <<schema, up, crashes, legacy>>

\* 15 seconds later.
Retry(s) ==
  /\ s \in Servers /\ At(s, "wait")
  /\ To(s, [runner[s] EXCEPT !.pc = "read"])
  /\ UNCHANGED <<schema, versions, up, crashes, legacy>>

------------------------------------------------------------------------------

\* A statement finds no database.
Fail(r) ==
  /\ ~up
  /\ runner[r].pc \notin {"off", "wait", "done", "failed"}
  /\ To(r, Failed(r))
  /\ UNCHANGED <<schema, versions, up, crashes, legacy>>

\* The database goes, and with it the transactions that are open.
DbDown ==
  /\ up
  /\ up' = FALSE
  /\ runner' = [r \in Runners |-> IF At(r, "commit") THEN Failed(r) ELSE runner[r]]
  /\ UNCHANGED <<schema, versions, crashes, legacy>>

DbUp ==
  /\ ~up
  /\ up' = TRUE
  /\ UNCHANGED <<schema, versions, runner, crashes, legacy>>

\* A process ends; that of a server is started again.
CrashTool(t) ==
  /\ t \in Tools
  /\ runner[t].pc \notin {"off", "done", "failed"}
  /\ To(t, Failed(t))
  /\ UNCHANGED <<schema, versions, up, crashes, legacy>>

CrashServer(s) ==
  /\ s \in Servers /\ ~At(s, "off")
  /\ crashes < MaxCrashes
  /\ crashes' = crashes + 1
  /\ To(s, Off(s))
  /\ UNCHANGED <<schema, versions, up, legacy>>

\* What process r does of itself.
Step(r) ==
  \/ CheckApplied(r)
  \/ Execute(r)
  \/ \E acked \in BOOLEAN : Commit(r, acked)
  \/ StartServer(r)
  \/ ReadVersions(r)
  \/ LookForTable(r)
  \/ Adopt(r)
  \/ Retry(r)

Next ==
  \/ \E t \in Tools, cmd \in {"up", "down"} : StartTool(t, cmd)
  \/ \E r \in Runners : Step(r) \/ Fail(r) \/ CrashTool(r) \/ CrashServer(r)
  \/ DbDown
  \/ DbUp

Spec == Init /\ [][Next]_vars

\* A process that is not stopped runs on, and a server that ended is started
\* again (the Deployment keeps one running).
Fairness == \A r \in Runners : WF_vars(Step(r))
FairSpec == Spec /\ Fairness

------------------------------------------------------------------------------
(* Properties. *)

Applied == {f \in Files : <<f, "up">> \in versions}

\* What is recorded is a first part of the migrations, whoever recorded it.
RecordedInOrder == \E k \in 0..LastFile : Applied = 1..k

\* The records say what was done, however tools and servers cross and whatever
\* is lost on the way: only a database older than the records may be taken on
\* trust, although a tool may make the table that the library takes for a
\* sign of that right after it saw no records.
RecordedAsRun == ~legacy => schema = Applied

\* Who reports success can rely on it.
SuccessMeansApplied ==
  \A r \in Runners : At(r, "done") /\ runner[r].cmd \in {"up", "serve"} => Applied = Files

\* What makes these inductive.  No down file is ever recorded, so none is run;
NoDownFiles ==
  /\ versions \subseteq Files \X {"up"}
  /\ \A r \in Runners : runner[r].pc \in {"execute", "commit"} => runner[r].cmd # "down"
\* the kinds of processes keep apart, and who is at a file has one;
RunnersInStep ==
  \A r \in Runners :
    /\ r \in Servers <=> runner[r].cmd = "serve"
    /\ runner[r].cmd = "none" => At(r, "off")
    /\ runner[r].pc \in {"read", "look", "adopt", "wait"} => r \in Servers
    /\ At(r, "check") => r \in Tools
    /\ At(r, "look") => runner[r].todo = Files
    /\ runner[r].pc \in {"check", "look", "adopt", "execute", "commit"} => runner[r].todo # {}
\* what a run has dealt with is recorded;
TodoIsLeft ==
  \A r \in Runners :
    runner[r].cmd \in {"up", "serve"} /\ runner[r].pc \in {"check", "adopt", "execute", "commit", "done"}
      => Files \ runner[r].todo \subseteq Applied
\* a file that has run and is not committed does not run a second time, and
\* nobody else has it open;
OpenFilesRun ==
  \A r \in Runners : At(r, "commit") =>
    /\ Runs(runner[r].cmd, File(r))
    /\ ~Held(r)
\* and the library adopts what it did not find recorded only when it is old.
AdoptsOld ==
  \A s \in Runners : At(s, "adopt") => legacy \/ (1 \in runner[s].todo \cap Applied)

IndInv ==
  /\ TypeOK
  /\ RecordedInOrder
  /\ RecordedAsRun
  /\ SuccessMeansApplied
  /\ NoDownFiles
  /\ RunnersInStep
  /\ TodoIsLeft
  /\ OpenFilesRun
  /\ AdoptsOld

Ladder == INSTANCE MigrationLadder WITH recorded <- Applied

\* The migrations implement the ladder.
ClimbsTheLadder == Ladder!Spec

\* When the database stays up, every server finds it migrated in the end:
\* tools, other servers, lost answers and old schemas only delay it.
ServersSettle == <>[]up => \A s \in Servers : <>[]At(s, "done")
================================================================================
