---------------------------- MODULE MigrationsProofs ----------------------------
(***************************************************************************)
(* Proofs about Migrations, for any number of migrations, tools and        *)
(* servers.  The invariant is proved by action; the steps that change the  *)
(* records or the schema are Commit and Adopt, and only they need an       *)
(* argument: a run has dealt with all files before its next one, so what   *)
(* it records is the next rung.                                            *)
(***************************************************************************)
EXTENDS Migrations, LargestElements, TLAPS

USE RunnersAssumption, FilesAssumption, BoundAssumption

------------------------------------------------------------------------------
(* Helpers. *)

\* The first of some files is one of them, and going up it is the smallest.
LEMMA FirstOfUp ==
  ASSUME NEW cmd, cmd # "down", NEW S \in SUBSET Files, S # {}
  PROVE  FirstOf(cmd, S) \in S /\ \A g \in S : FirstOf(cmd, S) <= g
<1>1. S \in SUBSET Nat
  BY DEF Files
<1>2. \E f \in S : \A g \in S : f <= g
  BY <1>1, SmallestElement
<1> QED BY <1>2, Zenon DEF FirstOf

\* Down, it is the largest.
LEMMA FirstOfDown ==
  ASSUME NEW S \in SUBSET Files, S # {}
  PROVE  FirstOf("down", S) \in S
<1>1. S \in SUBSET Nat /\ LastFile \in Nat /\ \A n \in S : n <= LastFile
  BY DEF Files
<1>2. \E f \in S : \A g \in S : f >= g
  BY <1>1, LargestElement
<1>3. \E f \in S : \A g \in S : g <= f
  BY <1>1, <1>2
<1> QED BY <1>3, Zenon DEF FirstOf

\* The file a process is at is one it has still to deal with.
LEMMA FileIsLeft ==
  ASSUME NEW r \in Runners, runner \in [Runners -> Runner], runner[r].todo # {}
  PROVE  /\ File(r) \in runner[r].todo
         /\ File(r) \in Files
         /\ runner[r].cmd # "down" => \A g \in runner[r].todo : File(r) <= g
<1>1. runner[r].todo \in SUBSET Files
  BY DEF Runner
<1>2. CASE runner[r].cmd = "down"
  BY <1>1, <1>2, FirstOfDown DEF File
<1>3. CASE runner[r].cmd # "down"
  BY <1>1, <1>3, FirstOfUp DEF File
<1> QED BY <1>1, <1>2, <1>3

\* The file depends on nothing but the command and what is left.
LEMMA SameFile ==
  ASSUME NEW r, runner'[r] = runner[r]
  PROVE  File(r)' = File(r)
  BY DEF File

\* What IndInv says of one process alone.
Fits(r) ==
  /\ r \in Servers <=> runner[r].cmd = "serve"
  /\ runner[r].cmd = "none" => At(r, "off")
  /\ runner[r].pc \in {"read", "look", "adopt", "wait"} => r \in Servers
  /\ At(r, "check") => r \in Tools
  /\ At(r, "look") => runner[r].todo = Files
  /\ runner[r].pc \in {"check", "look", "adopt", "execute", "commit"} => runner[r].todo # {}
  /\ runner[r].pc \in {"execute", "commit"} => runner[r].cmd # "down"
  /\ runner[r].cmd \in {"up", "serve"} /\ runner[r].pc \in {"check", "adopt", "execute", "commit", "done"}
       => Files \ runner[r].todo \subseteq Applied
  /\ At(r, "done") /\ runner[r].cmd \in {"up", "serve"} => Applied = Files
  /\ At(r, "adopt") => legacy \/ (1 \in runner[r].todo \cap Applied)

\* IndInv, process by process.
LEMMA EachFits == IndInv => \A r \in Runners : Fits(r)
  BY DEF IndInv, Fits, SuccessMeansApplied, NoDownFiles, RunnersInStep, TodoIsLeft, AdoptsOld

\* A failure fits, and so does a step to the files that are left when what was
\* dealt with is recorded.
LEMMA FailureFits ==
  ASSUME TypeOK, NEW r \in Runners, Fits(r), runner[r].cmd # "none",
         UNCHANGED <<versions, legacy>>, To(r, Failed(r))
  PROVE  Fits(r)'
<1>1. runner'[r] = Failed(r)
  BY DEF TypeOK, To
<1>2. runner'[r].cmd = runner[r].cmd /\ runner'[r].todo = {}
      /\ runner'[r].pc = (IF r \in Servers THEN "wait" ELSE "failed")
  BY <1>1 DEF TypeOK, Runner, Failed
<1> QED BY <1>2 DEF Fits, At

\* A step of one process that opens no file: what is recorded grows at most,
\* and nobody who has a file open is disturbed.
LEMMA OneMoves ==
  ASSUME IndInv, NEW r \in Runners, TypeOK', RecordedInOrder', RecordedAsRun',
         versions \subseteq versions', (versions \subseteq Files \X {"up"})', legacy' = legacy,
         \A q \in Runners \ {r} : runner'[q] = runner[q],
         Fits(r)', ~At(r, "commit")',
         \A q \in Runners \ {r} :
           At(q, "commit") /\ Runs(runner[q].cmd, File(q)) => Runs(runner[q].cmd, File(q))'
  PROVE  IndInv'
<1>1. Applied \subseteq Applied' /\ Applied' \subseteq Files
  BY DEF Applied
<1>2. ASSUME NEW q \in Runners PROVE Fits(q)'
  <2>1. CASE q = r
    BY <2>1
  <2>2. CASE q # r
    <3>1. runner'[q] = runner[q] /\ Fits(q)
      BY <2>2, EachFits
    <3> HIDE DEF Applied
    <3> QED BY <1>1, <3>1 DEF Fits, At
  <2> QED BY <2>1, <2>2
<1>3. OpenFilesRun'
  <2> SUFFICES ASSUME NEW q \in Runners, At(q, "commit")'
               PROVE  Runs(runner[q].cmd, File(q))' /\ ~Held(q)'
    BY DEF OpenFilesRun
  <2>1. q # r /\ runner'[q] = runner[q] /\ At(q, "commit")
    BY DEF At
  <2>2. Runs(runner[q].cmd, File(q)) /\ ~Held(q)
    BY <2>1 DEF IndInv, OpenFilesRun
  <2>3. Runs(runner[q].cmd, File(q))'
    BY <2>1, <2>2
  <2>4. ~Held(q)'
    <3> SUFFICES ASSUME NEW p \in Runners \ {q}, At(p, "commit")',
                        (Name(runner[p].cmd, File(p)) = Name(runner[q].cmd, File(q)))'
                 PROVE  FALSE
      BY DEF Held
    <3>1. p # r /\ runner'[p] = runner[p] /\ At(p, "commit")
      BY DEF At
    <3>2. File(p)' = File(p) /\ File(q)' = File(q)
      BY <2>1, <3>1, SameFile
    <3>3. Name(runner[p].cmd, File(p)) = Name(runner[q].cmd, File(q))
      BY <2>1, <3>1, <3>2 DEF Name
    <3> QED BY <2>2, <3>1, <3>3 DEF Held
  <2> QED BY <2>3, <2>4
<1> QED BY <1>2, <1>3 DEF IndInv, Fits, SuccessMeansApplied, NoDownFiles, RunnersInStep,
                           TodoIsLeft, AdoptsOld

\* A step of one process that changes neither records nor schema and opens no
\* file.
LEMMA QuietMove ==
  ASSUME IndInv, NEW r \in Runners, TypeOK', UNCHANGED <<schema, versions, legacy>>,
         \A q \in Runners \ {r} : runner'[q] = runner[q],
         Fits(r)', ~At(r, "commit")'
  PROVE  IndInv'
<1>1. RecordedInOrder' /\ RecordedAsRun'
  BY DEF IndInv, RecordedInOrder, RecordedAsRun, Applied
<1>2. versions \subseteq versions' /\ (versions \subseteq Files \X {"up"})'
  BY DEF IndInv, NoDownFiles
<1>3. ASSUME NEW q \in Runners \ {r}, Runs(runner[q].cmd, File(q))
      PROVE  Runs(runner[q].cmd, File(q))'
  <2>1. runner'[q] = runner[q] /\ File(q)' = File(q)
    BY SameFile
  <2> QED BY <1>3, <2>1 DEF Runs, Name
<1> QED BY <1>1, <1>2, <1>3, OneMoves

LEMMA FailingMove ==
  ASSUME IndInv, NEW r \in Runners, TypeOK', UNCHANGED <<schema, versions, legacy>>,
         runner[r].cmd # "none", To(r, Failed(r))
  PROVE  IndInv'
<1>1. TypeOK /\ Fits(r)
  BY EachFits DEF IndInv
<1>2. runner'[r] = Failed(r) /\ \A q \in Runners \ {r} : runner'[q] = runner[q]
  BY <1>1 DEF TypeOK, To
<1>3. ~At(r, "commit")'
  BY <1>1, <1>2 DEF TypeOK, Runner, Failed, At
<1> QED BY <1>1, <1>2, <1>3, FailureFits, QuietMove

\* Who has dealt with everything before its next file, and records that one,
\* makes the next rung known, if it was not.
LEMMA NextRung ==
  ASSUME IndInv, NEW r \in Runners, runner[r].cmd # "down",
         runner[r].pc \in {"execute", "commit", "adopt"}
  PROVE  /\ File(r) \in Files
         /\ File(r) \in runner[r].todo
         /\ Files \ runner[r].todo \subseteq Applied
         /\ File(r) \in Applied \/ Applied = 1..(File(r) - 1)
         /\ \E k \in 0..LastFile : Applied \cup {File(r)} = 1..k
<1>1. TypeOK /\ Fits(r) /\ RecordedInOrder
  BY EachFits DEF IndInv
<1>2. runner[r] \in Runner /\ runner[r].todo # {}
  BY <1>1 DEF TypeOK, Fits
<1>3. runner[r].cmd \in {"up", "serve"}
  BY <1>1, <1>2 DEF Runner, Fits, Runners, At
<1>4. /\ File(r) \in runner[r].todo /\ File(r) \in Files
      /\ \A g \in runner[r].todo : File(r) <= g
  BY <1>1, <1>2, FileIsLeft DEF TypeOK
<1>5. Files \ runner[r].todo \subseteq Applied
  BY <1>1, <1>3 DEF Fits
<1>6. PICK k \in 0..LastFile : Applied = 1..k
  BY <1>1 DEF RecordedInOrder
<1> DEFINE f == File(r)
<1>7. \A g \in 1..(f - 1) : g \in 1..k
  <2> SUFFICES ASSUME NEW g \in 1..(f - 1) PROVE g \in 1..k
    OBVIOUS
  <2>1. g \in Files /\ ~(f <= g)
    BY <1>4 DEF Files
  <2> QED BY <2>1, <1>4, <1>5, <1>6
<1>8. f \in Nat /\ 1 <= f /\ f <= LastFile /\ f - 1 <= k
  <2>1. f \in Nat /\ 1 <= f /\ f <= LastFile
    BY <1>4 DEF Files
  <2>2. CASE f = 1
    BY <2>1, <2>2
  <2>3. CASE f # 1
    <3>1. f - 1 \in 1..(f - 1)
      BY <2>1, <2>3
    <3>2. f - 1 \in 1..k
      BY <3>1, <1>7
    <3> QED BY <2>1, <3>2, <1>6
  <2> QED BY <2>1, <2>2, <2>3
<1> HIDE DEF f
<1>9. f \in 1..k \/ (k = f - 1 /\ (1..k) \cup {f} = 1..f)
  BY <1>8
<1>10. f \in 1..k => (1..k) \cup {f} = 1..k
  OBVIOUS
<1>11. /\ f \in Applied \/ Applied = 1..(f - 1)
       /\ \E j \in 0..LastFile : Applied \cup {f} = 1..j
  BY <1>6, <1>8, <1>9, <1>10
<1> QED BY <1>4, <1>5, <1>11 DEF f

------------------------------------------------------------------------------
(* Types. *)

LEMMA OnwardType ==
  ASSUME NEW rec \in Runner, NEW todo \in SUBSET Files,
         NEW pc \in {"check", "adopt", "execute"}
  PROVE  /\ Onward(rec, todo, pc) \in Runner
         /\ Onward(rec, todo, pc).cmd = rec.cmd
         /\ Onward(rec, todo, pc).todo = todo
         /\ Onward(rec, todo, pc).pc = IF todo = {} THEN "done" ELSE pc
  BY DEF Runner, Onward

LEMMA FailedType ==
  ASSUME NEW r \in Runners, runner[r] \in Runner
  PROVE  Failed(r) \in Runner
  BY DEF Runner, Failed

LEMMA ToType ==
  ASSUME TypeOK, NEW r \in Runners, NEW rec \in Runner, To(r, rec)
  PROVE  runner' \in [Runners -> Runner]
  BY DEF TypeOK, To

\* The names of the files recorded are names.
LEMMA NamesType ==
  ASSUME NEW cmd \in {"up", "down", "serve", "none"}, NEW f \in Files
  PROVE  Name(cmd, f) \in Names /\ (cmd # "down" => Name(cmd, f) = <<f, "up">>)
  BY DEF Name, Names

------------------------------------------------------------------------------
(* The steps that change neither records nor schema. *)

LEMMA StartToolStep ==
  ASSUME IndInv, NEW t \in Tools, NEW cmd \in {"up", "down"}, StartTool(t, cmd)
  PROVE  IndInv'
<1> DEFINE todo == IF cmd = "up" THEN Files ELSE HasDown
<1> DEFINE rec == [runner[t] EXCEPT !.cmd = cmd]
<1>1. TypeOK /\ Fits(t) /\ t \in Runners /\ t \notin Servers /\ runner[t] \in Runner
  BY EachFits DEF IndInv, TypeOK, Runners
<1>2. rec \in Runner /\ rec.cmd = cmd /\ todo \in SUBSET Files
  BY <1>1 DEF Runner, Files
<1>3. CASE up
  <2>1. To(t, Onward(rec, todo, "check"))
    BY <1>3 DEF StartTool
  <2> HIDE DEF rec, todo
  <2>2. /\ Onward(rec, todo, "check") \in Runner
        /\ Onward(rec, todo, "check").cmd = cmd
        /\ Onward(rec, todo, "check").todo = todo
        /\ Onward(rec, todo, "check").pc = IF todo = {} THEN "done" ELSE "check"
    BY <1>2, OnwardType
  <2>3. runner'[t] = Onward(rec, todo, "check") /\ \A q \in Runners \ {t} : runner'[q] = runner[q]
    BY <1>1, <2>1 DEF TypeOK, To
  <2>4. TypeOK'
    BY <1>1, <2>1, <2>2, ToType DEF TypeOK, StartTool
  <2>5. cmd = "up" => todo # {} /\ Files \ todo \subseteq Applied'
    BY DEF todo, Files
  <2>6. Fits(t)'
    BY <1>1, <2>2, <2>3, <2>5 DEF Fits, At
  <2> QED BY <1>1, <2>2, <2>3, <2>4, <2>6, QuietMove DEF StartTool, At
<1>4. CASE ~up
  <2>1. To(t, [rec EXCEPT !.pc = "failed"])
    BY <1>4 DEF StartTool
  <2>2. runner'[t] = [rec EXCEPT !.pc = "failed"] /\ \A q \in Runners \ {t} : runner'[q] = runner[q]
    BY <1>1, <2>1 DEF TypeOK, To
  <2>3. runner'[t] \in Runner /\ runner'[t].cmd = cmd /\ runner'[t].pc = "failed"
    BY <1>2, <2>2 DEF Runner
  <2>4. TypeOK'
    BY <1>1, <2>1, <2>2, <2>3, ToType DEF TypeOK, StartTool
  <2>5. Fits(t)'
    BY <1>1, <2>3 DEF Fits, At
  <2> QED BY <1>1, <2>2, <2>3, <2>4, <2>5, QuietMove DEF StartTool, At
<1> QED BY <1>3, <1>4

LEMMA CheckAppliedStep ==
  ASSUME IndInv, NEW r \in Runners, CheckApplied(r)
  PROVE  IndInv'
<1> DEFINE f == File(r)
<1> DEFINE cmd == runner[r].cmd
<1>1. /\ TypeOK /\ Fits(r) /\ runner[r] \in Runner /\ At(r, "check")
      /\ versions \subseteq Files \X {"up"}
      /\ UNCHANGED <<schema, versions, up, crashes, legacy>>
  BY EachFits DEF IndInv, TypeOK, CheckApplied, NoDownFiles
<1>2. /\ cmd \in {"up", "down"} /\ runner[r].todo # {} /\ r \in Tools /\ r \notin Servers
      /\ runner[r].todo \in SUBSET Files
  BY <1>1 DEF Fits, At, Runner
<1>3. f \in runner[r].todo /\ f \in Files
  BY <1>1, <1>2, FileIsLeft DEF TypeOK
<1> HIDE DEF f
<1>4. cmd = "up" => Files \ runner[r].todo \subseteq Applied
  BY <1>1, <1>2 DEF Fits, At
<1>5. (Name(cmd, f) \in versions) = (cmd = "down") \/ f \in Applied \/ cmd = "down"
  BY <1>1, <1>2, <1>3 DEF Name, Applied
<1>6. Applied \subseteq Files
  BY DEF Applied
<1>7. CASE (Name(cmd, f) \in versions) = (cmd = "down")
  <2>1. cmd = "up"
    BY <1>1, <1>2, <1>3, <1>7 DEF Name
  <2>2. To(r, [runner[r] EXCEPT !.pc = "execute"])
    BY <1>7 DEF CheckApplied, f
  <2>3. /\ runner'[r] = [runner[r] EXCEPT !.pc = "execute"]
        /\ \A q \in Runners \ {r} : runner'[q] = runner[q]
    BY <1>1, <2>2 DEF TypeOK, To
  <2>4. /\ runner'[r] \in Runner /\ runner'[r].cmd = cmd /\ runner'[r].pc = "execute"
        /\ runner'[r].todo = runner[r].todo
    BY <1>1, <2>3 DEF Runner
  <2>5. TypeOK'
    BY <1>1, <2>2, <2>3, <2>4, ToType DEF TypeOK
  <2>6. Applied' = Applied
    BY <1>1 DEF Applied
  <2>7. Fits(r)'
    BY <1>1, <1>2, <1>4, <2>1, <2>4, <2>6 DEF Fits, At
  <2> QED BY <1>1, <2>3, <2>4, <2>5, <2>7, QuietMove DEF At
<1>8. CASE ~((Name(cmd, f) \in versions) = (cmd = "down"))
  <2> DEFINE todo == runner[r].todo \ {f}
  <2>1. To(r, Onward(runner[r], todo, "check"))
    BY <1>8 DEF CheckApplied, f
  <2>2. todo \in SUBSET Files
    BY <1>2
  <2>3. cmd = "up" => Files \ todo \subseteq Applied
    BY <1>4, <1>5, <1>8
  <2> HIDE DEF todo
  <2>4. /\ Onward(runner[r], todo, "check") \in Runner
        /\ Onward(runner[r], todo, "check").cmd = cmd
        /\ Onward(runner[r], todo, "check").todo = todo
        /\ Onward(runner[r], todo, "check").pc = IF todo = {} THEN "done" ELSE "check"
    BY <1>1, <2>2, OnwardType
  <2>5. /\ runner'[r] = Onward(runner[r], todo, "check")
        /\ \A q \in Runners \ {r} : runner'[q] = runner[q]
    BY <1>1, <2>1 DEF TypeOK, To
  <2>6. TypeOK'
    BY <1>1, <2>1, <2>4, ToType DEF TypeOK
  <2>7. Applied' = Applied
    BY <1>1 DEF Applied
  <2>8. Fits(r)'
    BY <1>1, <1>2, <1>6, <2>3, <2>4, <2>5, <2>7 DEF Fits, At
  <2> QED BY <1>1, <2>4, <2>5, <2>6, <2>8, QuietMove DEF At
<1> QED BY <1>7, <1>8

\* A step of one process to another place, with the same files left, fits if
\* the place does.
LEMMA PlaceMove ==
  ASSUME IndInv, NEW r \in Runners, NEW pc \in {"read", "look", "adopt", "execute"},
         To(r, [runner[r] EXCEPT !.pc = pc]), UNCHANGED <<schema, versions, up, crashes, legacy>>,
         runner[r].cmd \notin {"none", "down"},
         pc \in {"read", "look", "adopt"} => r \in Servers,
         pc = "look" => runner[r].todo = Files,
         pc \in {"look", "adopt", "execute"} => runner[r].todo # {},
         pc \in {"adopt", "execute"} => Files \ runner[r].todo \subseteq Applied,
         pc = "adopt" => legacy \/ (1 \in runner[r].todo \cap Applied)
  PROVE  IndInv'
<1>1. TypeOK /\ Fits(r) /\ runner[r] \in Runner
  BY EachFits DEF IndInv, TypeOK
<1>2. /\ runner'[r] = [runner[r] EXCEPT !.pc = pc]
      /\ \A q \in Runners \ {r} : runner'[q] = runner[q]
  BY <1>1 DEF TypeOK, To
<1>3. /\ runner'[r] \in Runner /\ runner'[r].cmd = runner[r].cmd /\ runner'[r].pc = pc
      /\ runner'[r].todo = runner[r].todo
  BY <1>1, <1>2 DEF Runner
<1>4. TypeOK'
  BY <1>1, <1>2, <1>3, ToType DEF TypeOK
<1>5. Applied' = Applied
  BY DEF Applied
<1>6. Fits(r)'
  BY <1>1, <1>3, <1>5 DEF Fits, At
<1> QED BY <1>1, <1>2, <1>3, <1>4, <1>6, QuietMove DEF At

LEMMA StartServerStep ==
  ASSUME IndInv, NEW s \in Runners, StartServer(s)
  PROVE  IndInv'
<1>1. Fits(s) /\ s \in Servers
  BY EachFits DEF StartServer
<1> QED BY <1>1, PlaceMove DEF StartServer, Fits

LEMMA RetryStep ==
  ASSUME IndInv, NEW s \in Runners, Retry(s)
  PROVE  IndInv'
<1>1. Fits(s) /\ s \in Servers
  BY EachFits DEF Retry
<1> QED BY <1>1, PlaceMove DEF Retry, Fits

\* The library looks for a table only after it has read no records, when all
\* files are left; and a table whose making is recorded it has not read of.
LEMMA LookForTableStep ==
  ASSUME IndInv, NEW s \in Runners, LookForTable(s)
  PROVE  IndInv'
<1>1. /\ TypeOK /\ Fits(s) /\ RecordedInOrder /\ RecordedAsRun
      /\ s \in Servers /\ runner[s].cmd = "serve"
      /\ runner[s].todo = Files /\ runner[s].todo # {}
  BY EachFits DEF IndInv, Fits, LookForTable, At
<1>2. CASE schema # {}
  <2>1. To(s, [runner[s] EXCEPT !.pc = "adopt"])
    BY <1>2 DEF LookForTable
  <2>2. ASSUME ~legacy PROVE 1 \in runner[s].todo \cap Applied
    <3>1. PICK k \in 0..LastFile : Applied = 1..k
      BY <1>1 DEF RecordedInOrder
    <3>2. Applied # {}
      BY <1>1, <1>2, <2>2 DEF RecordedAsRun
    <3>3. 1 \in Applied
      BY <3>1, <3>2
    <3> QED BY <1>1, <3>3 DEF Files
  <2> QED BY <1>1, <2>1, <2>2, PlaceMove DEF LookForTable
<1>3. CASE schema = {}
  <2>1. To(s, [runner[s] EXCEPT !.pc = "execute"])
    BY <1>3 DEF LookForTable
  <2> QED BY <1>1, <2>1, PlaceMove DEF LookForTable
<1> QED BY <1>2, <1>3

LEMMA ReadVersionsStep ==
  ASSUME IndInv, NEW s \in Runners, ReadVersions(s)
  PROVE  IndInv'
<1> DEFINE todo == {f \in Files : Name("serve", f) \notin versions}
<1>1. /\ TypeOK /\ Fits(s) /\ runner[s] \in Runner /\ s \in Servers /\ runner[s].cmd = "serve"
      /\ UNCHANGED <<schema, versions, up, crashes, legacy>> /\ At(s, "read")
  BY EachFits DEF IndInv, TypeOK, ReadVersions, Fits, At
<1>2. Applied' = Applied /\ Applied \subseteq Files /\ Files # {}
  BY <1>1 DEF Applied, Files
<1>3. CASE versions = {}
  <2>1. To(s, [runner[s] EXCEPT !.pc = "look", !.todo = Files])
    BY <1>3 DEF ReadVersions
  <2>2. /\ runner'[s] = [runner[s] EXCEPT !.pc = "look", !.todo = Files]
        /\ \A q \in Runners \ {s} : runner'[q] = runner[q]
    BY <1>1, <2>1 DEF TypeOK, To
  <2>3. /\ runner'[s] \in Runner /\ runner'[s].cmd = "serve" /\ runner'[s].pc = "look"
        /\ runner'[s].todo = Files
    BY <1>1, <2>2 DEF Runner
  <2>4. TypeOK'
    BY <1>1, <2>1, <2>2, <2>3, ToType DEF TypeOK
  <2>5. Fits(s)'
    BY <1>1, <1>2, <2>3 DEF Fits, At
  <2> QED BY <1>1, <2>2, <2>3, <2>4, <2>5, QuietMove DEF At
<1>4. CASE versions # {}
  <2>1. To(s, Onward(runner[s], todo, "execute"))
    BY <1>4 DEF ReadVersions
  <2>2. todo \in SUBSET Files /\ Files \ todo \subseteq Applied
    BY DEF Name, Applied
  <2> HIDE DEF todo
  <2>3. /\ Onward(runner[s], todo, "execute") \in Runner
        /\ Onward(runner[s], todo, "execute").cmd = "serve"
        /\ Onward(runner[s], todo, "execute").todo = todo
        /\ Onward(runner[s], todo, "execute").pc = IF todo = {} THEN "done" ELSE "execute"
    BY <1>1, <2>2, OnwardType
  <2>4. /\ runner'[s] = Onward(runner[s], todo, "execute")
        /\ \A q \in Runners \ {s} : runner'[q] = runner[q]
    BY <1>1, <2>1 DEF TypeOK, To
  <2>5. TypeOK'
    BY <1>1, <2>1, <2>3, ToType DEF TypeOK
  <2>6. Fits(s)'
    BY <1>1, <1>2, <2>2, <2>3, <2>4 DEF Fits, At
  <2> QED BY <1>1, <2>3, <2>4, <2>5, <2>6, QuietMove DEF At
<1> QED BY <1>3, <1>4

\* What happens to a process that fails or whose database does.
LEMMA FailStep ==
  ASSUME IndInv, NEW r \in Runners, Fail(r) \/ CrashTool(r)
  PROVE  IndInv'
<1>1. /\ TypeOK /\ Fits(r) /\ runner[r] \in Runner /\ runner[r].cmd # "none" /\ To(r, Failed(r))
      /\ UNCHANGED <<schema, versions, up, crashes, legacy>>
  BY EachFits DEF IndInv, TypeOK, Fits, Fail, CrashTool, At
<1>2. TypeOK'
  BY <1>1, FailedType, ToType DEF TypeOK
<1> QED BY <1>1, <1>2, FailingMove

LEMMA CrashServerStep ==
  ASSUME IndInv, NEW s \in Runners, CrashServer(s)
  PROVE  IndInv'
<1>1. /\ TypeOK /\ Fits(s) /\ s \in Servers /\ To(s, Off(s))
      /\ UNCHANGED <<schema, versions, up, legacy>> /\ crashes' \in 0..MaxCrashes
  BY EachFits DEF IndInv, TypeOK, CrashServer
<1>2. Off(s) \in Runner /\ Off(s).cmd = "serve" /\ Off(s).pc = "off" /\ Off(s).todo = {}
  BY <1>1 DEF Off, Runner
<1> HIDE DEF Off
<1>3. runner'[s] = Off(s) /\ \A q \in Runners \ {s} : runner'[q] = runner[q]
  BY <1>1 DEF TypeOK, To
<1>4. TypeOK'
  BY <1>1, <1>2, ToType DEF TypeOK
<1>5. Fits(s)'
  BY <1>1, <1>2, <1>3 DEF Fits, At
<1> QED BY <1>1, <1>2, <1>3, <1>4, <1>5, QuietMove DEF At

\* The transactions that are open are gone; nobody else notices yet.
LEMMA DbDownStep ==
  ASSUME IndInv, DbDown
  PROVE  IndInv'
<1>1. TypeOK /\ UNCHANGED <<schema, versions, crashes, legacy>> /\ up' = FALSE
  BY DEF IndInv, DbDown
<1>2. ASSUME NEW r \in Runners
      PROVE  /\ runner'[r] \in Runner /\ Fits(r)' /\ ~At(r, "commit")'
  <2>1. runner[r] \in Runner /\ Fits(r)
    BY EachFits DEF IndInv, TypeOK
  <2>2. CASE At(r, "commit")
    <3>1. runner'[r] = Failed(r) /\ runner[r].cmd # "none"
      BY <2>1, <2>2 DEF DbDown, Fits, At
    <3>2. /\ runner'[r] \in Runner
          /\ runner'[r].cmd = runner[r].cmd /\ runner'[r].todo = {}
          /\ runner'[r].pc = (IF r \in Servers THEN "wait" ELSE "failed")
      BY <2>1, <3>1 DEF Runner, Failed
    <3> QED BY <2>1, <3>1, <3>2 DEF Fits, At
  <2>3. CASE ~At(r, "commit")
    <3>1. runner'[r] = runner[r] /\ Applied' = Applied
      BY <1>1, <2>3 DEF DbDown, Applied
    <3> QED BY <1>1, <2>1, <2>3, <3>1 DEF Fits, At
  <2> QED BY <2>2, <2>3
<1>3. TypeOK'
  BY <1>1, <1>2 DEF TypeOK, DbDown
<1>4. (versions \subseteq Files \X {"up"})' /\ RecordedInOrder' /\ RecordedAsRun'
  BY <1>1 DEF IndInv, NoDownFiles, RecordedInOrder, RecordedAsRun, Applied
<1> QED BY <1>2, <1>3, <1>4 DEF IndInv, Fits, SuccessMeansApplied, NoDownFiles, RunnersInStep,
                                TodoIsLeft, AdoptsOld, OpenFilesRun

LEMMA QuietVars ==
  ASSUME IndInv, UNCHANGED <<schema, versions, runner, crashes, legacy>>, up' \in BOOLEAN
  PROVE  IndInv'
<1>1. /\ TypeOK' /\ RecordedInOrder' /\ RecordedAsRun' /\ SuccessMeansApplied' /\ NoDownFiles'
      /\ RunnersInStep' /\ TodoIsLeft' /\ AdoptsOld'
  BY DEF IndInv, TypeOK, RecordedInOrder, RecordedAsRun, SuccessMeansApplied, NoDownFiles,
         RunnersInStep, TodoIsLeft, AdoptsOld, Applied, At
<1>2. OpenFilesRun'
  BY DEF IndInv, OpenFilesRun, Held, Runs, Name, File, At
<1> QED BY <1>1, <1>2 DEF IndInv

\* A file that is opened is nobody else's.
LEMMA ExecuteStep ==
  ASSUME IndInv, NEW r \in Runners, Execute(r)
  PROVE  IndInv'
<1>1. /\ TypeOK /\ Fits(r) /\ runner[r] \in Runner /\ runner[r].cmd \notin {"none", "down"}
      /\ UNCHANGED <<schema, versions, up, crashes, legacy>> /\ ~Held(r) /\ At(r, "execute")
  BY EachFits DEF IndInv, TypeOK, Execute, Fits, At
<1>2. CASE ~Runs(runner[r].cmd, File(r))
  <2>1. To(r, Failed(r))
    BY <1>2 DEF Execute
  <2>2. TypeOK'
    BY <1>1, <2>1, FailedType, ToType DEF TypeOK
  <2> QED BY <1>1, <2>1, <2>2, FailingMove
<1>3. CASE Runs(runner[r].cmd, File(r))
  <2>1. To(r, [runner[r] EXCEPT !.pc = "commit"])
    BY <1>3 DEF Execute
  <2>2. /\ runner'[r] = [runner[r] EXCEPT !.pc = "commit"]
        /\ \A q \in Runners \ {r} : runner'[q] = runner[q]
    BY <1>1, <2>1 DEF TypeOK, To
  <2>3. /\ runner'[r] \in Runner /\ runner'[r].cmd = runner[r].cmd /\ runner'[r].pc = "commit"
        /\ runner'[r].todo = runner[r].todo
    BY <1>1, <2>2 DEF Runner
  <2>4. TypeOK'
    BY <1>1, <2>1, <2>2, <2>3, ToType DEF TypeOK
  <2>5. Applied' = Applied
    BY <1>1 DEF Applied
  <2>6. Fits(r)'
    BY <1>1, <2>3, <2>5 DEF Fits, At
  <2>7. ASSUME NEW q \in Runners PROVE Fits(q)'
    <3>1. CASE q # r
      <4>1. runner'[q] = runner[q] /\ Fits(q)
        BY <2>2, <3>1, EachFits
      <4> QED BY <1>1, <2>5, <4>1 DEF Fits, At
    <3> QED BY <2>6, <3>1
  <2>8. \A q \in Runners : /\ runner'[q].cmd = runner[q].cmd
                           /\ File(q)' = File(q)
                           /\ q # r => (At(q, "commit")' <=> At(q, "commit"))
    BY <2>2, <2>3 DEF File, At
  <2>9. OpenFilesRun'
    <3> SUFFICES ASSUME NEW q \in Runners, At(q, "commit")'
                 PROVE  Runs(runner[q].cmd, File(q))' /\ ~Held(q)'
      BY DEF OpenFilesRun
    <3>1. Runs(runner[q].cmd, File(q))
      BY <1>3, <2>8 DEF IndInv, OpenFilesRun
    <3>2. Runs(runner[q].cmd, File(q))'
      BY <1>1, <2>8, <3>1 DEF Runs, Name
    <3>3. ~Held(q)'
      <4> SUFFICES ASSUME NEW p \in Runners \ {q}, At(p, "commit")',
                          (Name(runner[p].cmd, File(p)) = Name(runner[q].cmd, File(q)))'
                   PROVE  FALSE
        BY DEF Held
      <4>1. Name(runner[p].cmd, File(p)) = Name(runner[q].cmd, File(q))
        BY <2>8 DEF Name
      <4>2. CASE q = r
        BY <1>1, <2>8, <4>1, <4>2 DEF Held
      <4>3. CASE p = r
        <5>1. At(q, "commit") /\ q \in Runners \ {r}
          BY <2>8, <4>3
        <5> QED BY <1>1, <4>1, <4>3, <5>1 DEF Held
      <4>4. CASE p # r /\ q # r
        <5>1. At(q, "commit") /\ At(p, "commit")
          BY <2>8, <4>4
        <5> QED BY <4>1, <5>1 DEF IndInv, OpenFilesRun, Held
      <4> QED BY <4>2, <4>3, <4>4
    <3> QED BY <3>2, <3>3
  <2>10. (versions \subseteq Files \X {"up"})' /\ RecordedInOrder' /\ RecordedAsRun'
    BY <1>1 DEF IndInv, NoDownFiles, RecordedInOrder, RecordedAsRun, Applied
  <2> QED BY <2>4, <2>7, <2>9, <2>10 DEF IndInv, Fits, SuccessMeansApplied, NoDownFiles,
                                         RunnersInStep, TodoIsLeft, AdoptsOld
<1> QED BY <1>2, <1>3

------------------------------------------------------------------------------
(* The steps that change the records. *)

\* A file is recorded by its process, which goes on or fails: nobody else has
\* it open, so nobody who has a file open is disturbed.
LEMMA RecordingMove ==
  ASSUME IndInv, NEW r \in Runners, runner[r].cmd \in {"up", "serve"},
         runner[r].pc \in {"commit", "adopt"},
         versions' = versions \cup {<<File(r), "up">>},
         schema' \in {schema, schema \cup {File(r)}},
         RecordedAsRun', ~Held(r),
         UNCHANGED <<up, crashes, legacy>>,
         \/ To(r, Failed(r))
         \/ To(r, Onward(runner[r], runner[r].todo \ {File(r)}, "check")) /\ r \in Tools
         \/ To(r, Onward(runner[r], runner[r].todo \ {File(r)}, "execute"))
         \/ /\ To(r, Onward(runner[r], runner[r].todo \ {File(r)}, "adopt"))
            /\ legacy /\ r \in Servers
  PROVE  IndInv'
<1> DEFINE f == File(r)
<1> DEFINE todo == runner[r].todo \ {f}
<1>1. /\ TypeOK /\ Fits(r) /\ runner[r] \in Runner /\ versions \subseteq Files \X {"up"}
      /\ OpenFilesRun
  BY EachFits DEF IndInv, TypeOK, NoDownFiles
<1>2. /\ f \in Files /\ f \in runner[r].todo /\ Files \ runner[r].todo \subseteq Applied
      /\ \E k \in 0..LastFile : Applied \cup {f} = 1..k
  BY NextRung
<1> HIDE DEF f
<1>3. /\ versions' = versions \cup {<<f, "up">>}
      /\ schema' \in {schema, schema \cup {f}}
  BY DEF f
<1>4. Applied' = Applied \cup {f} /\ Applied' \subseteq Files
  BY <1>2, <1>3 DEF Applied
<1>5. RecordedInOrder'
  BY <1>2, <1>4 DEF RecordedInOrder
<1>6. todo \in SUBSET Files /\ Files \ todo \subseteq Applied'
  BY <1>1, <1>2, <1>4 DEF Runner
<1> HIDE DEF todo
<1> DEFINE Goes(rec) ==
        /\ To(r, rec) /\ rec.cmd = runner[r].cmd
        /\ \/ rec.pc \in {"wait", "failed"} /\ (rec.pc = "wait" => r \in Servers)
           \/ rec.todo = todo /\ todo = {} /\ rec.pc = "done"
           \/ /\ rec.todo = todo /\ todo # {}
              /\ \/ rec.pc = "check" /\ r \in Tools
                 \/ rec.pc = "execute"
                 \/ rec.pc = "adopt" /\ legacy /\ r \in Servers
<1>7. \E rec \in Runner : Goes(rec)
  <2>1. CASE To(r, Failed(r))
    <3>1. /\ Failed(r) \in Runner /\ Failed(r).cmd = runner[r].cmd
          /\ Failed(r).pc \in {"wait", "failed"} /\ (Failed(r).pc = "wait" => r \in Servers)
      BY <1>1 DEF Runner, Failed
    <3> QED BY <2>1, <3>1
  <2>2. ASSUME NEW pc \in {"check", "adopt", "execute"}, To(r, Onward(runner[r], todo, pc)),
               pc = "check" => r \in Tools, pc = "adopt" => legacy /\ r \in Servers
        PROVE  \E rec \in Runner : Goes(rec)
    <3>1. /\ Onward(runner[r], todo, pc) \in Runner
          /\ Onward(runner[r], todo, pc).cmd = runner[r].cmd
          /\ Onward(runner[r], todo, pc).todo = todo
          /\ Onward(runner[r], todo, pc).pc = IF todo = {} THEN "done" ELSE pc
      BY <1>1, <1>6, OnwardType
    <3> QED BY <2>2, <3>1
  <2>3. CASE To(r, Onward(runner[r], todo, "check")) /\ r \in Tools
    BY <2>2, <2>3
  <2>4. CASE To(r, Onward(runner[r], todo, "execute"))
    BY <2>2, <2>4
  <2>5. CASE To(r, Onward(runner[r], todo, "adopt")) /\ legacy /\ r \in Servers
    BY <2>2, <2>5
  <2> HIDE DEF Goes
  <2> QED BY <2>1, <2>3, <2>4, <2>5 DEF todo, f
<1>7a. PICK rec \in Runner : Goes(rec)
  BY <1>7
<1>8. runner'[r] = rec /\ \A q \in Runners \ {r} : runner'[q] = runner[q]
  BY <1>1, <1>7a DEF TypeOK, To
<1>9. TypeOK'
  <2>1. schema' \subseteq Files /\ versions' \subseteq Names
    BY <1>1, <1>2, <1>3 DEF TypeOK, Names
  <2>2. runner' \in [Runners -> Runner]
    BY <1>1, <1>7a, ToType
  <2> QED BY <1>1, <2>1, <2>2 DEF TypeOK
<1>10. Fits(r)' /\ ~At(r, "commit")'
  BY <1>1, <1>4, <1>6, <1>7a, <1>8 DEF Fits, At
<1>11. (versions \subseteq Files \X {"up"})' /\ versions \subseteq versions'
  BY <1>1, <1>2, <1>3
<1>12. ASSUME NEW q \in Runners \ {r}, At(q, "commit"), Runs(runner[q].cmd, File(q))
       PROVE  Runs(runner[q].cmd, File(q))'
  <2>1. runner'[q] = runner[q] /\ File(q)' = File(q)
    BY <1>8, SameFile
  <2>2. Fits(q) /\ runner[q].cmd # "down" /\ runner[r].cmd # "down"
    BY <1>12, EachFits DEF Fits, At
  <2>3. File(q) # f
    BY <1>12, <2>2 DEF Held, Name, f
  <2>4. schema' \in {schema, schema \cup {f}} /\ (File(q) \in schema' <=> File(q) \in schema)
    BY <1>3, <2>3
  <2>5. <<File(q), "up">> \in versions' <=> <<File(q), "up">> \in versions
    BY <1>3, <2>3
  <2>6. 1 \in schema => 1 \in schema'
    BY <1>3
  <2> QED BY <1>12, <2>1, <2>2, <2>4, <2>5, <2>6 DEF Runs, Name
<1> QED BY <1>5, <1>8, <1>9, <1>10, <1>11, <1>12, OneMoves

\* What the commit of the tool or the library does.
LEMMA CommitStep ==
  ASSUME IndInv, NEW r \in Runners, NEW acked \in BOOLEAN, Commit(r, acked)
  PROVE  IndInv'
<1>1. /\ TypeOK /\ Fits(r) /\ runner[r] \in Runner /\ At(r, "commit") /\ RecordedAsRun
      /\ ~Held(r) /\ UNCHANGED <<up, crashes, legacy>>
  BY EachFits DEF IndInv, TypeOK, OpenFilesRun, Commit
<1>2. runner[r].cmd \in {"up", "serve"} /\ runner[r].pc = "commit"
  BY <1>1 DEF Fits, At, Runner
<1>3. versions' = versions \cup {<<File(r), "up">>} /\ schema' = schema \cup {File(r)}
  BY <1>2 DEF Commit, Versions, Schema, Name
<1>4. File(r) \in Files
  BY <1>2, NextRung
<1>5. Applied' = Applied \cup {File(r)}
  BY <1>3, <1>4 DEF Applied
<1>6. RecordedAsRun'
  BY <1>1, <1>3, <1>5 DEF RecordedAsRun
<1>7. (runner[r].cmd = "serve" <=> r \in Servers) /\ (r \notin Servers => r \in Tools)
  BY <1>1 DEF Fits, Runners
<1>8. \/ To(r, Failed(r))
      \/ To(r, Onward(runner[r], runner[r].todo \ {File(r)}, "check")) /\ r \in Tools
      \/ To(r, Onward(runner[r], runner[r].todo \ {File(r)}, "execute"))
  BY <1>7 DEF Commit
<1> QED BY <1>1, <1>2, <1>3, <1>6, <1>8, RecordingMove

\* The library records without running only in an old database: if the table it
\* found is new, the first file has been recorded by now, and its INSERT fails.
LEMMA AdoptedIsOld ==
  ASSUME IndInv, NEW s \in Runners, Adopt(s), ~Clashes(s)
  PROVE  legacy
<1> SUFFICES ASSUME ~legacy PROVE FALSE
  OBVIOUS
<1>1. TypeOK /\ Fits(s) /\ At(s, "adopt")
  BY EachFits DEF IndInv, Adopt
<1>2. 1 \in runner[s].todo /\ 1 \in Applied /\ runner[s].cmd = "serve"
  BY <1>1 DEF Fits, At
<1>3. File(s) \in Files /\ File(s) <= 1
  BY <1>1, <1>2, FileIsLeft DEF TypeOK
<1>4. File(s) = 1
  BY <1>3 DEF Files
<1> QED BY <1>2, <1>4 DEF Clashes, Name, Applied

LEMMA AdoptStep ==
  ASSUME IndInv, NEW s \in Runners, Adopt(s)
  PROVE  IndInv'
<1>1. /\ TypeOK /\ Fits(s) /\ runner[s] \in Runner /\ At(s, "adopt") /\ RecordedAsRun
      /\ ~Held(s) /\ UNCHANGED <<schema, up, crashes, legacy>> /\ s \in Servers
      /\ runner[s].cmd = "serve" /\ runner[s].pc = "adopt" /\ runner[s].todo # {}
  BY EachFits DEF IndInv, TypeOK, Adopt, Fits, At
<1>2. CASE Clashes(s)
  <2>1. To(s, Failed(s)) /\ UNCHANGED versions
    BY <1>2 DEF Adopt
  <2>2. TypeOK'
    BY <1>1, <2>1, FailedType, ToType DEF TypeOK
  <2> QED BY <1>1, <2>1, <2>2, FailingMove
<1>3. CASE ~Clashes(s)
  <2>1. /\ versions' = versions \cup {<<File(s), "up">>}
        /\ To(s, Onward(runner[s], runner[s].todo \ {File(s)}, "adopt"))
    BY <1>3 DEF Adopt, Name
  <2>2. legacy
    BY <1>3, AdoptedIsOld
  <2>3. RecordedAsRun'
    BY <1>1, <2>2 DEF RecordedAsRun
  <2> QED BY <1>1, <2>1, <2>2, <2>3, RecordingMove
<1> QED BY <1>2, <1>3

------------------------------------------------------------------------------
(* The invariant. *)

LEMMA InitIndInv == Init => IndInv
<1> SUFFICES ASSUME Init PROVE IndInv
  OBVIOUS
<1>1. PICK k \in 0..LastFile : /\ schema = 1..k
                               /\ versions = IF legacy THEN {} ELSE (1..k) \X {"up"}
  BY DEF Init
<1>2. 1..k \subseteq Files /\ 0 \in 0..LastFile /\ 1..0 = {}
  BY DEF Files
<1>3. \A r \in Runners : /\ runner[r].pc = "off" /\ runner[r].todo = {}
                         /\ runner[r].cmd = IF r \in Servers THEN "serve" ELSE "none"
  BY DEF Init, Off
<1>4. runner \in [Runners -> Runner]
  BY DEF Init, Off, Runner
<1>5. TypeOK
  BY <1>1, <1>2, <1>4 DEF Init, TypeOK, Names
<1>6. Applied = IF legacy THEN {} ELSE 1..k
  BY <1>1, <1>2 DEF Applied
<1>7. RecordedInOrder /\ RecordedAsRun
  BY <1>1, <1>2, <1>6 DEF RecordedInOrder, RecordedAsRun
<1>8. NoDownFiles
  BY <1>1, <1>2, <1>3 DEF NoDownFiles
<1> QED BY <1>3, <1>5, <1>7, <1>8 DEF IndInv, SuccessMeansApplied, RunnersInStep, TodoIsLeft,
                                      OpenFilesRun, AdoptsOld, At

LEMMA NextIndInv == IndInv /\ [Next]_vars => IndInv'
<1> SUFFICES ASSUME IndInv, [Next]_vars PROVE IndInv'
  OBVIOUS
<1>1. CASE UNCHANGED vars
  <2>1. up' \in BOOLEAN
    BY <1>1 DEF vars, IndInv, TypeOK
  <2> QED BY <1>1, <2>1, QuietVars DEF vars
<1>2. ASSUME NEW t \in Tools, NEW cmd \in {"up", "down"}, StartTool(t, cmd) PROVE IndInv'
  BY <1>2, StartToolStep
<1>3. ASSUME NEW r \in Runners, Step(r) PROVE IndInv'
  BY <1>3, CheckAppliedStep, ExecuteStep, CommitStep, StartServerStep, ReadVersionsStep,
     LookForTableStep, AdoptStep, RetryStep DEF Step
<1>4. ASSUME NEW r \in Runners, Fail(r) \/ CrashTool(r) \/ CrashServer(r) PROVE IndInv'
  BY <1>4, FailStep, CrashServerStep
<1>5. CASE DbDown
  BY <1>5, DbDownStep
<1>6. CASE DbUp
  BY <1>6, QuietVars DEF DbUp
<1> QED BY <1>1, <1>2, <1>3, <1>4, <1>5, <1>6 DEF Next

\* IndInv holds in every state, for any number of migrations and processes.
THEOREM Invariance == Spec => []IndInv
  BY InitIndInv, NextIndInv, PTL DEF Spec

\* The variables keep their types.
THEOREM TypeCorrect == Spec => []TypeOK
<1>1. IndInv => TypeOK
  BY DEF IndInv
<1> QED BY <1>1, Invariance, PTL

\* The table schema_migrations always holds the names of the first migrations,
\* whether the tool wrote them or the library, and whatever was interrupted.
THEOREM RecordsAreInOrder == Spec => []RecordedInOrder
<1>1. IndInv => RecordedInOrder
  BY DEF IndInv
<1> QED BY <1>1, Invariance, PTL

\* In a database that was migrated from the start the table says exactly what
\* has been done to the schema: the transaction around a file and its record,
\* and the key of the table, see to that with any number of migrators.
THEOREM RecordsAreTrue == Spec => []RecordedAsRun
<1>1. IndInv => RecordedAsRun
  BY DEF IndInv
<1> QED BY <1>1, Invariance, PTL

\* Once a tool or a server has reported success every migration is recorded,
\* and remains so.
THEOREM SuccessIsTrue == Spec => []SuccessMeansApplied
<1>1. IndInv => SuccessMeansApplied
  BY DEF IndInv
<1> QED BY <1>1, Invariance, PTL

------------------------------------------------------------------------------
(* Migrations implements MigrationLadder. *)

LEMMA InitIsLadderInit == Init => Ladder!Init
<1> SUFFICES ASSUME Init PROVE Ladder!Init
  OBVIOUS
<1>1. PICK k \in 0..LastFile : /\ schema = 1..k
                               /\ versions = IF legacy THEN {} ELSE (1..k) \X {"up"}
                               /\ legacy => k > 0
  BY DEF Init
<1>2. 1..k \subseteq Files
  BY DEF Files
<1>3. Applied = IF legacy THEN {} ELSE 1..k
  BY <1>1, <1>2 DEF Applied
<1>4. legacy \in BOOLEAN
  BY DEF Init
<1> QED BY <1>1, <1>3, <1>4 DEF Ladder!Init

\* What a commit does to the schema: the next rung is climbed, or one that was
\* recorded on trust is caught up with.
LEMMA CommitIsLadderStep ==
  ASSUME IndInv, NEW r \in Runners, NEW acked \in BOOLEAN, Commit(r, acked)
  PROVE  Ladder!Next \/ UNCHANGED <<schema, Applied, legacy>>
<1> DEFINE f == File(r)
<1>1. /\ TypeOK /\ Fits(r) /\ At(r, "commit") /\ RecordedAsRun /\ UNCHANGED legacy
      /\ runner[r] \in Runner /\ Runs(runner[r].cmd, f)
  BY EachFits DEF IndInv, TypeOK, OpenFilesRun, Commit
<1>2. runner[r].cmd # "down"
  BY <1>1 DEF Fits, At
<1>3. f \in Files /\ (f \in Applied \/ Applied = 1..(f - 1))
  BY <1>1, <1>2, NextRung DEF At
<1> HIDE DEF f
<1>4. versions' = versions \cup {<<f, "up">>} /\ schema' = schema \cup {f}
  BY <1>2 DEF Commit, Versions, Schema, Name, f
<1>5. Applied' = Applied \cup {f}
  BY <1>3, <1>4 DEF Applied
<1>6. f \in schema => f \in Reentrant
  BY <1>1, <1>2 DEF Runs
<1>7. f \in 1..LastFile
  BY <1>3 DEF Files
<1>8. CASE f \in Applied
  <2>1. Applied' = Applied
    BY <1>5, <1>8
  <2>2. CASE f \in schema
    BY <1>1, <1>4, <2>1, <2>2
  <2>3. CASE f \notin schema
    <3>1. legacy
      BY <1>1, <1>8, <2>3 DEF RecordedAsRun
    <3>2. Ladder!CatchUp(f)
      BY <1>4, <1>8, <2>1, <2>3, <3>1 DEF Ladder!CatchUp
    <3> QED BY <1>1, <1>7, <3>2 DEF Ladder!Next
  <2> QED BY <2>2, <2>3
<1>9. CASE f \notin Applied
  <2>1. (1..(f - 1)) \cup {f} = 1..f
    BY <1>7
  <2>2. Ladder!Climb(f)
    BY <1>3, <1>4, <1>5, <1>6, <1>9, <2>1 DEF Ladder!Climb, Ladder!Record
  <2> QED BY <1>1, <1>7, <2>2 DEF Ladder!Next
<1> QED BY <1>8, <1>9

LEMMA AdoptIsLadderStep ==
  ASSUME IndInv, NEW s \in Runners, Adopt(s)
  PROVE  Ladder!Next \/ UNCHANGED <<schema, Applied, legacy>>
<1> DEFINE f == File(s)
<1>1. /\ TypeOK /\ Fits(s) /\ At(s, "adopt") /\ runner[s] \in Runner
      /\ UNCHANGED <<schema, legacy>>
  BY EachFits DEF IndInv, TypeOK, Adopt
<1>2. runner[s].cmd = "serve" /\ runner[s].todo # {}
  BY <1>1 DEF Fits, At
<1>3. CASE Clashes(s)
  BY <1>1, <1>3 DEF Adopt, Applied
<1>4. CASE ~Clashes(s)
  <2>1. f \in Files /\ (f \in Applied \/ Applied = 1..(f - 1))
    BY <1>1, <1>2, NextRung DEF At
  <2>2. f \notin Applied
    BY <1>4 DEF Clashes, Name, Applied
  <2>3. Applied' = Applied \cup {f}
    BY <1>4, <2>1 DEF Adopt, Name, Applied
  <2>4. legacy
    BY <1>4, AdoptedIsOld
  <2> HIDE DEF f
  <2>5. f \in 1..LastFile /\ (1..(f - 1)) \cup {f} = 1..f
    BY <2>1 DEF Files
  <2>6. Ladder!Adopt(f)
    BY <1>1, <2>1, <2>2, <2>3, <2>4, <2>5 DEF Ladder!Adopt, Ladder!Record
  <2> QED BY <1>1, <2>5, <2>6 DEF Ladder!Next
<1> QED BY <1>3, <1>4

LEMMA StepIsLadderStep ==
  IndInv /\ [Next]_vars => [Ladder!Next]_<<schema, Applied, legacy>>
<1> SUFFICES ASSUME IndInv, [Next]_vars
             PROVE  Ladder!Next \/ UNCHANGED <<schema, Applied, legacy>>
  OBVIOUS
<1>1. ASSUME UNCHANGED <<schema, versions, legacy>>
      PROVE  UNCHANGED <<schema, Applied, legacy>>
  BY <1>1 DEF Applied
<1>2. CASE UNCHANGED vars
  BY <1>1, <1>2 DEF vars
<1>3. ASSUME NEW t \in Tools, NEW cmd \in {"up", "down"}, StartTool(t, cmd)
      PROVE  UNCHANGED <<schema, Applied, legacy>>
  BY <1>1, <1>3 DEF StartTool
<1>4. ASSUME NEW r \in Runners, Step(r)
      PROVE  Ladder!Next \/ UNCHANGED <<schema, Applied, legacy>>
  <2>1. CASE \E acked \in BOOLEAN : Commit(r, acked)
    BY <2>1, CommitIsLadderStep
  <2>2. CASE Adopt(r)
    BY <2>2, AdoptIsLadderStep
  <2>3. CASE CheckApplied(r) \/ Execute(r) \/ StartServer(r) \/ ReadVersions(r)
             \/ LookForTable(r) \/ Retry(r)
    BY <1>1, <2>3 DEF CheckApplied, Execute, StartServer, ReadVersions, LookForTable, Retry
  <2> QED BY <1>4, <2>1, <2>2, <2>3 DEF Step
<1>5. ASSUME NEW r \in Runners, Fail(r) \/ CrashTool(r) \/ CrashServer(r)
      PROVE  UNCHANGED <<schema, Applied, legacy>>
  BY <1>1, <1>5 DEF Fail, CrashTool, CrashServer
<1>6. CASE DbDown \/ DbUp
  BY <1>1, <1>6 DEF DbDown, DbUp
<1> QED BY <1>2, <1>3, <1>4, <1>5, <1>6 DEF Next

\* Every step of tools, servers and crashes is, seen from the schema and its
\* records, a step of the ladder or none.
THEOREM Implementation == Spec => ClimbsTheLadder
<1>1. Init => Ladder!Init
  BY InitIsLadderInit
<1>2. IndInv /\ [Next]_vars => [Ladder!Next]_<<schema, Applied, legacy>>
  BY StepIsLadderStep
<1> QED BY <1>1, <1>2, Invariance, PTL DEF Spec, ClimbsTheLadder, Ladder!Spec
================================================================================
