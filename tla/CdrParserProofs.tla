--------------------------- MODULE CdrParserProofs ---------------------------
(***************************************************************************)
(* CdrParser's safety properties for any number of scripts, files and      *)
(* faults: types, atomicity, only whole files, mutual exclusion, what exit *)
(* status 0 says, how often a file is stored, the refinement of LoadOnce,  *)
(* and what a lone script may lose.                                        *)
(***************************************************************************)
EXTENDS CdrParser, FiniteSetTheorems, TLAPS

-------------------------------------------------------------------------------
(* Types *)

\* Storing a contribution keeps db a table of numbers and only lets them grow.
LEMMA ApplyGrows ==
  ASSUME NEW f \in Files, NEW ts \in SUBSET Tables,
         db \in [Files -> [Tables -> Nat]], Apply(f, ts)
  PROVE  /\ db' \in [Files -> [Tables -> Nat]]
         /\ \A g \in Files, t \in Tables :
              db'[g][t] = IF g = f /\ t \in ts THEN db[g][t] + 1 ELSE db[g][t]
BY DEF Apply

\* One step of a worker's script preserves the types.
LEMMA ScriptTypes ==
  ASSUME TypeOK, NEW w \in Workers, ScriptStep(w)
  PROVE  TypeOK'
<1> USE ParserAssumption DEF TypeOK, Goto, Leave, Idle, EndSession
<1>1. CASE NewPass(w)
  BY <1>1 DEF NewPass, Glob
<1>2. CASE TakeFile(w)
  <2>1. PICK f \in todo[w] :
          /\ todo' = [todo EXCEPT ![w] = @ \ {f}]
          /\ IF f \in Glob
               THEN Goto(w, "open") /\ job' = [job EXCEPT ![w] = f]
               ELSE UNCHANGED <<pc, job>>
    BY <1>2 DEF TakeFile
  <2>2. UNCHANGED <<rc, sems, spool, db, wrote, lost, late, faults>>
    BY <1>2 DEF TakeFile
  <2> f \in Files /\ f # NoFile
    OBVIOUS
  <2>3. todo' \in [Workers -> SUBSET Files]
    BY <2>1
  <2>4. CASE f \in Glob
    <3>1. pc' = [pc EXCEPT ![w] = "open"] /\ job' = [job EXCEPT ![w] = f]
      BY <2>1, <2>4
    <3>2. pc' \in [Workers -> Steps] /\ job' \in [Workers -> Files \union {NoFile}]
      BY <3>1 DEF Steps, Running
    <3>3. \A v \in Workers : pc'[v] = "pass" <=> job'[v] = NoFile
      BY <3>1
    <3> QED  BY <2>2, <2>3, <3>2, <3>3
  <2>5. CASE f \notin Glob
    BY <2>1, <2>2, <2>5
  <2> QED  BY <2>4, <2>5
<1>3. CASE Exit(w)
  BY <1>3 DEF Exit, Steps
<1>4. CASE RemoveFile(w)
  BY <1>4 DEF RemoveFile, Steps
<1> QED
  BY <1>1, <1>2, <1>3, <1>4 DEF ScriptStep

\* One step of a worker's parser preserves the types.
LEMMA ParserTypes ==
  ASSUME TypeOK, NEW w \in Workers, ParserStep(w)
  PROVE  TypeOK'
<1> USE ParserAssumption
    DEF TypeOK, Goto, Leave, Steps, Running, Holding, Connected, Checked, InTx
<1>1. CASE AcquireSemaphore(w)
  BY <1>1 DEF AcquireSemaphore
<1>2. CASE SemaphoreBusy(w)
  BY <1>2 DEF SemaphoreBusy, Strike, FaultKinds
<1>3. CASE FreeSemaphore(w)
  BY <1>3 DEF FreeSemaphore
<1>4. CASE Setup(w)
  BY <1>4 DEF Setup
<1>5. CASE CheckProcessed(w)
  BY <1>5 DEF CheckProcessed
<1>6. CASE LoadFile(w)
  BY <1>6 DEF LoadFile
<1>7. CASE ResolveNames(w) \/ FillOperStats(w) \/ StartTransaction(w)
  BY <1>7 DEF ResolveNames, FillOperStats, StartTransaction, Query
<1>8. CASE InsertTransactionFile(w)
  BY <1>8 DEF InsertTransactionFile, Insert, Tables
<1>9. CASE InsertTransactionCDRs(w)
  BY <1>9 DEF InsertTransactionCDRs, Insert, Tables
<1>10. CASE InsertTransactionOperStats(w)
  BY <1>10 DEF InsertTransactionOperStats, Insert, Tables
<1>11. CASE CommitTransaction(w)
  <2> job[w] \in Files /\ Apply(job[w], wrote[w])
    BY <1>11 DEF CommitTransaction
  <2>1. db' \in [Files -> [Tables -> Nat]]
    BY ApplyGrows
  <2>2. CASE Leave(w, "ok", "free") /\ UNCHANGED faults
    BY <1>11, <2>1, <2>2 DEF CommitTransaction
  <2>3. CASE Leave(w, "error", "rollback") /\ Strike("error")
    BY <1>11, <2>1, <2>3 DEF CommitTransaction, Strike, FaultKinds
  <2> QED  BY <1>11, <2>2, <2>3 DEF CommitTransaction
<1>12. CASE CommitTimesOut(w)
  BY <1>12 DEF CommitTimesOut, Strike, FaultKinds, Late
<1>13. CASE RollbackTransaction(w)
  BY <1>13 DEF RollbackTransaction, Strike, FaultKinds
<1>14. CASE Fail(w)
  BY <1>14 DEF Fail, Strike, FaultKinds
<1> QED
  BY <1>1, <1>2, <1>3, <1>4, <1>5, <1>6, <1>7, <1>8, <1>11, <1>12, <1>13, <1>14,
     <1>9, <1>10
     DEF ParserStep

\* Nothing that happens to a worker from outside disturbs the types.
LEMMA FaultTypes ==
  ASSUME TypeOK, NEW w \in Workers, Fault(w)
  PROVE  TypeOK'
<1> USE ParserAssumption
    DEF TypeOK, Goto, Leave, Idle, EndSession, Strike, FaultKinds,
        Steps, Running, Holding, Connected
<1>1. CASE Disconnect(w)
  BY <1>1 DEF Disconnect
<1>2. CASE Kill(w)
  BY <1>2 DEF Kill
<1>3. CASE SignalHandler(w)
  BY <1>3 DEF SignalHandler
<1> QED
  BY <1>1, <1>2, <1>3 DEF Fault

\* Every variable keeps its type in every behaviour, and a worker has a file
\* in hand exactly while it is not between two files.
THEOREM TypeCorrect == Spec => []TypeOK
<1>1. Init => TypeOK
  BY ParserAssumption DEF Init, TypeOK, Steps, Tables
<1>2. TypeOK /\ [Next]_vars => TypeOK'
  <2> SUFFICES ASSUME TypeOK, [Next]_vars PROVE TypeOK'
    OBVIOUS
  <2>1. ASSUME NEW w \in Workers, Step(w) \/ Fault(w) PROVE TypeOK'
    BY <2>1, ScriptTypes, ParserTypes, FaultTypes DEF Step
  <2>2. CASE Reboot
    BY <2>2, ParserAssumption DEF Reboot, TypeOK, Strike, FaultKinds, Steps
  <2>3. CASE LateCommit
    <3>1. PICK l \in late : late' = late \ {l} /\ Apply(l.file, l.wrote)
      BY <2>3 DEF LateCommit
    <3>2. l.file \in Files /\ l.wrote \in SUBSET Tables
      BY DEF TypeOK, Late
    <3>3. db' \in [Files -> [Tables -> Nat]]
      BY <3>1, <3>2, ApplyGrows DEF TypeOK
    <3> QED  BY <2>3, <3>1, <3>3 DEF LateCommit, TypeOK
  <2>4. CASE LateAbort
    BY <2>4 DEF LateAbort, TypeOK
  <2>5. ASSUME NEW f \in Files, Arrive(f) \/ Complete(f) PROVE TypeOK'
    BY <2>5 DEF Arrive, Complete, TypeOK
  <2>6. CASE UNCHANGED vars
    BY <2>6 DEF vars, TypeOK
  <2> QED  BY <2>1, <2>2, <2>3, <2>4, <2>5, <2>6 DEF Next
<1> QED  BY <1>1, <1>2, PTL DEF Spec

-------------------------------------------------------------------------------
(* Atomicity *)

\* A transaction whose connection was never lost has written what the steps
\* before wrote; nothing is written outside; a late commit is a whole one.
TxInv ==
  /\ \A w \in Workers :
       /\ pc[w] = "cdrs" /\ ~lost[w] => wrote[w] = {"processed_files"}
       /\ pc[w] = "opers" /\ ~lost[w] => wrote[w] = {"processed_files", "CDRs"}
       /\ pc[w] = "commit" /\ ~lost[w] => wrote[w] = Tables
       /\ pc[w] \notin {"cdrs", "opers", "commit", "rollback", "free", "exit"}
            => wrote[w] = {}
  /\ \A l \in late : l.wrote = Tables

LEMMA ScriptTx ==
  ASSUME TypeOK, TxInv, NEW w \in Workers, ScriptStep(w)
  PROVE  TxInv'
<1> USE DEF TypeOK, TxInv, Goto, Leave, Idle, EndSession, InTx
<1>1. CASE NewPass(w)
  BY <1>1 DEF NewPass
<1>2. CASE TakeFile(w)
  <2>1. /\ pc[w] = "pass"
        /\ UNCHANGED <<wrote, lost, late>>
        /\ pc' = [pc EXCEPT ![w] = "open"] \/ pc' = pc
    BY <1>2 DEF TakeFile
  <2> QED  BY <2>1
<1>3. CASE Exit(w)
  BY <1>3 DEF Exit
<1>4. CASE RemoveFile(w)
  BY <1>4 DEF RemoveFile
<1> QED
  BY <1>1, <1>2, <1>3, <1>4 DEF ScriptStep

LEMMA ParserTx ==
  ASSUME TypeOK, TxInv, NEW w \in Workers, ParserStep(w)
  PROVE  TxInv'
<1> USE DEF TypeOK, TxInv, Goto, Leave, InTx
<1>1. CASE AcquireSemaphore(w)
  BY <1>1 DEF AcquireSemaphore
<1>2. CASE SemaphoreBusy(w)
  BY <1>2 DEF SemaphoreBusy
<1>3. CASE FreeSemaphore(w)
  BY <1>3 DEF FreeSemaphore
<1>4. CASE Setup(w)
  BY <1>4 DEF Setup
<1>5. CASE CheckProcessed(w)
  BY <1>5 DEF CheckProcessed
<1>6. CASE LoadFile(w)
  BY <1>6 DEF LoadFile
<1>7. CASE ResolveNames(w) \/ FillOperStats(w)
  BY <1>7 DEF ResolveNames, FillOperStats, Query
<1>8. CASE StartTransaction(w)
  BY <1>8 DEF StartTransaction, Query
<1>9. CASE InsertTransactionFile(w)
  BY <1>9 DEF InsertTransactionFile, Insert, Broken
<1>10. CASE InsertTransactionCDRs(w)
  BY <1>10 DEF InsertTransactionCDRs, Insert, Broken
<1>11. CASE InsertTransactionOperStats(w)
  BY <1>11 DEF InsertTransactionOperStats, Insert, Broken, Tables
<1>12. CASE CommitTransaction(w)
  BY <1>12 DEF CommitTransaction
<1>13. CASE CommitTimesOut(w)
  BY <1>13 DEF CommitTimesOut, Broken
<1>14. CASE RollbackTransaction(w)
  BY <1>14 DEF RollbackTransaction
<1>15. CASE Fail(w)
  BY <1>15 DEF Fail, Holding, Connected, Checked
<1> QED
  BY <1>1, <1>2, <1>3, <1>4, <1>5, <1>6, <1>7, <1>8, <1>9, <1>10, <1>11, <1>12,
     <1>13, <1>14, <1>15 DEF ParserStep

LEMMA FaultTx ==
  ASSUME TypeOK, TxInv, NEW w \in Workers, Fault(w)
  PROVE  TxInv'
<1> USE DEF TypeOK, TxInv, Goto, Leave, Idle, EndSession, InTx
<1>1. CASE Disconnect(w)
  BY <1>1 DEF Disconnect
<1>2. CASE Kill(w)
  BY <1>2 DEF Kill
<1>3. CASE SignalHandler(w)
  BY <1>3 DEF SignalHandler
<1> QED
  BY <1>1, <1>2, <1>3 DEF Fault

LEMMA TxInvariant == Spec => []TxInv
<1>1. Init => TxInv
  BY DEF Init, TxInv, InTx
<1>2. TypeOK /\ TxInv /\ [Next]_vars => TxInv'
  <2> SUFFICES ASSUME TypeOK, TxInv, [Next]_vars PROVE TxInv'
    OBVIOUS
  <2>1. ASSUME NEW w \in Workers, Step(w) \/ Fault(w) PROVE TxInv'
    BY <2>1, ScriptTx, ParserTx, FaultTx DEF Step
  <2>2. CASE Reboot
    BY <2>2 DEF Reboot, TypeOK, TxInv, InTx
  <2>3. CASE LateCommit \/ LateAbort
    BY <2>3 DEF LateCommit, LateAbort, TxInv
  <2>4. ASSUME NEW f \in Files, Arrive(f) \/ Complete(f) PROVE TxInv'
    BY <2>4 DEF Arrive, Complete, TxInv
  <2>5. CASE UNCHANGED vars
    BY <2>5 DEF vars, TxInv
  <2> QED  BY <2>1, <2>2, <2>3, <2>4, <2>5 DEF Next
<1> QED  BY <1>1, <1>2, TypeCorrect, PTL DEF Spec

\* What a step does to the database: nothing, or it adds one whole
\* contribution, which a parser that holds the file's semaphore commits or
\* which was late.
LEMMA DbStep ==
  ASSUME TypeOK, TxInv, [Next]_vars
  PROVE  \/ db' = db
         \/ \E w \in Workers :
              CommitTransaction(w) /\ job[w] \in Files /\ Apply(job[w], Tables)
         \/ \E l \in late :
              /\ LateCommit /\ late' = late \ {l}
              /\ l.file \in Files /\ Apply(l.file, Tables)
<1>1. ASSUME NEW w \in Workers, ScriptStep(w) \/ Fault(w) PROVE db' = db
  BY <1>1 DEF ScriptStep, NewPass, TakeFile, Exit, RemoveFile,
              Fault, Disconnect, Kill, SignalHandler
<1>2. ASSUME NEW w \in Workers, ParserStep(w), ~CommitTransaction(w)
      PROVE  db' = db
  BY <1>2 DEF ParserStep, AcquireSemaphore, SemaphoreBusy, FreeSemaphore, Setup,
     CheckProcessed, LoadFile, ResolveNames, FillOperStats, StartTransaction,
     Query, InsertTransactionFile, InsertTransactionCDRs,
     InsertTransactionOperStats, Insert, CommitTimesOut, RollbackTransaction, Fail
<1>3. ASSUME NEW w \in Workers, CommitTransaction(w)
      PROVE  job[w] \in Files /\ Apply(job[w], Tables)
  <2>1. wrote[w] = Tables
    BY <1>3 DEF CommitTransaction, Broken, TxInv, InTx
  <2> QED  BY <1>3, <2>1 DEF CommitTransaction, TypeOK
<1>4. ASSUME LateCommit
      PROVE  \E l \in late :
               late' = late \ {l} /\ l.file \in Files /\ Apply(l.file, Tables)
  BY <1>4 DEF LateCommit, TxInv, TypeOK, Late
<1>5. CASE Reboot \/ LateAbort \/ UNCHANGED vars
  BY <1>5 DEF Reboot, LateAbort, vars
<1>6. ASSUME NEW f \in Files, Arrive(f) \/ Complete(f) PROVE db' = db
  BY <1>6 DEF Arrive, Complete
<1> QED  BY <1>1, <1>2, <1>3, <1>4, <1>5, <1>6 DEF Next, Step

\* Whatever fails at whatever point, a file is in all three tables or in none.
THEOREM LoadIsAtomic == Spec => []AtomicLoad
<1>1. Init => AtomicLoad
  BY DEF Init, AtomicLoad
<1>2. TypeOK /\ TxInv /\ AtomicLoad /\ [Next]_vars => AtomicLoad'
  <2> SUFFICES ASSUME TypeOK, TxInv, AtomicLoad, [Next]_vars PROVE AtomicLoad'
    OBVIOUS
  <2>1. ASSUME NEW f \in Files, Apply(f, Tables) PROVE AtomicLoad'
    <3>1. \A g \in Files, t \in Tables :
            db'[g][t] = IF g = f THEN db[g][t] + 1 ELSE db[g][t]
      BY <2>1, ApplyGrows DEF TypeOK
    <3> QED  BY <3>1 DEF AtomicLoad
  <2>2. CASE db' = db
    BY <2>2 DEF AtomicLoad
  <2> QED  BY <2>1, <2>2, DbStep
<1> QED  BY <1>1, <1>2, TypeCorrect, TxInvariant, PTL DEF Spec

-------------------------------------------------------------------------------
(* Only whole files *)

Read == {"names", "stats", "begin"} \union InTx
Converted == {"stats", "begin"} \union InTx

Whole(f) == spool[f] \in {"complete", "removed"}

\* Behind LoadFile a file is whole, behind the loop over its records it has no bad
\* field, in the transaction and behind it is has a record.
FitInv ==
  /\ \A w \in Workers : pc[w] \in Read => Whole(job[w])
  /\ \A w \in Workers : pc[w] \in Converted => Content[job[w]] # "bad"
  /\ \A w \in Workers : pc[w] \in Converted \ {"stats"} => Content[job[w]] = "good"
  /\ \A l \in late : Content[l.file] = "good" /\ Whole(l.file)
  /\ OnlyWholeFiles

\* Where a parser that is behind LoadFile comes from.
ReadFrom(w) ==
  \/ pc[w] \in Read /\ job'[w] = job[w] /\ (pc'[w] \in Converted => pc[w] \in Converted)
     /\ (pc'[w] \in Converted \ {"stats"} => pc[w] \in Converted \ {"stats"})
  \/ pc[w] = "load" /\ pc'[w] = "names" /\ job'[w] = job[w] /\ ~Broken(w)
  \/ pc[w] = "names" /\ pc'[w] = "stats" /\ job'[w] = job[w] /\ ~Broken(w)
  \/ pc[w] = "stats" /\ pc'[w] = "begin" /\ job'[w] = job[w] /\ ~Broken(w)

LEMMA ReadStep ==
  ASSUME TypeOK, NEW w \in Workers, Step(w) \/ Fault(w), pc'[w] \in Read
  PROVE  ReadFrom(w)
<1> USE DEF TypeOK, Goto, Leave, Idle, ReadFrom, Read, Converted, InTx
<1>1. CASE ScriptStep(w)
  BY <1>1 DEF ScriptStep, NewPass, TakeFile, Exit, RemoveFile
<1>2. CASE AcquireSemaphore(w) \/ SemaphoreBusy(w) \/ FreeSemaphore(w)
  BY <1>2 DEF AcquireSemaphore, SemaphoreBusy, FreeSemaphore
<1>3. CASE Setup(w) \/ CheckProcessed(w) \/ LoadFile(w)
  BY <1>3 DEF Setup, CheckProcessed, LoadFile
<1>4. CASE ResolveNames(w) \/ FillOperStats(w) \/ StartTransaction(w)
  BY <1>4 DEF ResolveNames, FillOperStats, StartTransaction, Query
<1>5. CASE \/ InsertTransactionFile(w) \/ InsertTransactionCDRs(w)
           \/ InsertTransactionOperStats(w)
  BY <1>5 DEF InsertTransactionFile, InsertTransactionCDRs,
     InsertTransactionOperStats, Insert
<1>6. CASE CommitTransaction(w) \/ CommitTimesOut(w) \/ RollbackTransaction(w)
  BY <1>6 DEF CommitTransaction, CommitTimesOut, RollbackTransaction
<1>7. CASE Fail(w)
  BY <1>7 DEF Fail
<1>8. CASE Fault(w)
  BY <1>8 DEF Fault, Disconnect, Kill, SignalHandler
<1> QED
  BY <1>1, <1>2, <1>3, <1>4, <1>5, <1>6, <1>7, <1>8 DEF Step, ParserStep

\* A step leaves the other workers alone.
LEMMA OthersStay ==
  ASSUME TypeOK, NEW w \in Workers, Step(w) \/ Fault(w), NEW v \in Workers, v # w
  PROVE  pc'[v] = pc[v] /\ job'[v] = job[v] /\ todo'[v] = todo[v]
<1> USE DEF TypeOK, Goto, Leave, Idle
<1>1. CASE ScriptStep(w) \/ Fault(w)
  BY <1>1 DEF ScriptStep, NewPass, TakeFile, Exit, RemoveFile, Fault, Disconnect, Kill,
     SignalHandler
<1>2. CASE ParserStep(w)
  BY <1>2 DEF ParserStep, AcquireSemaphore, SemaphoreBusy, FreeSemaphore, Setup,
     CheckProcessed, LoadFile, ResolveNames, FillOperStats, StartTransaction, Query,
     InsertTransactionFile, InsertTransactionCDRs, InsertTransactionOperStats, Insert,
     CommitTransaction, CommitTimesOut, RollbackTransaction, Fail
<1> QED  BY <1>1, <1>2 DEF Step

\* A whole file stays whole: its name does not come back.
LEMMA WholeStays ==
  ASSUME TypeOK, [Next]_vars, NEW f \in Files, Whole(f)
  PROVE  Whole(f)'
<1> USE DEF TypeOK, Whole
<1>1. ASSUME NEW w \in Workers, Step(w) \/ Fault(w), ~RemoveFile(w) PROVE UNCHANGED spool
  BY <1>1 DEF Step, Fault, ScriptStep, NewPass, TakeFile, Exit, ParserStep,
     AcquireSemaphore, SemaphoreBusy, FreeSemaphore, Setup, CheckProcessed,
     LoadFile, ResolveNames, FillOperStats, StartTransaction, Query,
     InsertTransactionFile, InsertTransactionCDRs, InsertTransactionOperStats,
     Insert, CommitTransaction, CommitTimesOut, RollbackTransaction, Fail,
     Disconnect, Kill, SignalHandler
<1>2. ASSUME NEW w \in Workers, RemoveFile(w) PROVE Whole(f)'
  BY <1>2 DEF RemoveFile
<1>3. CASE Reboot \/ LateCommit \/ LateAbort \/ UNCHANGED vars
  BY <1>3 DEF Reboot, LateCommit, LateAbort, vars
<1>4. ASSUME NEW g \in Files, Arrive(g) \/ Complete(g) PROVE Whole(f)'
  BY <1>4 DEF Arrive, Complete
<1> QED  BY <1>1, <1>2, <1>3, <1>4 DEF Next

\* Which commits come to be late.
LEMMA LateStep ==
  ASSUME [Next]_vars, NEW l \in late', l \notin late
  PROVE  \E w \in Workers : CommitTimesOut(w) /\ l.file = job[w]
<1>1. ASSUME NEW w \in Workers, ScriptStep(w) \/ Fault(w) PROVE UNCHANGED late
  BY <1>1 DEF ScriptStep, NewPass, TakeFile, Exit, RemoveFile, Fault, Disconnect, Kill,
     SignalHandler
<1>2. ASSUME NEW w \in Workers, ParserStep(w), ~CommitTimesOut(w) PROVE UNCHANGED late
  BY <1>2 DEF ParserStep, AcquireSemaphore, SemaphoreBusy, FreeSemaphore, Setup,
     CheckProcessed, LoadFile, ResolveNames, FillOperStats, StartTransaction, Query,
     InsertTransactionFile, InsertTransactionCDRs, InsertTransactionOperStats, Insert,
     CommitTransaction, RollbackTransaction, Fail
<1>3. ASSUME NEW w \in Workers, CommitTimesOut(w) PROVE l.file = job[w]
  BY <1>3 DEF CommitTimesOut
<1>4. CASE Reboot \/ LateCommit \/ LateAbort \/ UNCHANGED vars
  BY <1>4 DEF Reboot, LateCommit, LateAbort, vars
<1>5. ASSUME NEW g \in Files, Arrive(g) \/ Complete(g) PROVE UNCHANGED late
  BY <1>5 DEF Arrive, Complete
<1> QED  BY <1>1, <1>2, <1>3, <1>4, <1>5 DEF Next, Step

\* Behind LoadFile, a step of a parser's keeps what is known of its file.
LEMMA ReadFit ==
  ASSUME TypeOK, FitInv, [Next]_vars, NEW v \in Workers, pc'[v] \in Read
  PROVE  /\ Whole(job[v])'
         /\ pc'[v] \in Converted => Content[job'[v]] # "bad"
         /\ pc'[v] \in Converted \ {"stats"} => Content[job'[v]] = "good"
<1>1. ReadFrom(v) \/ (pc'[v] = pc[v] /\ job'[v] = job[v])
  <2>1. ASSUME NEW w \in Workers, Step(w) \/ Fault(w)
        PROVE  ReadFrom(v) \/ (pc'[v] = pc[v] /\ job'[v] = job[v])
    <3>1. CASE v = w
      <4>1. ReadFrom(w)
        BY <2>1, <3>1, ReadStep
      <4> QED  BY <3>1, <4>1 DEF ReadFrom, Broken
    <3>2. CASE v # w
      BY <2>1, <3>2, OthersStay
    <3> QED  BY <3>1, <3>2
  <2>2. ~Reboot
    BY DEF Reboot, Read, InTx
  <2>3. CASE LateCommit \/ LateAbort \/ UNCHANGED vars
    BY <2>3 DEF LateCommit, LateAbort, vars
  <2>4. ASSUME NEW g \in Files, Arrive(g) \/ Complete(g)
        PROVE  pc'[v] = pc[v] /\ job'[v] = job[v]
    BY <2>4 DEF Arrive, Complete
  <2> QED  BY <2>1, <2>2, <2>3, <2>4 DEF Next
<1>2. job'[v] = job[v] /\ job[v] \in Files
  BY <1>1 DEF ReadFrom, TypeOK, Read, InTx
<1> DEFINE Fit == /\ Whole(job[v])
                  /\ pc'[v] \in Converted => Content[job[v]] # "bad"
                  /\ pc'[v] \in Converted \ {"stats"} => Content[job[v]] = "good"
<1>3. ASSUME pc[v] \in Read,
             pc'[v] \in Converted => pc[v] \in Converted,
             pc'[v] \in Converted \ {"stats"} => pc[v] \in Converted \ {"stats"}
      PROVE  Fit
  BY <1>3 DEF FitInv
<1>4. ASSUME pc[v] = "load", pc'[v] = "names", ~Broken(v) PROVE Fit
  BY <1>2, <1>4 DEF Broken, Whole, TypeOK, Converted, InTx
<1>5. ASSUME pc[v] = "names", pc'[v] = "stats", ~Broken(v) PROVE Fit
  BY <1>2, <1>5 DEF Broken, FitInv, Converted, Read, InTx
<1>6. ASSUME pc[v] = "stats", pc'[v] = "begin", ~Broken(v) PROVE Fit
  <2>1. Content[job[v]] \notin {"bad", "empty"}
    BY <1>6 DEF Broken, FitInv, Converted
  <2>2. Content[job[v]] \in Contents
    BY <1>2, ParserAssumption
  <2> QED  BY <1>6, <2>1, <2>2 DEF FitInv, Contents, Read
<1>7. Fit
  <2>1. CASE ReadFrom(v)
    BY <1>3, <1>4, <1>5, <1>6, <2>1 DEF ReadFrom
  <2>2. CASE pc'[v] = pc[v]
    BY <1>3, <2>2
  <2> QED  BY <1>1, <2>1, <2>2
<1>8. Whole(job[v])'
  <2>1. Whole(job[v]) => spool'[job[v]] \in {"complete", "removed"}
    BY <1>2, WholeStays DEF Whole
  <2> QED  BY <1>2, <1>7, <2>1 DEF Whole
<1> QED  BY <1>2, <1>7, <1>8

\* What the database holds is of files that were whole, without a bad field and
\* with a record, under every fault and whichever parser or server stored it.
THEOREM WholeFilesStored == Spec => []OnlyWholeFiles
<1>1. Init => FitInv
  BY DEF Init, FitInv, OnlyWholeFiles, Loaded, Read, Converted, InTx, Tables
<1>2. TypeOK /\ TxInv /\ FitInv /\ [Next]_vars => FitInv'
  <2> SUFFICES ASSUME TypeOK, TxInv, FitInv, [Next]_vars PROVE FitInv'
    OBVIOUS
  <2>1. ASSUME NEW l \in late' PROVE Content[l.file] = "good" /\ Whole(l.file)'
    <3>1. Content[l.file] = "good" /\ Whole(l.file) /\ l.file \in Files
      <4>1. CASE l \in late
        BY <4>1 DEF FitInv, TypeOK, Late
      <4>2. ASSUME NEW w \in Workers, CommitTimesOut(w), l.file = job[w]
            PROVE  Content[l.file] = "good" /\ Whole(l.file) /\ l.file \in Files
        BY <4>2 DEF CommitTimesOut, FitInv, Read, Converted, InTx, TypeOK
      <4> QED  BY <4>1, <4>2, LateStep
    <3> QED  BY <3>1, WholeStays
  <2>2. ASSUME NEW f \in Files, Loaded(f)'
        PROVE  Content[f] = "good" /\ Whole(f)'
    <3>1. Content[f] = "good" /\ Whole(f)
      <4>1. CASE Loaded(f)
        BY <4>1 DEF FitInv, OnlyWholeFiles, Whole
      <4>2. ASSUME NEW g \in Files, Apply(g, Tables), ~Loaded(f) PROVE f = g
        <5> DEFINE T == "processed_files"
        <5>1. T \in Tables
          BY DEF Tables
        <5>2. db'[f][T] = IF f = g THEN db[f][T] + 1 ELSE db[f][T]
          BY <4>2, <5>1, ApplyGrows DEF TypeOK
        <5>3. db'[f][T] > 0 /\ ~(db[f][T] > 0)
          BY <2>2, <4>2 DEF Loaded
        <5> QED  BY <5>2, <5>3
      <4>3. ASSUME NEW w \in Workers, CommitTransaction(w), job[w] = f
            PROVE  Content[f] = "good" /\ Whole(f)
        BY <4>3 DEF CommitTransaction, FitInv, Read, Converted, InTx
      <4>4. CASE db' = db
        BY <2>2, <4>1, <4>4 DEF Loaded
      <4> QED  BY <4>1, <4>2, <4>3, <4>4, DbStep DEF FitInv
    <3> QED  BY <3>1, WholeStays
  <2>3. OnlyWholeFiles'
    BY <2>2 DEF OnlyWholeFiles, Whole
  <2> QED  BY <2>1, <2>3, ReadFit DEF FitInv, Converted, Read
<1>3. FitInv => OnlyWholeFiles
  BY DEF FitInv
<1> QED  BY <1>1, <1>2, <1>3, TypeCorrect, TxInvariant, PTL DEF Spec

-------------------------------------------------------------------------------
(* Faults are only ever counted up. *)

LEMMA FaultsStrike ==
  ASSUME [Next]_vars
  PROVE  UNCHANGED faults \/ \E j \in FaultKinds : Strike(j)
<1>1. ASSUME NEW w \in Workers, ScriptStep(w) PROVE UNCHANGED faults
  BY <1>1 DEF ScriptStep, NewPass, TakeFile, Exit, RemoveFile
<1>2. ASSUME NEW w \in Workers, ParserStep(w)
      PROVE  UNCHANGED faults \/ \E j \in FaultKinds : Strike(j)
  BY <1>2 DEF FaultKinds, ParserStep, AcquireSemaphore, SemaphoreBusy,
     FreeSemaphore, Setup, CheckProcessed, LoadFile, ResolveNames,
     FillOperStats, StartTransaction, Query, InsertTransactionFile,
     InsertTransactionCDRs, InsertTransactionOperStats, Insert,
     CommitTransaction, CommitTimesOut, RollbackTransaction, Fail
<1>3. ASSUME NEW w \in Workers, Fault(w) PROVE \E j \in FaultKinds : Strike(j)
  BY <1>3 DEF FaultKinds, Fault, Disconnect, Kill, SignalHandler
<1>4. CASE Reboot
  BY <1>4 DEF Reboot, FaultKinds
<1>5. CASE LateCommit \/ LateAbort \/ UNCHANGED vars
  BY <1>5 DEF LateCommit, LateAbort, vars
<1>6. ASSUME NEW f \in Files, Arrive(f) \/ Complete(f) PROVE UNCHANGED faults
  BY <1>6 DEF Arrive, Complete
<1> QED  BY <1>1, <1>2, <1>3, <1>4, <1>5, <1>6 DEF Next, Step

LEMMA FaultsGrow ==
  ASSUME TypeOK, [Next]_vars, NEW k \in FaultKinds
  PROVE  faults[k] \in Nat /\ faults'[k] \in Nat /\ faults[k] <= faults'[k]
<1>1. CASE UNCHANGED faults
  BY <1>1 DEF TypeOK
<1>2. ASSUME NEW j \in FaultKinds, Strike(j)
      PROVE  faults[k] \in Nat /\ faults'[k] \in Nat /\ faults[k] <= faults'[k]
  BY <1>2 DEF Strike, TypeOK
<1> QED  BY <1>1, <1>2, FaultsStrike

-------------------------------------------------------------------------------
(* Mutual exclusion *)

\* What a step of w's means for the semaphores: w gets one, keeps it or gives it
\* back; or, without holding one, it leaves them alone or its handler unlinks a
\* name; or it is killed.
Gets(w) ==
  /\ pc[w] \notin Holding /\ pc'[w] \in Holding /\ job'[w] = job[w]
  /\ job[w] \notin sems /\ sems' = sems \union {job[w]}
Keeps(w) ==
  pc[w] \in Holding /\ pc'[w] \in Holding /\ job'[w] = job[w] /\ sems' = sems
GivesBack(w) ==
  pc[w] \in Holding /\ pc'[w] \notin Holding /\ sems' = sems \ {job[w]}
Abstains(w) ==
  pc[w] \notin Holding /\ pc'[w] \notin Holding /\ sems' = sems
Strays(w) ==
  /\ pc[w] \notin Holding /\ pc'[w] \notin Holding
  /\ sems' = sems \ {job[w]} /\ Strike("stray")
Dies(w) ==
  pc'[w] \notin Holding /\ sems' = sems /\ Strike("kill")

LEMMA SemaphoreStep ==
  ASSUME TypeOK, NEW w \in Workers, Step(w) \/ Fault(w)
  PROVE  Gets(w) \/ Keeps(w) \/ GivesBack(w) \/ Abstains(w) \/ Strays(w) \/ Dies(w)
<1> USE DEF TypeOK, Goto, Leave, Idle, Holding, Connected, Checked, InTx,
            Gets, Keeps, GivesBack, Abstains
<1>1. CASE ScriptStep(w)
  BY <1>1 DEF ScriptStep, NewPass, TakeFile, Exit, RemoveFile
<1>2. CASE AcquireSemaphore(w)
  BY <1>2 DEF AcquireSemaphore
<1>3. CASE SemaphoreBusy(w)
  BY <1>3 DEF SemaphoreBusy
<1>4. CASE FreeSemaphore(w)
  BY <1>4 DEF FreeSemaphore
<1>5. CASE Setup(w) \/ CheckProcessed(w) \/ LoadFile(w)
  BY <1>5 DEF Setup, CheckProcessed, LoadFile
<1>6. CASE ResolveNames(w) \/ FillOperStats(w) \/ StartTransaction(w)
  BY <1>6 DEF ResolveNames, FillOperStats, StartTransaction, Query
<1>7. CASE \/ InsertTransactionFile(w) \/ InsertTransactionCDRs(w)
           \/ InsertTransactionOperStats(w)
  BY <1>7 DEF InsertTransactionFile, InsertTransactionCDRs,
     InsertTransactionOperStats, Insert
<1>8. CASE CommitTransaction(w) \/ CommitTimesOut(w) \/ RollbackTransaction(w)
  BY <1>8 DEF CommitTransaction, CommitTimesOut, RollbackTransaction
<1>9. CASE Fail(w)
  BY <1>9 DEF Fail
<1>10. CASE Disconnect(w)
  BY <1>10 DEF Disconnect
<1>11. CASE Kill(w)
  BY <1>11 DEF Kill, Dies
<1>12. CASE SignalHandler(w)
  BY <1>12 DEF SignalHandler, Strays
<1> QED
  BY <1>1, <1>2, <1>3, <1>4, <1>5, <1>6, <1>7, <1>8, <1>9, <1>10, <1>11, <1>12
     DEF Step, ParserStep, Fault

\* What is left of a finite set is not larger; one element more is one more.
LEMMA CountSubset ==
  ASSUME NEW S, IsFiniteSet(S), NEW T, T \subseteq S
  PROVE  IsFiniteSet(T) /\ Cardinality(T) \in Nat /\ Cardinality(T) <= Cardinality(S)
BY FS_Subset, FS_CardinalityType

LEMMA CountOneMore ==
  ASSUME NEW S, IsFiniteSet(S), NEW x, NEW T, T \subseteq S \union {x}
  PROVE  IsFiniteSet(T) /\ Cardinality(T) \in Nat /\ Cardinality(T) <= Cardinality(S) + 1
<1>1. /\ IsFiniteSet(S \union {x})
      /\ Cardinality(S \union {x}) =
           IF x \in S THEN Cardinality(S) ELSE Cardinality(S) + 1
  BY FS_AddElement
<1>2. Cardinality(S) \in Nat
  BY FS_CardinalityType
<1>3. Cardinality(S \union {x}) \in Nat /\ Cardinality(S \union {x}) <= Cardinality(S) + 1
  BY <1>1, <1>2
<1>4. /\ IsFiniteSet(T) /\ Cardinality(T) \in Nat
      /\ Cardinality(T) <= Cardinality(S \union {x})
  BY <1>1, CountSubset
<1> QED  BY <1>2, <1>3, <1>4

LEMMA CountOneLess ==
  ASSUME NEW S, IsFiniteSet(S), NEW x \in S, NEW T, T \subseteq S \ {x}
  PROVE  IsFiniteSet(T) /\ Cardinality(T) \in Nat /\ Cardinality(T) + 1 <= Cardinality(S)
<1>1. /\ IsFiniteSet(S \ {x})
      /\ Cardinality(S \ {x}) = Cardinality(S) - 1
  BY FS_RemoveElement
<1> QED  BY <1>1, FS_CardinalityType, CountSubset

\* Every parser at work on a file, but one per stray signal, goes with its name.
HoldersInv ==
  \A f \in Files :
    /\ IsFiniteSet(Holders(f))
    /\ Cardinality(Holders(f)) <= (IF f \in sems THEN 1 ELSE 0) + faults["stray"]

LEMMA StepHolders ==
  ASSUME TypeOK, HoldersInv, [Next]_vars, NEW w \in Workers, Step(w) \/ Fault(w),
         NEW f \in Files
  PROVE  /\ IsFiniteSet(Holders(f)')
         /\ Cardinality(Holders(f)')
              <= (IF f \in sems' THEN 1 ELSE 0) + faults'["stray"]
<1>1. /\ IsFiniteSet(Holders(f))
      /\ Cardinality(Holders(f)) \in Nat
      /\ Cardinality(Holders(f)) <= (IF f \in sems THEN 1 ELSE 0) + faults["stray"]
  BY FS_CardinalityType DEF HoldersInv
<1>2. /\ faults["stray"] \in Nat /\ faults'["stray"] \in Nat
      /\ faults["stray"] <= faults'["stray"]
  BY FaultsGrow DEF FaultKinds
<1>3. \A v \in Workers : v # w => pc'[v] = pc[v] /\ job'[v] = job[v]
  BY OthersStay
<1>4. CASE Gets(w)
  <2>1. CASE job[w] = f
    <3>1. Holders(f)' \subseteq Holders(f) \union {w}
      BY <1>3 DEF Holders
    <3>2. f \notin sems /\ f \in sems'
      BY <1>4, <2>1 DEF Gets
    <3> QED  BY <1>1, <1>2, <3>1, <3>2, CountOneMore
  <2>2. CASE job[w] # f
    <3>1. Holders(f)' \subseteq Holders(f) /\ (f \in sems' <=> f \in sems)
      BY <1>3, <1>4, <2>2 DEF Holders, Gets
    <3> QED  BY <1>1, <1>2, <3>1, CountSubset
  <2> QED  BY <2>1, <2>2
<1>5. CASE GivesBack(w)
  <2>1. CASE job[w] = f
    <3>1. w \in Holders(f) /\ Holders(f)' \subseteq Holders(f) \ {w}
      BY <1>3, <1>5, <2>1 DEF Holders, GivesBack
    <3> QED  BY <1>1, <1>2, <3>1, CountOneLess
  <2>2. CASE job[w] # f
    <3>1. Holders(f)' \subseteq Holders(f) /\ (f \in sems' <=> f \in sems)
      BY <1>3, <1>5, <2>2 DEF Holders, GivesBack
    <3> QED  BY <1>1, <1>2, <3>1, CountSubset
  <2> QED  BY <2>1, <2>2
<1>6. CASE Keeps(w) \/ Abstains(w) \/ Dies(w)
  <2>1. Holders(f)' \subseteq Holders(f) /\ sems' = sems
    BY <1>3, <1>6 DEF Holders, Keeps, Abstains, Dies
  <2> QED  BY <1>1, <1>2, <2>1, CountSubset
<1>7. CASE Strays(w)
  <2>1. Holders(f)' \subseteq Holders(f) /\ sems' \subseteq sems
    BY <1>3, <1>7 DEF Holders, Strays
  <2>2. faults'["stray"] = faults["stray"] + 1
    BY <1>7 DEF Strays, Strike, TypeOK, FaultKinds
  <2> QED  BY <1>1, <1>2, <2>1, <2>2, CountSubset
<1> QED  BY <1>4, <1>5, <1>6, <1>7, SemaphoreStep

LEMMA HoldersInvariant == Spec => []HoldersInv
<1>1. Init => HoldersInv
  <2> SUFFICES ASSUME Init, NEW f \in Files
               PROVE  /\ IsFiniteSet(Holders(f))
                      /\ Cardinality(Holders(f)) <= (IF f \in sems THEN 1 ELSE 0) + faults["stray"]
    BY DEF HoldersInv
  <2>1. Holders(f) = {} /\ faults["stray"] = 0 /\ f \notin sems
    BY DEF Init, Holders, Holding, Connected, Checked, InTx, FaultKinds
  <2> QED  BY <2>1, FS_EmptySet
<1>2. TypeOK /\ HoldersInv /\ [Next]_vars => HoldersInv'
  <2> SUFFICES ASSUME TypeOK, HoldersInv, [Next]_vars, NEW f \in Files
               PROVE  /\ IsFiniteSet(Holders(f)')
                      /\ Cardinality(Holders(f)')
                           <= (IF f \in sems' THEN 1 ELSE 0) + faults'["stray"]
    BY DEF HoldersInv
  <2>1. /\ faults["stray"] \in Nat /\ faults'["stray"] \in Nat
        /\ faults["stray"] <= faults'["stray"]
    BY FaultsGrow DEF FaultKinds
  <2>2. CASE Reboot
    <3>1. Holders(f)' = {} /\ f \notin sems'
      BY <2>2 DEF Reboot, Holders, Holding, Connected, Checked, InTx
    <3> QED  BY <2>1, <3>1, FS_EmptySet
  <2>3. CASE UNCHANGED <<pc, job, sems>>
    <3>1. Holders(f)' = Holders(f) /\ sems' = sems
      BY <2>3 DEF Holders
    <3>2. Cardinality(Holders(f)) \in Nat
      BY FS_CardinalityType DEF HoldersInv
    <3> QED  BY <2>1, <3>1, <3>2 DEF HoldersInv
  <2>4. ASSUME NEW w \in Workers, Step(w) \/ Fault(w)
        PROVE  /\ IsFiniteSet(Holders(f)')
               /\ Cardinality(Holders(f)')
                    <= (IF f \in sems' THEN 1 ELSE 0) + faults'["stray"]
    BY <2>4, StepHolders
  <2> QED
    BY <2>2, <2>3, <2>4 DEF Next, LateCommit, LateAbort, Arrive, Complete, vars
<1> QED  BY <1>1, <1>2, TypeCorrect, PTL DEF Spec

\* At most one parser works on a file, and one more per stray signal.
THEOREM MutualExclusion == Spec => []OneHolder
<1>1. TypeOK /\ HoldersInv => OneHolder
  <2> SUFFICES ASSUME TypeOK, HoldersInv, NEW f \in Files
               PROVE  Cardinality(Holders(f)) <= 1 + faults["stray"]
    BY DEF OneHolder
  <2>1. Cardinality(Holders(f)) \in Nat /\ faults["stray"] \in Nat
    BY FS_CardinalityType DEF HoldersInv, TypeOK, FaultKinds
  <2> QED  BY <2>1 DEF HoldersInv
<1> QED  BY <1>1, TypeCorrect, HoldersInvariant, PTL

\* The names that no parser is going to unlink.
Stale == {f \in sems : Holders(f) = {}}

\* Only the death of its parser makes a name stale.
LEMMA StaleStep ==
  ASSUME TypeOK, [Next]_vars
  PROVE  \/ Stale' \subseteq Stale
         \/ \E w \in Workers :
              (Step(w) \/ Fault(w)) /\ Strike("kill") /\ Stale' \subseteq Stale \union {job[w]}
<1>1. ASSUME NEW w \in Workers, Step(w) \/ Fault(w)
      PROVE  \/ Stale' \subseteq Stale
             \/ Strike("kill") /\ Stale' \subseteq Stale \union {job[w]}
  <2>1. \A v \in Workers : v # w => pc'[v] = pc[v] /\ job'[v] = job[v]
    BY <1>1, OthersStay
  <2>2. CASE Gets(w)
    BY <2>1, <2>2 DEF Gets, Stale, Holders
  <2>3. CASE Keeps(w)
    BY <2>1, <2>3 DEF Keeps, Stale, Holders
  <2>4. CASE GivesBack(w)
    BY <2>1, <2>4 DEF GivesBack, Stale, Holders
  <2>5. CASE Abstains(w) \/ Strays(w)
    BY <2>1, <2>5 DEF Abstains, Strays, Stale, Holders
  <2>6. CASE Dies(w)
    BY <2>1, <2>6 DEF Dies, Stale, Holders
  <2> QED  BY <1>1, <2>2, <2>3, <2>4, <2>5, <2>6, SemaphoreStep
<1>2. CASE Reboot
  BY <1>2 DEF Reboot, Stale
<1>3. CASE UNCHANGED <<pc, job, sems>>
  BY <1>3 DEF Stale, Holders
<1> QED
  BY <1>1, <1>2, <1>3 DEF Next, LateCommit, LateAbort, Arrive, Complete, vars

\* At most one stale semaphore for every parser killed, whatever failed and
\* whatever signals came.
THEOREM NoSemaphoreLeft == Spec => []SemaphoresHeld
<1> DEFINE Few == IsFiniteSet(Stale) /\ Cardinality(Stale) <= faults["kill"]
<1>1. Init => Few
  <2> SUFFICES ASSUME Init PROVE Few
    OBVIOUS
  <2>1. Stale = {} /\ faults["kill"] = 0
    BY DEF Init, Stale, FaultKinds
  <2> QED  BY <2>1, FS_EmptySet
<1>2. TypeOK /\ Few /\ [Next]_vars => Few'
  <2> SUFFICES ASSUME TypeOK, Few, [Next]_vars
               PROVE  IsFiniteSet(Stale') /\ Cardinality(Stale') <= faults'["kill"]
    OBVIOUS
  <2>1. /\ faults["kill"] \in Nat /\ faults'["kill"] \in Nat
        /\ faults["kill"] <= faults'["kill"]
    BY FaultsGrow DEF FaultKinds
  <2>2. Cardinality(Stale) \in Nat
    BY FS_CardinalityType
  <2>3. CASE Stale' \subseteq Stale
    BY <2>1, <2>2, <2>3, CountSubset
  <2>4. ASSUME NEW w \in Workers, Strike("kill"), Stale' \subseteq Stale \union {job[w]}
        PROVE  IsFiniteSet(Stale') /\ Cardinality(Stale') <= faults'["kill"]
    <3>1. faults'["kill"] = faults["kill"] + 1
      BY <2>4 DEF Strike, TypeOK, FaultKinds
    <3> QED  BY <2>1, <2>2, <2>4, <3>1, CountOneMore
  <2> QED  BY <2>3, <2>4, StaleStep
<1>3. Few => SemaphoresHeld
  BY DEF SemaphoresHeld, Stale
<1> QED  BY <1>1, <1>2, <1>3, TypeCorrect, PTL DEF Spec

-------------------------------------------------------------------------------
(* Exit status 0 *)

\* A loaded file stays loaded.
LEMMA LoadedStays ==
  ASSUME TypeOK, TxInv, [Next]_vars, NEW f \in Files, Loaded(f)
  PROVE  Loaded(f)'
<1>1. ASSUME NEW g \in Files, Apply(g, Tables) PROVE Loaded(f)'
  <2> "processed_files" \in Tables
    BY DEF Tables
  <2>1. db'[f]["processed_files"] =
          IF f = g THEN db[f]["processed_files"] + 1 ELSE db[f]["processed_files"]
    BY <1>1, ApplyGrows DEF TypeOK
  <2> QED  BY <2>1 DEF Loaded, TypeOK, Tables
<1>2. CASE db' = db
  BY <1>2 DEF Loaded
<1> QED  BY <1>1, <1>2, DbStep

Done == {"free", "exit", "rm"}

\* How a parser gets to be done with outcome "ok".
DoneFrom(w) ==
  /\ job'[w] = job[w]
  /\ \/ pc[w] \in Done \union {"rollback"} /\ rc[w] = "ok"
     \/ CheckProcessed(w) /\ pc'[w] = "free"
     \/ CommitTransaction(w)

\* How a parser gets to be past FileWasProcessed.
CheckedFrom(w) ==
  /\ job'[w] = job[w]
  /\ pc[w] \in Checked \/ (CheckProcessed(w) /\ pc'[w] = "load")

\* Where a step of w leaves w and the other workers.
Control(w) ==
  /\ pc'[w] = "rollback" => rc'[w] = "error" \/ (pc[w] = "rollback" /\ rc'[w] = rc[w])
  /\ pc'[w] \in Done /\ rc'[w] = "ok" => DoneFrom(w)
  /\ pc'[w] \in Checked => CheckedFrom(w)
  /\ \A v \in Workers : v # w =>
       pc'[v] = pc[v] /\ job'[v] = job[v] /\ rc'[v] = rc[v]

LEMMA ScriptControl ==
  ASSUME TypeOK, NEW w \in Workers, ScriptStep(w)
  PROVE  Control(w)
<1> USE DEF TypeOK, Goto, Leave, Idle, Control, DoneFrom, CheckedFrom, Done,
            Checked, InTx
<1>1. CASE NewPass(w)
  BY <1>1 DEF NewPass
<1>2. CASE TakeFile(w)
  <2>1. /\ UNCHANGED rc
        /\ \/ pc' = [pc EXCEPT ![w] = "open"]
           \/ pc' = pc /\ pc[w] = "pass"
        /\ \A v \in Workers : v # w => job'[v] = job[v]
    BY <1>2 DEF TakeFile
  <2> QED  BY <2>1
<1>3. CASE Exit(w)
  <2>1. CASE rc[w] = "error"
    BY <1>3, <2>1 DEF Exit
  <2>2. CASE rc[w] # "error"
    BY <1>3, <2>2 DEF Exit
  <2> QED  BY <2>1, <2>2
<1>4. CASE RemoveFile(w)
  BY <1>4 DEF RemoveFile
<1> QED
  BY <1>1, <1>2, <1>3, <1>4 DEF ScriptStep

LEMMA ParserControl ==
  ASSUME TypeOK, NEW w \in Workers, ParserStep(w)
  PROVE  Control(w)
<1> USE DEF TypeOK, Goto, Leave, Control, DoneFrom, CheckedFrom, Done, Checked, InTx
<1>1. CASE AcquireSemaphore(w)
  BY <1>1 DEF AcquireSemaphore
<1>2. CASE SemaphoreBusy(w)
  BY <1>2 DEF SemaphoreBusy
<1>3. CASE FreeSemaphore(w)
  BY <1>3 DEF FreeSemaphore
<1>4. CASE Setup(w)
  BY <1>4 DEF Setup
<1>5. CASE CheckProcessed(w)
  <2>1. CASE pc' = [pc EXCEPT ![w] = "free"]
    BY <1>5, <2>1 DEF CheckProcessed
  <2>2. CASE pc' = [pc EXCEPT ![w] = "load"]
    BY <1>5, <2>2 DEF CheckProcessed
  <2> QED  BY <1>5, <2>1, <2>2 DEF CheckProcessed
<1>6. CASE LoadFile(w)
  BY <1>6 DEF LoadFile
<1>7. CASE ResolveNames(w) \/ FillOperStats(w) \/ StartTransaction(w)
  BY <1>7 DEF ResolveNames, FillOperStats, StartTransaction, Query
<1>8. CASE InsertTransactionFile(w)
  BY <1>8 DEF InsertTransactionFile, Insert
<1>9. CASE InsertTransactionCDRs(w)
  BY <1>9 DEF InsertTransactionCDRs, Insert
<1>10. CASE InsertTransactionOperStats(w)
  BY <1>10 DEF InsertTransactionOperStats, Insert
<1>11. CASE CommitTransaction(w)
  <2>1. job' = job
    BY <1>11 DEF CommitTransaction
  <2>2. CASE Leave(w, "ok", "free")
    BY <1>11, <2>1, <2>2
  <2>3. CASE Leave(w, "error", "rollback")
    BY <2>1, <2>3
  <2> QED  BY <1>11, <2>2, <2>3 DEF CommitTransaction
<1>12. CASE CommitTimesOut(w)
  BY <1>12 DEF CommitTimesOut
<1>13. CASE RollbackTransaction(w)
  BY <1>13 DEF RollbackTransaction
<1>14. CASE Fail(w)
  BY <1>14 DEF Fail
<1> QED
  BY <1>1, <1>2, <1>3, <1>4, <1>5, <1>6, <1>7, <1>8, <1>9, <1>10, <1>11, <1>12,
     <1>13, <1>14 DEF ParserStep

LEMMA FaultControl ==
  ASSUME TypeOK, NEW w \in Workers, Fault(w)
  PROVE  Control(w)
<1> USE DEF TypeOK, Goto, Leave, Idle, Control, DoneFrom, CheckedFrom, Done,
            Checked, InTx
<1>1. CASE Disconnect(w)
  BY <1>1 DEF Disconnect
<1>2. CASE Kill(w)
  BY <1>2 DEF Kill
<1>3. CASE SignalHandler(w)
  BY <1>3 DEF SignalHandler
<1> QED
  BY <1>1, <1>2, <1>3 DEF Fault

\* Every step, seen by any worker.
LEMMA StepControl ==
  ASSUME TypeOK, [Next]_vars, NEW v \in Workers
  PROVE  /\ pc'[v] = "rollback" =>
              rc'[v] = "error" \/ (pc[v] = "rollback" /\ rc'[v] = rc[v])
         /\ pc'[v] \in Done /\ rc'[v] = "ok" => DoneFrom(v)
         /\ pc'[v] \in Checked => CheckedFrom(v)
<1>1. ASSUME NEW w \in Workers, Control(w)
      PROVE  /\ pc'[v] = "rollback" =>
                  rc'[v] = "error" \/ (pc[v] = "rollback" /\ rc'[v] = rc[v])
             /\ pc'[v] \in Done /\ rc'[v] = "ok" => DoneFrom(v)
             /\ pc'[v] \in Checked => CheckedFrom(v)
  <2>1. CASE v = w
    BY <1>1, <2>1 DEF Control
  <2>2. CASE v # w
    BY <1>1, <2>2 DEF Control, DoneFrom, CheckedFrom
  <2> QED  BY <2>1, <2>2
<1>2. ASSUME NEW w \in Workers, Step(w) \/ Fault(w) PROVE Control(w)
  BY <1>2, ScriptControl, ParserControl, FaultControl DEF Step
<1>3. CASE Reboot
  BY <1>3 DEF Reboot, Done, Checked, InTx
<1>4. CASE LateCommit \/ LateAbort \/ UNCHANGED vars
  BY <1>4 DEF LateCommit, LateAbort, vars, DoneFrom, CheckedFrom
<1>5. ASSUME NEW f \in Files, Arrive(f) \/ Complete(f)
      PROVE  UNCHANGED <<pc, job, rc>>
  BY <1>5 DEF Arrive, Complete
<1> QED  BY <1>1, <1>2, <1>3, <1>4, <1>5 DEF Next, DoneFrom, CheckedFrom

ZeroInv ==
  /\ \A w \in Workers : pc[w] = "rollback" => rc[w] = "error"
  /\ ZeroMeansLoaded

\* If LIKE matches no name but the one asked for, status 0 from a parser that
\* held the semaphore means that the database holds the file.
THEOREM ZeroStatus ==
  ASSUME \A f \in Files : LikeMatches[f] = {f}
  PROVE  Spec => []ZeroMeansLoaded
<1>1. Init => ZeroInv
  BY DEF Init, ZeroInv, ZeroMeansLoaded
<1>2. TypeOK /\ TypeOK' /\ TxInv /\ ZeroInv /\ [Next]_vars => ZeroInv'
  <2> SUFFICES ASSUME TypeOK, TypeOK', TxInv, ZeroInv, [Next]_vars PROVE ZeroInv'
    OBVIOUS
  <2>1. ASSUME NEW w \in Workers, pc'[w] = "rollback" PROVE rc'[w] = "error"
    BY <2>1, StepControl DEF ZeroInv
  <2>2. ASSUME NEW w \in Workers, pc'[w] \in Done, rc'[w] = "ok"
        PROVE  Loaded(job[w])' /\ job'[w] = job[w]
    <3>1. DoneFrom(w)
      BY <2>2, StepControl
    <3>2. job'[w] = job[w] /\ job[w] \in Files
      BY <2>2, <3>1 DEF DoneFrom, TypeOK, Done
    <3>3. CASE pc[w] \in Done \union {"rollback"} /\ rc[w] = "ok"
      <4>1. Loaded(job[w])
        BY <3>3 DEF ZeroInv, ZeroMeansLoaded, Done
      <4> QED  BY <4>1, <3>2, LoadedStays
    <3>4. CASE CheckProcessed(w) /\ pc'[w] = "free"
      <4>1. Loaded(job[w])
        BY <3>2, <3>4 DEF CheckProcessed, Goto, TypeOK, Loaded
      <4> QED  BY <4>1, <3>2, LoadedStays
    <3>5. CASE CommitTransaction(w)
      <4>1. wrote[w] = Tables /\ Apply(job[w], wrote[w])
        BY <3>5 DEF CommitTransaction, Broken, InTx, TxInv, TypeOK
      <4>2. db'[job[w]]["processed_files"] = db[job[w]]["processed_files"] + 1
        BY <4>1, <3>2, ApplyGrows DEF TypeOK, Tables
      <4> QED  BY <4>2, <3>2 DEF Loaded, TypeOK, Tables
    <3> QED  BY <3>1, <3>3, <3>4, <3>5 DEF DoneFrom
  <2> QED  BY <2>1, <2>2 DEF ZeroInv, ZeroMeansLoaded, Done
<1>3. ZeroInv => ZeroMeansLoaded
  BY DEF ZeroInv
<1> QED  BY <1>1, <1>2, <1>3, TypeCorrect, TxInvariant, PTL DEF Spec

\* Which steps touch the spool.
LEMMA SpoolStep ==
  ASSUME TypeOK, [Next]_vars, NEW f \in Files, spool'[f] = "removed"
  PROVE  \/ spool[f] = "removed"
         \/ \E w \in Workers : RemoveFile(w) /\ job[w] = f
<1>1. ASSUME NEW w \in Workers, Step(w) \/ Fault(w), ~RemoveFile(w)
      PROVE  UNCHANGED spool
  BY <1>1 DEF Step, Fault, ScriptStep, NewPass, TakeFile, Exit, ParserStep,
     AcquireSemaphore, SemaphoreBusy, FreeSemaphore, Setup, CheckProcessed,
     LoadFile, ResolveNames, FillOperStats, StartTransaction, Query,
     InsertTransactionFile, InsertTransactionCDRs, InsertTransactionOperStats,
     Insert, CommitTransaction, CommitTimesOut, RollbackTransaction, Fail,
     Disconnect, Kill, SignalHandler
<1>2. ASSUME NEW w \in Workers, RemoveFile(w)
      PROVE  spool[f] = "removed" \/ job[w] = f
  BY <1>2 DEF RemoveFile, TypeOK
<1>3. CASE Reboot \/ LateCommit \/ LateAbort \/ UNCHANGED vars
  BY <1>3 DEF Reboot, LateCommit, LateAbort, vars
<1>4. ASSUME NEW g \in Files, Arrive(g) \/ Complete(g)
      PROVE  spool[f] = "removed"
  BY <1>4 DEF Arrive, Complete, TypeOK
<1> QED  BY <1>1, <1>2, <1>3, <1>4 DEF Next

LEMMA OutcomesStay ==
  ASSUME TypeOK, NEW w \in Workers, Step(w) \/ Fault(w), NEW v \in Workers, v # w
  PROVE  rc'[v] = rc[v]
<1> USE DEF TypeOK, Goto, Leave, Idle
<1>1. CASE ScriptStep(w) \/ Fault(w)
  BY <1>1 DEF ScriptStep, NewPass, TakeFile, Exit, RemoveFile, Fault, Disconnect, Kill,
     SignalHandler
<1>2. CASE ParserStep(w)
  BY <1>2 DEF ParserStep, AcquireSemaphore, SemaphoreBusy, FreeSemaphore, Setup,
     CheckProcessed, LoadFile, ResolveNames, FillOperStats, StartTransaction, Query,
     InsertTransactionFile, InsertTransactionCDRs, InsertTransactionOperStats, Insert,
     CommitTransaction, CommitTimesOut, RollbackTransaction, Fail
<1> QED  BY <1>1, <1>2 DEF Step

\* The script removes a file after another status than 1 only, and "busy" is what
\* a parser said that has just ended.
Outcomes ==
  \A w \in Workers :
    /\ pc[w] = "rm" => rc[w] # "error"
    /\ rc[w] = "busy" => pc[w] \in {"exit", "rm"}

LEMMA OutcomeStep ==
  ASSUME TypeOK, Outcomes, NEW w \in Workers, Step(w) \/ Fault(w)
  PROVE  /\ pc'[w] = "rm" => rc'[w] # "error"
         /\ rc'[w] = "busy" =>
              /\ pc'[w] \in {"exit", "rm"} /\ job'[w] = job[w]
              /\ rc[w] = "busy" \/ SemaphoreBusy(w)
<1> USE DEF TypeOK, Outcomes, Goto, Leave, Idle
<1>1. CASE NewPass(w) \/ Exit(w) \/ RemoveFile(w)
  BY <1>1 DEF NewPass, Exit, RemoveFile
<1>2. CASE TakeFile(w)
  <2>1. pc[w] = "pass" /\ UNCHANGED rc /\ (pc' = [pc EXCEPT ![w] = "open"] \/ pc' = pc)
    BY <1>2 DEF TakeFile
  <2> QED  BY <2>1
<1>3. CASE Fault(w)
  BY <1>3 DEF Fault, Disconnect, Kill, SignalHandler, Connected, Checked, InTx
<1>4. CASE SemaphoreBusy(w)
  BY <1>4 DEF SemaphoreBusy
<1>5. CASE AcquireSemaphore(w) \/ FreeSemaphore(w) \/ Setup(w) \/ CheckProcessed(w) \/ LoadFile(w)
  BY <1>5 DEF AcquireSemaphore, FreeSemaphore, Setup, CheckProcessed, LoadFile
<1>6. CASE ResolveNames(w) \/ FillOperStats(w) \/ StartTransaction(w)
  BY <1>6 DEF ResolveNames, FillOperStats, StartTransaction, Query
<1>7. CASE \/ InsertTransactionFile(w) \/ InsertTransactionCDRs(w)
           \/ InsertTransactionOperStats(w)
  BY <1>7 DEF InsertTransactionFile, InsertTransactionCDRs,
     InsertTransactionOperStats, Insert
<1>8. CASE CommitTransaction(w) \/ CommitTimesOut(w) \/ RollbackTransaction(w) \/ Fail(w)
  BY <1>8 DEF CommitTransaction, CommitTimesOut, RollbackTransaction, Fail, Holding,
     Connected, Checked, InTx
<1> QED
  BY <1>1, <1>2, <1>3, <1>4, <1>5, <1>6, <1>7, <1>8 DEF Step, ScriptStep, ParserStep

LEMMA OutcomesInvariant == Spec => []Outcomes
<1>1. Init => Outcomes
  BY DEF Init, Outcomes
<1>2. TypeOK /\ Outcomes /\ [Next]_vars => Outcomes'
  <2> SUFFICES ASSUME TypeOK, Outcomes, [Next]_vars PROVE Outcomes'
    OBVIOUS
  <2>1. ASSUME NEW w \in Workers, Step(w) \/ Fault(w) PROVE Outcomes'
    <3>1. \A v \in Workers : v # w => pc'[v] = pc[v] /\ rc'[v] = rc[v]
      BY <2>1, OthersStay, OutcomesStay
    <3> QED  BY <2>1, <3>1, OutcomeStep DEF Outcomes
  <2>2. CASE Reboot
    BY <2>2 DEF Reboot, Outcomes
  <2>3. CASE UNCHANGED <<pc, rc>>
    BY <2>3 DEF Outcomes
  <2> QED
    BY <2>1, <2>2, <2>3 DEF Next, LateCommit, LateAbort, Arrive, Complete, vars
<1> QED  BY <1>1, <1>2, TypeCorrect, PTL DEF Spec

\* A file that the database lacks leaves the spool only if the parser that its
\* script ran found the semaphore taken.
THEOREM OnlyBusyParsersLose ==
  ASSUME \A f \in Files : LikeMatches[f] = {f}
  PROVE  Spec => OnlyBusyLoses
<1>1. TypeOK /\ TxInv /\ ZeroMeansLoaded /\ Outcomes /\ [Next]_vars
        => [\A f \in Files : Removed(f) /\ ~Loaded(f)' => Busy(f)]_vars
  <2> SUFFICES ASSUME TypeOK, TxInv, ZeroMeansLoaded, Outcomes, [Next]_vars,
                      NEW f \in Files, Removed(f), ~Loaded(f)'
               PROVE  Busy(f)
    OBVIOUS
  <2>1. PICK w \in Workers : RemoveFile(w) /\ job[w] = f
    BY SpoolStep DEF Removed
  <2>2. pc[w] = "rm" /\ rc[w] \in {"ok", "busy"}
    BY <2>1 DEF RemoveFile, TypeOK, Outcomes
  <2>3. rc[w] = "ok" => Loaded(f)'
    BY <2>1, <2>2, LoadedStays DEF ZeroMeansLoaded
  <2> QED  BY <2>1, <2>2, <2>3 DEF Busy
<1> QED
  BY <1>1, TypeCorrect, TxInvariant, OutcomesInvariant, ZeroStatus, PTL
     DEF Spec, OnlyBusyLoses

-------------------------------------------------------------------------------
(* At most once *)

Loading(f) == {w \in Workers : pc[w] \in Checked /\ job[w] = f}
Pending(f) == {l \in late : l.file = f}

LateInv == IsFiniteSet(late) /\ Cardinality(late) <= faults["late"]

\* The commits that are on their way: one more with each that times out.
LEMMA LateGrows ==
  ASSUME [Next]_vars
  PROVE  late' \subseteq late \/ \E w \in Workers : CommitTimesOut(w)
BY LateStep

LEMMA LateInvariant == Spec => []LateInv
<1>1. Init => LateInv
  BY FS_EmptySet DEF Init, LateInv, FaultKinds
<1>2. TypeOK /\ LateInv /\ [Next]_vars => LateInv'
  <2> SUFFICES ASSUME TypeOK, LateInv, [Next]_vars
               PROVE  IsFiniteSet(late') /\ Cardinality(late') <= faults'["late"]
    BY DEF LateInv
  <2>1. /\ faults["late"] \in Nat /\ faults'["late"] \in Nat
        /\ faults["late"] <= faults'["late"]
    BY FaultsGrow DEF FaultKinds
  <2>2. Cardinality(late) \in Nat
    BY FS_CardinalityType DEF LateInv
  <2>3. CASE late' \subseteq late
    BY <2>1, <2>2, <2>3, CountSubset DEF LateInv
  <2>4. ASSUME NEW w \in Workers, CommitTimesOut(w)
        PROVE  IsFiniteSet(late') /\ Cardinality(late') <= faults'["late"]
    <3>1. faults'["late"] = faults["late"] + 1
      BY <2>4 DEF CommitTimesOut, Strike, TypeOK, FaultKinds
    <3>2. PICK x : late' = late \union {x}
      BY <2>4 DEF CommitTimesOut
    <3> QED  BY <2>1, <2>2, <3>1, <3>2, CountOneMore DEF LateInv
  <2> QED  BY <2>3, <2>4, LateGrows
<1> QED  BY <1>1, <1>2, TypeCorrect, PTL DEF Spec

\* The copies that are stored, that a parser past FileWasProcessed may store and
\* that may still arrive are one, and one more per stray signal and late commit.
CopiesInv ==
  \A f \in Files :
    db[f]["processed_files"] + Cardinality(Loading(f)) + Cardinality(Pending(f))
      <= 1 + faults["stray"] + faults["late"]

LEMMA CopiesFinite ==
  ASSUME HoldersInv, LateInv, NEW f \in Files
  PROVE  /\ IsFiniteSet(Loading(f)) /\ Cardinality(Loading(f)) \in Nat
         /\ IsFiniteSet(Pending(f)) /\ Cardinality(Pending(f)) \in Nat
         /\ Cardinality(Loading(f)) <= Cardinality(Holders(f))
         /\ Cardinality(Pending(f)) <= Cardinality(late)
<1>1. Loading(f) \subseteq Holders(f)
  BY DEF Loading, Holders, Holding, Connected
<1>2. Pending(f) \subseteq late
  BY DEF Pending
<1>3. /\ IsFiniteSet(Loading(f)) /\ Cardinality(Loading(f)) \in Nat
      /\ Cardinality(Loading(f)) <= Cardinality(Holders(f))
  BY <1>1, CountSubset DEF HoldersInv
<1>4. /\ IsFiniteSet(Pending(f)) /\ Cardinality(Pending(f)) \in Nat
      /\ Cardinality(Pending(f)) <= Cardinality(late)
  BY <1>2, CountSubset DEF LateInv
<1> QED  BY <1>3, <1>4

\* A parser starts to load only what is not in the database.
LEMMA StartsAbsent ==
  ASSUME TypeOK, TypeOK', [Next]_vars, NEW f \in Files, NEW v \in Loading(f)', v \notin Loading(f)
  PROVE  db[f]["processed_files"] = 0
<1>1. v \in Workers /\ pc'[v] \in Checked /\ job'[v] = f
  BY DEF Loading
<1>2. CheckedFrom(v)
  BY <1>1, StepControl
<1>3. job[v] = f /\ CheckProcessed(v) /\ pc'[v] = "load"
  BY <1>1, <1>2 DEF CheckedFrom, Loading
<1>4. \A g \in LikeMatches[f] : ~(db[g]["processed_files"] > 0)
  BY <1>1, <1>3 DEF CheckProcessed, Leave, Goto, TypeOK
<1>5. db[f]["processed_files"] \in Nat
  BY DEF TypeOK, Tables
<1> QED  BY <1>4, <1>5, ParserAssumption

\* A commit turns a copy that may be stored into one that is.
LEMMA CommitCopies ==
  ASSUME TypeOK, HoldersInv, LateInv, CopiesInv, [Next]_vars, NEW f \in Files,
         NEW w \in Workers, CommitTransaction(w), Apply(job[w], Tables)
  PROVE  db'[f]["processed_files"] + Cardinality(Loading(f)') + Cardinality(Pending(f)')
           <= 1 + faults'["stray"] + faults'["late"]
<1>1. /\ job[w] \in Files /\ pc[w] \in Checked
      /\ late' = late /\ job' = job
      /\ pc'[w] \notin Checked
      /\ \A v \in Workers : v # w => pc'[v] = pc[v]
  BY DEF CommitTransaction, Leave, Goto, TypeOK, Checked, InTx
<1> DEFINE T == "processed_files"
<1>2. T \in Tables
  BY DEF Tables
<1>3. db'[f][T] = IF f = job[w] THEN db[f][T] + 1 ELSE db[f][T]
  BY <1>1, <1>2, ApplyGrows DEF TypeOK
<1>4. Pending(f)' = Pending(f)
  BY <1>1 DEF Pending
<1>5. /\ faults["stray"] <= faults'["stray"] /\ faults["late"] <= faults'["late"]
      /\ faults["stray"] \in Nat /\ faults["late"] \in Nat
      /\ faults'["stray"] \in Nat /\ faults'["late"] \in Nat
  BY FaultsGrow DEF FaultKinds
<1>6. db[f][T] \in Nat
  BY <1>2 DEF TypeOK
<1>7. CASE f = job[w]
  <2>1. w \in Loading(f) /\ Loading(f)' \subseteq Loading(f) \ {w}
    BY <1>1, <1>7 DEF Loading
  <2>2. Cardinality(Loading(f)') \in Nat /\ Cardinality(Loading(f)') + 1 <= Cardinality(Loading(f))
    BY <2>1, CopiesFinite, CountOneLess
  <2> QED  BY <1>3, <1>4, <1>5, <1>6, <1>7, <2>2, CopiesFinite DEF CopiesInv
<1>8. CASE f # job[w]
  <2>1. Loading(f)' \subseteq Loading(f)
    BY <1>1, <1>8 DEF Loading
  <2>2. Cardinality(Loading(f)') \in Nat /\ Cardinality(Loading(f)') <= Cardinality(Loading(f))
    BY <2>1, CopiesFinite, CountSubset
  <2> QED  BY <1>3, <1>4, <1>5, <1>6, <1>8, <2>2, CopiesFinite DEF CopiesInv
<1> QED  BY <1>7, <1>8

\* So does one that is late.
LEMMA LateCopies ==
  ASSUME TypeOK, HoldersInv, LateInv, CopiesInv, [Next]_vars, NEW f \in Files,
         LateCommit, NEW l \in late, late' = late \ {l}, l.file \in Files,
         Apply(l.file, Tables)
  PROVE  db'[f]["processed_files"] + Cardinality(Loading(f)') + Cardinality(Pending(f)')
           <= 1 + faults'["stray"] + faults'["late"]
<1> DEFINE T == "processed_files"
<1>1. T \in Tables
  BY DEF Tables
<1>2. db'[f][T] = IF f = l.file THEN db[f][T] + 1 ELSE db[f][T]
  BY <1>1, ApplyGrows DEF TypeOK
<1>3. Loading(f)' = Loading(f) /\ faults' = faults
  BY DEF LateCommit, Loading
<1>4. db[f][T] \in Nat /\ faults["stray"] \in Nat /\ faults["late"] \in Nat
  BY <1>1 DEF TypeOK, FaultKinds
<1>5. CASE f = l.file
  <2>1. l \in Pending(f) /\ Pending(f)' \subseteq Pending(f) \ {l}
    BY <1>5 DEF Pending
  <2>2. Cardinality(Pending(f)') \in Nat /\ Cardinality(Pending(f)') + 1 <= Cardinality(Pending(f))
    BY <2>1, CopiesFinite, CountOneLess
  <2> QED  BY <1>2, <1>3, <1>4, <1>5, <2>2, CopiesFinite DEF CopiesInv
<1>6. CASE f # l.file
  <2>1. Pending(f)' \subseteq Pending(f)
    BY DEF Pending
  <2>2. Cardinality(Pending(f)') \in Nat /\ Cardinality(Pending(f)') <= Cardinality(Pending(f))
    BY <2>1, CopiesFinite, CountSubset
  <2> QED  BY <1>2, <1>3, <1>4, <1>6, <2>2, CopiesFinite DEF CopiesInv
<1> QED  BY <1>5, <1>6

\* While nothing is stored, a copy more may be on its way only after a commit that
\* timed out, and a parser more only on a file that is not stored.
LEMMA SameDbCopies ==
  ASSUME TypeOK, TypeOK', HoldersInv, HoldersInv', LateInv, LateInv', CopiesInv,
         [Next]_vars, db' = db, NEW f \in Files
  PROVE  db'[f]["processed_files"] + Cardinality(Loading(f)') + Cardinality(Pending(f)')
           <= 1 + faults'["stray"] + faults'["late"]
<1> DEFINE T == "processed_files"
<1>1. db[f][T] \in Nat
  BY DEF TypeOK, Tables
<1>2. /\ faults["stray"] <= faults'["stray"] /\ faults["late"] <= faults'["late"]
      /\ faults["stray"] \in Nat /\ faults["late"] \in Nat
      /\ faults'["stray"] \in Nat /\ faults'["late"] \in Nat
  BY FaultsGrow DEF FaultKinds
<1>3. CASE ~(Loading(f)' \subseteq Loading(f))
  <2>1. db[f][T] = 0
    BY <1>3, StartsAbsent
  <2>2. /\ Cardinality(Holders(f)') <= 1 + faults'["stray"]
        /\ Cardinality(Holders(f)') \in Nat
    BY <1>2, FS_CardinalityType DEF HoldersInv
  <2>3. Cardinality(late') <= faults'["late"] /\ Cardinality(late') \in Nat
    BY FS_CardinalityType DEF LateInv
  <2>4. /\ Cardinality(Loading(f)') \in Nat /\ Cardinality(Pending(f)') \in Nat
        /\ Cardinality(Loading(f)') <= Cardinality(Holders(f)')
        /\ Cardinality(Pending(f)') <= Cardinality(late')
    <3>1. Loading(f)' \subseteq Holders(f)'
      BY DEF Loading, Holders, Holding, Connected
    <3>2. Pending(f)' \subseteq late'
      BY DEF Pending
    <3> QED  BY <3>1, <3>2, CountSubset DEF HoldersInv, LateInv
  <2> QED  BY <1>2, <2>1, <2>2, <2>3, <2>4
<1>4. CASE Loading(f)' \subseteq Loading(f)
  <2>1. Cardinality(Loading(f)') \in Nat /\ Cardinality(Loading(f)') <= Cardinality(Loading(f))
    BY <1>4, CopiesFinite, CountSubset
  <2>2. CASE late' \subseteq late
    <3>1. Pending(f)' \subseteq Pending(f)
      BY <2>2 DEF Pending
    <3>2. Cardinality(Pending(f)') \in Nat /\ Cardinality(Pending(f)') <= Cardinality(Pending(f))
      BY <3>1, CopiesFinite, CountSubset
    <3> QED  BY <1>1, <1>2, <2>1, <3>2, CopiesFinite DEF CopiesInv
  <2>3. ASSUME NEW w \in Workers, CommitTimesOut(w)
        PROVE  db'[f][T] + Cardinality(Loading(f)') + Cardinality(Pending(f)')
                 <= 1 + faults'["stray"] + faults'["late"]
    <3>1. faults'["late"] = faults["late"] + 1
      BY <2>3 DEF CommitTimesOut, Strike, TypeOK, FaultKinds
    <3>2. PICK x : late' = late \union {x}
      BY <2>3 DEF CommitTimesOut
    <3>3. Pending(f)' \subseteq Pending(f) \union {x}
      BY <3>2 DEF Pending
    <3>4. Cardinality(Pending(f)') \in Nat /\ Cardinality(Pending(f)') <= Cardinality(Pending(f)) + 1
      BY <3>3, CopiesFinite, CountOneMore
    <3> QED  BY <1>1, <1>2, <2>1, <3>1, <3>4, CopiesFinite DEF CopiesInv
  <2> QED  BY <2>2, <2>3, LateGrows
<1> QED  BY <1>3, <1>4

LEMMA CopiesInvariant == Spec => []CopiesInv
<1>1. Init => CopiesInv
  <2> SUFFICES ASSUME Init, NEW f \in Files
               PROVE  db[f]["processed_files"] + Cardinality(Loading(f))
                        + Cardinality(Pending(f)) <= 1 + faults["stray"] + faults["late"]
    BY DEF CopiesInv
  <2>1. Loading(f) = {} /\ Pending(f) = {}
    BY DEF Init, Loading, Pending, Checked, InTx
  <2>2. /\ db[f]["processed_files"] = 0
        /\ faults["stray"] = 0 /\ faults["late"] = 0
    BY DEF Init, Tables, FaultKinds
  <2> QED  BY <2>1, <2>2, FS_EmptySet
<1>2. TypeOK /\ TypeOK' /\ TxInv /\ HoldersInv /\ HoldersInv' /\ LateInv /\ LateInv'
      /\ CopiesInv /\ [Next]_vars => CopiesInv'
  <2> SUFFICES ASSUME TypeOK, TypeOK', TxInv, HoldersInv, HoldersInv', LateInv, LateInv',
                      CopiesInv, [Next]_vars, NEW f \in Files
               PROVE  db'[f]["processed_files"] + Cardinality(Loading(f)')
                        + Cardinality(Pending(f)') <= 1 + faults'["stray"] + faults'["late"]
    BY DEF CopiesInv
  <2> QED  BY DbStep, CommitCopies, LateCopies, SameDbCopies
<1> QED
  BY <1>1, <1>2, TypeCorrect, TxInvariant, HoldersInvariant, LateInvariant, PTL DEF Spec

\* A file is stored once, and once more at most per stray signal and per commit
\* that outlives its client, whatever else fails and however often it is retried.
THEOREM LoadedAtMostOnce == Spec => []AtMostOnce
<1>1. TypeOK /\ HoldersInv /\ LateInv /\ CopiesInv /\ AtomicLoad => AtMostOnce
  <2> SUFFICES ASSUME TypeOK, HoldersInv, LateInv, CopiesInv, AtomicLoad,
                      NEW f \in Files, NEW t \in Tables
               PROVE  db[f][t] <= 1 + faults["stray"] + faults["late"]
    BY DEF AtMostOnce
  <2>1. /\ db[f][t] = db[f]["processed_files"] /\ db[f][t] \in Nat
        /\ faults["stray"] \in Nat /\ faults["late"] \in Nat
    BY DEF AtomicLoad, TypeOK, Tables, FaultKinds
  <2> QED  BY <2>1, CopiesFinite DEF CopiesInv
<1> QED
  BY <1>1, TypeCorrect, HoldersInvariant, LateInvariant, CopiesInvariant, LoadIsAtomic, PTL

\* Without stray signals and late commits, FileWasProcessed and the semaphore are
\* enough: run late_commit violates NeverTwice for no other reason.
THEOREM NeverLoadedTwice ==
  ASSUME MaxFaults["stray"] = 0, MaxFaults["late"] = 0
  PROVE  Spec => []NeverTwice
<1>1. Init => faults["stray"] = 0 /\ faults["late"] = 0
  BY DEF Init, FaultKinds
<1>2. TypeOK /\ faults["stray"] = 0 /\ faults["late"] = 0 /\ [Next]_vars
        => (faults["stray"] = 0 /\ faults["late"] = 0)'
  <2> SUFFICES ASSUME TypeOK, faults["stray"] = 0, faults["late"] = 0, [Next]_vars
               PROVE  faults'["stray"] = 0 /\ faults'["late"] = 0
    OBVIOUS
  <2>1. ASSUME NEW k \in FaultKinds, Strike(k)
        PROVE  faults'["stray"] = 0 /\ faults'["late"] = 0
    BY <2>1 DEF Strike, TypeOK, FaultKinds
  <2> QED  BY <2>1, FaultsStrike
<1>3. AtMostOnce /\ faults["stray"] = 0 /\ faults["late"] = 0 => NeverTwice
  BY DEF AtMostOnce, NeverTwice
<1> QED  BY <1>1, <1>2, <1>3, TypeCorrect, LoadedAtMostOnce, PTL DEF Spec

-------------------------------------------------------------------------------
(* The refinement *)

Quiet == faults["stray"] = 0 /\ faults["late"] = 0

\* The parsers implement LoadOnce: each file is stored whole, in one step and for
\* good, and for the first time unless a stray signal or a late commit has come.
THEOREM Refinement == Spec => OnceSpec
<1>1. Init => Once!Init
  BY DEF Init, Once!Init, FaultKinds
<1>2. TypeOK /\ TxInv /\ AtMostOnce' /\ [Next]_vars => [Once!Next]_(Once!vars)
  <2> SUFFICES ASSUME TypeOK, TxInv, AtMostOnce', [Next]_vars
               PROVE  Once!Next
    OBVIOUS
  <2>1. Quiet' => Quiet
    <3>1. faults["stray"] \in Nat /\ faults["stray"] <= faults'["stray"]
      BY FaultsGrow DEF FaultKinds
    <3>2. faults["late"] \in Nat /\ faults["late"] <= faults'["late"]
      BY FaultsGrow DEF FaultKinds
    <3> QED  BY <3>1, <3>2 DEF Quiet
  <2>2. ASSUME NEW f \in Files, Apply(f, Tables) PROVE Once!Load(f)
    <3>1. \A t \in Tables : db[f][t] \in Nat /\ db'[f][t] = db[f][t] + 1
      BY <2>2, ApplyGrows DEF TypeOK
    <3>2. Quiet' => \A t \in Tables : db[f][t] = 0
      <4>1. Quiet' => \A t \in Tables : db'[f][t] <= 1
        BY <3>1 DEF AtMostOnce, Quiet
      <4> QED  BY <3>1, <4>1
    <3>3. db' = [db EXCEPT ![f] = [t \in Tables |-> @[t] + 1]]
      BY <2>2 DEF Apply
    <3> QED  BY <3>2, <3>3 DEF Once!Load, Quiet
  <2> QED  BY <2>1, <2>2, DbStep DEF Once!Next, Quiet
<1> QED
  BY <1>1, <1>2, TypeCorrect, TxInvariant, LoadedAtMostOnce, PTL DEF Spec, Once!Spec, OnceSpec

-------------------------------------------------------------------------------
(* One script alone *)

\* Where a worker's file is about to be removed although sem_open failed.
Refused == {f \in Files : \E w \in Workers : job[w] = f /\ rc[w] = "busy"}

\* What is lost, and what its script will take for loaded in this or the next pass.
Doomed == Lost \union Stale \union Refused

\* Every other script is between two files.
Alone(w) == \A v \in Workers : v # w => pc[v] = "pass"

\* A file is lost when a script removes it after sem_open failed.
LEMMA LostStep ==
  ASSUME TypeOK, TxInv, Outcomes, ZeroMeansLoaded, [Next]_vars
  PROVE  Lost' \subseteq Lost \union Refused
<1> SUFFICES ASSUME NEW f \in Files, spool'[f] = "removed", ~Loaded(f)', f \notin Lost
             PROVE  f \in Refused
  BY DEF Lost
<1>1. ~Loaded(f) /\ spool[f] # "removed"
  BY LoadedStays DEF Lost
<1>2. PICK w \in Workers : RemoveFile(w) /\ job[w] = f
  BY <1>1, SpoolStep
<1>3. pc[w] = "rm" /\ rc[w] \in {"ok", "busy"}
  BY <1>2 DEF RemoveFile, TypeOK, Outcomes
<1>4. rc[w] # "ok"
  BY <1>1, <1>2, <1>3 DEF ZeroMeansLoaded
<1> QED  BY <1>2, <1>3, <1>4 DEF Refused

\* A lone parser finds only stale semaphores.
LEMMA RefusedStep ==
  ASSUME TypeOK, Outcomes, NEW w \in Workers, Alone(w), Step(w) \/ Fault(w)
  PROVE  \/ Refused' \subseteq Refused \union Stale
         \/ Strike("semfail") /\ Stale' \subseteq Stale /\ Refused' \subseteq Refused \union {job[w]}
<1>1. \A v \in Workers : v # w => rc'[v] = rc[v] /\ job'[v] = job[v]
  BY OthersStay, OutcomesStay
<1>2. CASE ~SemaphoreBusy(w)
  <2>1. rc'[w] = "busy" => rc[w] = "busy" /\ job'[w] = job[w]
    BY <1>2, OutcomeStep
  <2> QED  BY <1>1, <2>1 DEF Refused
<1>3. CASE SemaphoreBusy(w)
  <2>1. pc[w] = "open" /\ job' = job /\ sems' = sems
    BY <1>3 DEF SemaphoreBusy
  <2>2. Refused' \subseteq Refused \union {job[w]}
    BY <1>1, <2>1 DEF Refused
  <2>3. CASE job[w] \in sems
    <3>1. Holders(job[w]) = {}
      BY <2>1 DEF Alone, Holders, Holding, Connected, Checked, InTx
    <3> QED  BY <2>2, <2>3, <3>1 DEF Stale
  <2>4. CASE job[w] \notin sems
    <3>1. Strike("semfail")
      BY <1>3, <2>4 DEF SemaphoreBusy
    <3>2. \A v \in Workers : pc[v] \in Holding => v # w /\ pc'[v] = pc[v]
      BY <1>3, <2>1 DEF SemaphoreBusy, Leave, Goto, TypeOK, Holding, Connected, Checked, InTx
    <3>3. Stale' \subseteq Stale
      BY <2>1, <3>2 DEF Stale, Holders
    <3> QED  BY <2>2, <3>1, <3>3
  <2> QED  BY <2>3, <2>4
<1> QED  BY <1>2, <1>3

\* A script moves and the others are between two files, the host restarts, or
\* nothing happens that is about scripts, parsers and semaphores.
LoneStep ==
  \/ \E w \in Workers : Alone(w) /\ (Step(w) \/ Fault(w))
  \/ Reboot
  \/ UNCHANGED <<pc, job, rc, sems>>

\* A file more is doomed only by a kill or a sem_open that fails.
LEMMA DoomedStep ==
  ASSUME TypeOK, TxInv, Outcomes, ZeroMeansLoaded, [Next]_vars, LoneStep
  PROVE  \/ Doomed' \subseteq Doomed
         \/ \E x : (Strike("kill") \/ Strike("semfail")) /\ Doomed' \subseteq Doomed \union {x}
<1>1. Lost' \subseteq Doomed
  BY LostStep DEF Doomed
<1>2. CASE Strike("semfail") /\ \E x : Stale' \subseteq Stale /\ Refused' \subseteq Refused \union {x}
  BY <1>1, <1>2 DEF Doomed
<1>3. CASE Refused' \subseteq Refused \union Stale
  BY <1>1, <1>3, StaleStep DEF Doomed
<1>4. CASE Reboot
  BY <1>3, <1>4 DEF Reboot, Refused
<1>5. CASE UNCHANGED <<pc, job, rc, sems>>
  BY <1>3, <1>5 DEF Refused
<1> QED  BY <1>2, <1>3, <1>4, <1>5, RefusedStep DEF LoneStep

FewDoomed ==
  IsFiniteSet(Doomed) /\ Cardinality(Doomed) <= faults["kill"] + faults["semfail"]

LEMMA FewDoomedFirst == Init => FewDoomed
<1> SUFFICES ASSUME Init PROVE FewDoomed
  OBVIOUS
<1>1. Doomed = {} /\ faults["kill"] = 0 /\ faults["semfail"] = 0
  BY DEF Init, Doomed, Lost, Stale, Refused, FaultKinds
<1> QED  BY <1>1, FS_EmptySet DEF FewDoomed

LEMMA FewDoomedStep ==
  ASSUME TypeOK, TxInv, Outcomes, ZeroMeansLoaded, FewDoomed, [Next]_vars, LoneStep
  PROVE  FewDoomed'
<1> SUFFICES /\ IsFiniteSet(Doomed')
             /\ Cardinality(Doomed') <= faults'["kill"] + faults'["semfail"]
  BY DEF FewDoomed
<1>1. /\ faults["kill"] \in Nat /\ faults'["kill"] \in Nat
      /\ faults["kill"] <= faults'["kill"]
      /\ faults["semfail"] \in Nat /\ faults'["semfail"] \in Nat
      /\ faults["semfail"] <= faults'["semfail"]
  BY FaultsGrow DEF FaultKinds
<1>2. Cardinality(Doomed) \in Nat
  BY FS_CardinalityType DEF FewDoomed
<1>3. CASE Doomed' \subseteq Doomed
  BY <1>1, <1>2, <1>3, CountSubset DEF FewDoomed
<1>4. ASSUME NEW x, Strike("kill") \/ Strike("semfail"), Doomed' \subseteq Doomed \union {x}
      PROVE  /\ IsFiniteSet(Doomed')
             /\ Cardinality(Doomed') <= faults'["kill"] + faults'["semfail"]
  <2>1. \/ faults'["kill"] = faults["kill"] + 1
        \/ faults'["semfail"] = faults["semfail"] + 1
    BY <1>4 DEF Strike, TypeOK, FaultKinds
  <2>2. /\ IsFiniteSet(Doomed')
        /\ Cardinality(Doomed') \in Nat
        /\ Cardinality(Doomed') <= Cardinality(Doomed) + 1
    BY <1>4, CountOneMore DEF FewDoomed
  <2> QED  BY <1>1, <1>2, <2>1, <2>2 DEF FewDoomed
<1> QED  BY <1>3, <1>4, DoomedStep

LEMMA FewDoomedFewLost ==
  ASSUME TypeOK, FewDoomed
  PROVE  NothingLost
<1>1. Lost \subseteq Doomed
  BY DEF Doomed
<1>2. Cardinality(Doomed) \in Nat /\ faults["kill"] \in Nat /\ faults["semfail"] \in Nat
  BY FS_CardinalityType DEF FewDoomed, TypeOK, FaultKinds
<1>3. Cardinality(Lost) \in Nat /\ Cardinality(Lost) <= Cardinality(Doomed)
  BY <1>1, CountSubset DEF FewDoomed
<1> QED  BY <1>2, <1>3 DEF FewDoomed, NothingLost

\* A single script removes no file that the database lacks, but for one per parser
\* that was killed and one per sem_open that failed for another reason than that
\* the name exists.
THEOREM LoneScriptLosesNothing ==
  ASSUME NEW w, Workers = {w}, \A f \in Files : LikeMatches[f] = {f}
  PROVE  Spec => []NothingLost
<1>1. TypeOK /\ TxInv /\ Outcomes /\ ZeroMeansLoaded /\ FewDoomed /\ [Next]_vars
        => FewDoomed'
  <2> SUFFICES ASSUME TypeOK, TxInv, Outcomes, ZeroMeansLoaded, FewDoomed, [Next]_vars
               PROVE  FewDoomed'
    OBVIOUS
  <2>1. LoneStep
    BY DEF Next, LoneStep, Alone, LateCommit, LateAbort, Arrive, Complete, vars
  <2> QED  BY <2>1, FewDoomedStep
<1>2. TypeOK /\ FewDoomed => NothingLost
  BY FewDoomedFewLost
<1>3. Spec => []ZeroMeansLoaded
  BY ZeroStatus
<1> QED
  BY <1>1, <1>2, <1>3, FewDoomedFirst, TypeCorrect, TxInvariant, OutcomesInvariant, PTL
     DEF Spec
===============================================================================
