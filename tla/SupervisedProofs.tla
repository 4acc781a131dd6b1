--------------------------- MODULE SupervisedProofs ---------------------------
(***************************************************************************)
(* What cdr_parser_zh.sh's guard achieves for any number of supervisors,   *)
(* files and faults: one script at a time, and with it a spool from which  *)
(* only kills and failing semaphores lose anything.  Everything proved     *)
(* about CdrParser's workers holds of supervised ones, because every step  *)
(* here is one of CdrParser's or none.                                     *)
(***************************************************************************)
EXTENDS Supervised, CdrParserProofs

-------------------------------------------------------------------------------
(* Supervision only restricts CdrParser *)

LEMMA GuardIdle ==
  ASSUME NEW w \in Workers, Guard(w)
  PROVE  UNCHANGED vars
BY DEF Guard, Start, LookAt, SeeAnother, Proceed, Refuse

LEMMA SupStep == SupNext => [Next]_vars
<1>1. ASSUME NEW w \in Workers, Script(w) PROVE [Next]_vars
  BY <1>1 DEF Script, KillSupervisor, RunByHand, OrphanEnds, Work, Next, Step, ScriptStep
<1>2. RebootAll \/ Outside => Next
  BY DEF RebootAll, Outside, Next
<1> QED  BY <1>1, <1>2, GuardIdle DEF SupNext

\* Supervised scripts behave as CdrParser's do, whatever the guard does: what
\* is proved of them without supervisors is true of them with supervisors.
THEOREM SupervisedRefines == SupSpec => Spec
<1>1. SupInit => Init
  BY DEF SupInit
<1>2. [SupNext]_<<vars, supVars>> => [Next]_vars
  BY SupStep
<1> QED  BY <1>1, <1>2, PTL DEF SupSpec, Spec

-------------------------------------------------------------------------------
(* Types *)

LEMMA GuardTypes ==
  ASSUME SupTypeOK, NEW w \in Workers, Guard(w)
  PROVE  SupTypeOK'
<1> USE SupervisedAssumption DEF SupTypeOK, Become, Between
<1> UNCHANGED <<pc, todo>>
  BY GuardIdle DEF vars
<1>1. CASE Start(w)
  BY <1>1 DEF Start
<1>2. CASE LookAt(w)
  <2>1. PICK v \in unseen[w] :
          /\ unseen' = [unseen EXCEPT ![w] = @ \ {v}]
          /\ \/ found' = [found EXCEPT ![w] = @ \/ Named(v)] /\ UNCHANGED slips
             \/ slips < MaxSlips /\ slips' = slips + 1 /\ UNCHANGED found
    BY <1>2 DEF LookAt
  <2>2. UNCHANGED <<sup, strays>> /\ sup[w] = "look"
    BY <1>2 DEF LookAt
  <2>3. found' \in [Workers -> BOOLEAN] /\ slips' \in 0..MaxSlips
    <3>1. Named(v) \in BOOLEAN
      BY DEF Named
    <3> QED  BY <2>1, <3>1
  <2>4. unseen' \in [Workers -> SUBSET Workers]
    BY <2>1
  <2>5. \A u \in Workers : u # w => unseen'[u] = unseen[u] /\ found'[u] = found[u]
    BY <2>1
  <2> QED  BY <2>2, <2>3, <2>4, <2>5
<1>3. CASE SeeAnother(w)
  BY <1>3 DEF SeeAnother
<1>4. CASE Proceed(w)
  BY <1>4 DEF Proceed
<1>5. CASE Refuse(w)
  BY <1>5 DEF Refuse
<1> QED  BY <1>1, <1>2, <1>3, <1>4, <1>5 DEF Guard

LEMMA ScriptKeepsTypes ==
  ASSUME TypeOK, SupTypeOK, NEW w \in Workers, Script(w)
  PROVE  SupTypeOK'
<1> USE SupervisedAssumption DEF SupTypeOK, Become, Between, Stray
<1>1. CASE KillSupervisor(w)
  <2> UNCHANGED <<pc, todo>>
    BY <1>1 DEF KillSupervisor, vars
  <2> QED  BY <1>1 DEF KillSupervisor
<1>2. CASE RunByHand(w)
  BY <1>2 DEF RunByHand, NewPass, TypeOK
<1>3. CASE OrphanEnds(w)
  BY <1>3 DEF OrphanEnds, vars
<1>4. CASE Work(w)
  <2>1. UNCHANGED supVars /\ sup[w] \notin {"off", "look"}
    BY <1>4 DEF Work
  <2>2. \A v \in Workers : v # w => pc'[v] = pc[v] /\ todo'[v] = todo[v]
    <3>1. TypeOK /\ (Step(w) \/ Fault(w))
      BY <1>4 DEF Work
    <3> QED  BY <3>1, OthersStay
  <2> QED  BY <2>1, <2>2 DEF supVars
<1> QED  BY <1>1, <1>2, <1>3, <1>4 DEF Script

\* The slots keep their types; a script runs only in a loop or an orphan, and
\* whoever loops has been told by its guard that it is alone.
THEOREM SupTypeCorrect == SupSpec => []SupTypeOK
<1>1. SupInit => SupTypeOK
  BY SupervisedAssumption DEF SupInit, Init, SupTypeOK, Between
<1>2. TypeOK /\ SupTypeOK /\ [SupNext]_<<vars, supVars>> => SupTypeOK'
  <2> SUFFICES ASSUME TypeOK, SupTypeOK, [SupNext]_<<vars, supVars>> PROVE SupTypeOK'
    OBVIOUS
  <2>1. ASSUME NEW w \in Workers, Guard(w) \/ Script(w) PROVE SupTypeOK'
    BY <2>1, GuardTypes, ScriptKeepsTypes
  <2>2. CASE RebootAll
    BY <2>2 DEF RebootAll, Reboot, SupTypeOK, Between
  <2>3. CASE Outside \/ UNCHANGED <<vars, supVars>>
    BY <2>3 DEF Outside, LateCommit, LateAbort, Arrive, Complete, vars, supVars,
       SupTypeOK, Between
  <2> QED  BY <2>1, <2>2, <2>3 DEF SupNext
<1> QED
  BY <1>1, <1>2, SupervisedRefines, TypeCorrect, PTL DEF SupSpec

-------------------------------------------------------------------------------
(* One loop *)

\* Of two instances that are there at the same time, one still has to look at
\* the other, or has counted a process: the later start sees the earlier one.
Aware(w, v) == v \in unseen[w] \/ found[w]

Mutual == \A v, w \in Workers : v # w /\ Named(v) /\ Named(w) => Aware(v, w) \/ Aware(w, v)

MutualInv == slips = 0 => Mutual

LEMMA GuardMutual ==
  ASSUME SupTypeOK, Mutual, NEW w \in Workers, Guard(w), slips' = 0
  PROVE  Mutual'
<1> USE DEF SupTypeOK, Mutual, Aware, Named, Become
<1>1. CASE Start(w)
  BY <1>1 DEF Start
<1>2. CASE LookAt(w)
  <2>1. PICK v \in unseen[w] :
          /\ unseen' = [unseen EXCEPT ![w] = @ \ {v}]
          /\ \/ found' = [found EXCEPT ![w] = @ \/ Named(v)]
             \/ slips' = slips + 1
    BY <1>2 DEF LookAt
  <2>2. found' = [found EXCEPT ![w] = @ \/ Named(v)]
    BY <2>1
  <2>3. UNCHANGED sup
    BY <1>2 DEF LookAt
  <2>4. \A u \in Workers : u # w => unseen'[u] = unseen[u] /\ found'[u] = found[u]
    BY <2>1, <2>2
  <2>5. \A u \in Workers : Named(u) /\ Aware(w, u) => Aware(w, u)'
    BY <2>1, <2>2
  <2> QED  BY <2>3, <2>4, <2>5
<1>3. CASE SeeAnother(w)
  BY <1>3 DEF SeeAnother
<1>4. CASE Proceed(w)
  BY <1>4 DEF Proceed
<1>5. CASE Refuse(w)
  BY <1>5 DEF Refuse
<1> QED  BY <1>1, <1>2, <1>3, <1>4, <1>5 DEF Guard

LEMMA ScriptMutual ==
  ASSUME SupTypeOK, Mutual, NEW w \in Workers, Script(w)
  PROVE  Mutual'
<1>1. UNCHANGED <<unseen, found>>
  BY DEF Script, KillSupervisor, RunByHand, OrphanEnds, Work, supVars
<1>2. \A v \in Workers : Named(v)' => Named(v)
  BY DEF Script, KillSupervisor, RunByHand, OrphanEnds, Work, supVars, Become,
     Named, SupTypeOK
<1> QED  BY <1>1, <1>2 DEF Mutual, Aware

LEMMA SlipsGrow ==
  ASSUME SupTypeOK, [SupNext]_<<vars, supVars>>
  PROVE  /\ slips' = 0 => slips = 0
         /\ strays' = 0 => strays = 0
<1>1. ASSUME NEW w \in Workers, Guard(w)
      PROVE  (slips' = slips \/ slips' = slips + 1) /\ strays' = strays
  BY <1>1 DEF Guard, Start, LookAt, SeeAnother, Proceed, Refuse
<1>2. ASSUME NEW w \in Workers, Script(w)
      PROVE  slips' = slips /\ (strays' = strays \/ strays' = strays + 1)
  BY <1>2 DEF Script, KillSupervisor, RunByHand, OrphanEnds, Work, Stray, supVars
<1>3. CASE RebootAll \/ Outside \/ UNCHANGED <<vars, supVars>>
  BY <1>3 DEF RebootAll, Outside, supVars
<1> QED  BY <1>1, <1>2, <1>3, SupervisedAssumption DEF SupNext, SupTypeOK

LEMMA MutualInvariant == SupSpec => []MutualInv
<1>1. SupInit => MutualInv
  BY DEF SupInit, MutualInv, Mutual, Named
<1>2. SupTypeOK /\ MutualInv /\ [SupNext]_<<vars, supVars>> => MutualInv'
  <2> SUFFICES ASSUME SupTypeOK, MutualInv, [SupNext]_<<vars, supVars>>, slips' = 0
               PROVE  Mutual'
    BY DEF MutualInv
  <2>1. Mutual
    BY SlipsGrow DEF MutualInv
  <2>2. ASSUME NEW w \in Workers, Guard(w) \/ Script(w) PROVE Mutual'
    BY <2>1, <2>2, GuardMutual, ScriptMutual
  <2>3. CASE RebootAll
    BY <2>3 DEF RebootAll, Mutual, Named
  <2>4. CASE Outside \/ UNCHANGED <<vars, supVars>>
    BY <2>1, <2>4 DEF Outside, supVars, Mutual, Named, Aware
  <2> QED  BY <2>2, <2>3, <2>4 DEF SupNext
<1> QED  BY <1>1, <1>2, SupTypeCorrect, PTL DEF SupSpec

\* Every script that runs outside a loop has been counted as a stray one.
Orphans == {w \in Workers : sup[w] = "orphan"}

OrphansInv == IsFiniteSet(Orphans) /\ Cardinality(Orphans) <= strays

LEMMA OrphansStep ==
  ASSUME SupTypeOK, [SupNext]_<<vars, supVars>>
  PROVE  \/ Orphans' \subseteq Orphans /\ strays' = strays
         \/ \E w \in Workers :
              Orphans' \subseteq Orphans \union {w} /\ strays' = strays + 1
<1>1. ASSUME NEW w \in Workers, Guard(w)
      PROVE  Orphans' \subseteq Orphans /\ strays' = strays
  BY <1>1 DEF Guard, Start, LookAt, SeeAnother, Proceed, Refuse, Become, SupTypeOK, Orphans
<1>2. ASSUME NEW w \in Workers, KillSupervisor(w) \/ RunByHand(w)
      PROVE  \/ Orphans' \subseteq Orphans /\ strays' = strays
             \/ Orphans' \subseteq Orphans \union {w} /\ strays' = strays + 1
  BY <1>2 DEF KillSupervisor, RunByHand, Become, Stray, SupTypeOK, Orphans
<1>3. ASSUME NEW w \in Workers, OrphanEnds(w) \/ Work(w)
      PROVE  Orphans' \subseteq Orphans /\ strays' = strays
  BY <1>3 DEF OrphanEnds, Work, Become, SupTypeOK, Orphans, supVars
<1>4. CASE RebootAll \/ Outside \/ UNCHANGED <<vars, supVars>>
  BY <1>4 DEF RebootAll, Outside, supVars, Orphans
<1> QED  BY <1>1, <1>2, <1>3, <1>4 DEF SupNext, Script

LEMMA OrphansAreStrays == SupSpec => []OrphansInv
<1>1. SupInit => OrphansInv
  <2> SUFFICES ASSUME SupInit PROVE OrphansInv
    OBVIOUS
  <2>1. Orphans = {} /\ strays = 0
    BY DEF SupInit, Orphans
  <2> QED  BY <2>1, FS_EmptySet DEF OrphansInv
<1>2. SupTypeOK /\ OrphansInv /\ [SupNext]_<<vars, supVars>> => OrphansInv'
  <2> SUFFICES ASSUME SupTypeOK, OrphansInv, [SupNext]_<<vars, supVars>>
               PROVE  IsFiniteSet(Orphans') /\ Cardinality(Orphans') <= strays'
    BY DEF OrphansInv
  <2>1. Cardinality(Orphans) \in Nat /\ strays \in Nat
    BY SupervisedAssumption, FS_CardinalityType DEF OrphansInv, SupTypeOK
  <2>2. CASE Orphans' \subseteq Orphans /\ strays' = strays
    BY <2>1, <2>2, CountSubset DEF OrphansInv
  <2>3. ASSUME NEW w, Orphans' \subseteq Orphans \union {w}, strays' = strays + 1
        PROVE  IsFiniteSet(Orphans') /\ Cardinality(Orphans') <= strays'
    BY <2>1, <2>3, CountOneMore DEF OrphansInv
  <2> QED  BY <2>2, <2>3, OrphansStep
<1> QED  BY <1>1, <1>2, SupTypeCorrect, PTL DEF SupSpec

\* However many supervisors come and go: at most one script is at work, and one
\* more per stray one, as long as no guard overlooks an instance.
THEOREM OneScriptAtATime == SupSpec => []OneScript
<1>1. SupTypeOK /\ MutualInv /\ OrphansInv => OneScript
  <2> SUFFICES ASSUME SupTypeOK, MutualInv, OrphansInv, slips = 0
               PROVE  Cardinality(Scripts) <= 1 + strays
    BY DEF OneScript
  <2>1. \A v, w \in Workers : sup[v] = "loop" /\ sup[w] = "loop" => v = w
    BY DEF SupTypeOK, MutualInv, Mutual, Aware, Named
  <2>2. \E x : Scripts \subseteq Orphans \union {x}
    <3>1. CASE \E w \in Workers : sup[w] = "loop"
      <4>1. PICK w \in Workers : sup[w] = "loop"
        BY <3>1
      <4>2. Scripts \subseteq Orphans \union {w}
        BY <2>1, <4>1 DEF Scripts, Orphans
      <4> QED  BY <4>2
    <3>2. CASE ~\E w \in Workers : sup[w] = "loop"
      <4>1. Scripts \subseteq Orphans \union {0}
        BY <3>2 DEF Scripts, Orphans
      <4> QED  BY <4>1
    <3> QED  BY <3>1, <3>2
  <2>3. Cardinality(Scripts) \in Nat /\ Cardinality(Scripts) <= Cardinality(Orphans) + 1
    BY <2>2, CountOneMore DEF OrphansInv
  <2>4. Cardinality(Orphans) \in Nat /\ strays \in Nat
    BY SupervisedAssumption, FS_CardinalityType DEF OrphansInv, SupTypeOK
  <2> QED  BY <2>3, <2>4 DEF OrphansInv
<1> QED  BY <1>1, SupTypeCorrect, MutualInvariant, OrphansAreStrays, PTL

-------------------------------------------------------------------------------
(* Nothing is lost *)

Orderly == slips = 0 /\ strays = 0

OrderlyInv == Orderly => FewDoomed

\* Without an oversight the script that moves is the only one that runs, so the
\* argument for a lone script applies.
LEMMA OrderlyAlone ==
  ASSUME SupTypeOK, MutualInv, OrphansInv, Orderly, [SupNext]_<<vars, supVars>>
  PROVE  LoneStep
<1>1. \A v \in Workers : sup[v] # "orphan"
  <2>1. Cardinality(Orphans) \in Nat
    BY FS_CardinalityType DEF OrphansInv
  <2>2. Cardinality(Orphans) = 0
    BY <2>1 DEF OrphansInv, Orderly
  <2>3. Orphans = {}
    BY <2>2, FS_EmptySet DEF OrphansInv
  <2> QED  BY <2>3 DEF Orphans
<1>2. ASSUME NEW w \in Workers, Work(w) PROVE LoneStep
  <2>1. sup[w] = "loop"
    BY <1>1, <1>2 DEF Work
  <2>2. \A v \in Workers : v # w => sup[v] \in {"off", "look"}
    BY <1>1, <2>1 DEF SupTypeOK, MutualInv, Mutual, Aware, Named, Orderly
  <2>3. Alone(w)
    BY <2>2 DEF Alone, SupTypeOK, Between
  <2> QED  BY <1>2, <2>3 DEF Work, LoneStep
<1>3. ASSUME NEW w \in Workers, Guard(w) PROVE LoneStep
  BY <1>3, GuardIdle DEF vars, LoneStep
<1>4. ASSUME NEW w \in Workers, KillSupervisor(w) \/ RunByHand(w) \/ OrphanEnds(w)
      PROVE  LoneStep
  BY <1>4 DEF KillSupervisor, RunByHand, NewPass, OrphanEnds, vars, LoneStep
<1>5. CASE RebootAll
  BY <1>5 DEF RebootAll, LoneStep
<1>6. CASE Outside \/ UNCHANGED <<vars, supVars>>
  BY <1>6 DEF Outside, LateCommit, LateAbort, Arrive, Complete, vars, LoneStep
<1> QED  BY <1>2, <1>3, <1>4, <1>5, <1>6 DEF SupNext, Script

\* While every guard sees what is there and every script has its supervisor, no
\* file is removed that the database lacks, but for one per parser that was killed
\* and one per sem_open that failed.
THEOREM SupervisedSpoolIsSafe ==
  ASSUME \A f \in Files : LikeMatches[f] = {f}
  PROVE  SupSpec => []SupervisedLosesNothing
<1>1. SupInit => OrderlyInv
  BY FewDoomedFirst DEF SupInit, OrderlyInv
<1>2. TypeOK /\ TxInv /\ Outcomes /\ ZeroMeansLoaded /\ SupTypeOK /\ MutualInv
      /\ OrphansInv /\ OrderlyInv /\ [SupNext]_<<vars, supVars>> => OrderlyInv'
  <2> SUFFICES ASSUME TypeOK, TxInv, Outcomes, ZeroMeansLoaded, SupTypeOK, MutualInv,
                      OrphansInv, OrderlyInv, [SupNext]_<<vars, supVars>>, Orderly'
               PROVE  FewDoomed'
    BY DEF OrderlyInv
  <2>1. [Next]_vars
    BY SupStep
  <2>2. Orderly /\ FewDoomed
    BY SlipsGrow DEF Orderly, OrderlyInv
  <2> QED  BY <2>1, <2>2, OrderlyAlone, FewDoomedStep
<1>3. TypeOK /\ OrderlyInv => SupervisedLosesNothing
  BY FewDoomedFewLost DEF OrderlyInv, Orderly, SupervisedLosesNothing
<1>4. Spec => []ZeroMeansLoaded
  BY ZeroStatus
<1> QED
  BY <1>1, <1>2, <1>3, <1>4, SupervisedRefines, TypeCorrect, TxInvariant,
     OutcomesInvariant, SupTypeCorrect, MutualInvariant, OrphansAreStrays, PTL DEF SupSpec
===============================================================================
